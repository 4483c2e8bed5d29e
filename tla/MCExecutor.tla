----------------------------- MODULE MCExecutor -----------------------------
(***************************************************************************)
(* Executor with a container "a", a node "a/b" below it and values of two  *)
(* formats, one of which a response may leave out.                         *)
(***************************************************************************)
EXTENDS Executor

MCUris == {<<97>>, <<97, Sep, 98>>}
MCValues == {[format |-> "chr", data |-> <<99>>], Node}

Symmetry == Permutations(Procs)

=============================================================================
