----------------------------- MODULE MCRecorder -----------------------------
(***************************************************************************)
(* Recorder with one URI and the kinds of value that are rendered          *)
(* differently: data with a format, a container, nothing.                  *)
(***************************************************************************)
EXTENDS Recorder

MCURIs == {<<97>>}
MCPayloads == {[format |-> "chr", data |-> <<98>>], Node, Null}

=============================================================================
