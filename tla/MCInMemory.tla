----------------------------- MODULE MCInMemory -----------------------------
(***************************************************************************)
(* InMemory with three paths: "a", "ab" that starts like it without being  *)
(* below it, and "a/a/b" below it at another depth.                        *)
(***************************************************************************)
EXTENDS InMemory

CONSTANT v1

ADir == <<97, Sep>>
AB   == <<97, 98>>
AAB  == <<97, Sep, 97, Sep, 98>>

MCUris == {ADir, AB, AAB}
MCValues == {v1}

=============================================================================
