----------------------------- MODULE MCPipeline -----------------------------
(***************************************************************************)
(* Pipeline with a pinned zip of two snapshots, a next one that only gains *)
(* another, and one put behind the pinned URL.                             *)
(***************************************************************************)
EXTENDS Pipeline

Entry(base) == [parts |-> <<base>>, area |-> FALSE, roots |-> <<"Device">>]

MCZips == {"pin", "next", "changed"}
MCEntries == [pin     |-> <<Entry("LAPS"), Entry("Reboot")>>,
              next    |-> <<Entry("LAPS"), Entry("Reboot"), Entry("VPN")>>,
              changed |-> <<Entry("LAPS")>>]
MCUploads == {<<"pinned", "pin">>, <<"pinned", "changed">>, <<"newer", "next">>}

Contents == UNION {{F!Snapshot(z, r) : r \in F!Roots(z)} : z \in Zips}

\* A CSP of its own for every snapshot, with nothing but a service and methods.
MCDescribed ==
  [c \in Contents |->
     LET base == Entries[c.zip][c.root[1]].parts[1]
     IN  [words |-> <<[word |-> base]>>, user |-> FALSE, policy |-> FALSE, csp |-> base,
          uris |-> FALSE, enums |-> FALSE, methods |-> TRUE, body |-> IF c.zip = "changed" THEN 2 ELSE 1]]

=============================================================================
