------------------------------ MODULE MCGenCSP ------------------------------
(***************************************************************************)
(* GenCSP with trees that grow and shrink, two whose packages share a      *)
(* directory or a service name, and one without methods.                   *)
(***************************************************************************)
EXTENDS GenCSP

W(word, spelled) == [word |-> word, spelled |-> spelled]

Snap(words, user, policy, csp, uris, enums, methods) ==
  [words |-> words, user |-> user, policy |-> policy, csp |-> csp,
   uris |-> uris, enums |-> enums, methods |-> methods]

Camera == Snap(<<W("camera", "Camera")>>, FALSE, TRUE, "Camera", FALSE, TRUE, TRUE)
LAPS   == Snap(<<W("laps", "LAPS")>>, FALSE, FALSE, "LAPS", TRUE, FALSE, TRUE)
Laps2  == Snap(<<W("laps", "Laps")>>, FALSE, FALSE, "LAPS2", FALSE, FALSE, TRUE)
Other  == Snap(<<W("lapsv2", "LAPSv2")>>, FALSE, FALSE, "LAPS", FALSE, FALSE, TRUE)
User   == Snap(<<W("laps", "LAPS"), W("user", "User")>>, TRUE, FALSE, "LAPS", FALSE, FALSE, TRUE)
Silent == Snap(<<W("mute", "Mute")>>, FALSE, FALSE, "Mute", FALSE, FALSE, FALSE)

MCTrees == {{Camera}, {LAPS, User}, {LAPS, Laps2}, {LAPS, Other}, {Silent}}

=============================================================================
