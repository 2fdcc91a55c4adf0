------------------------------ MODULE MCBridge ------------------------------
(***************************************************************************)
(* An instance of Bridge for TLC: one session of one client and one        *)
(* device.                                                                 *)
(***************************************************************************)
EXTENDS Bridge

CONSTANTS c1, d1, i1

MCClient == {c1}
MCDev == {d1}
MCId == {i1}
MCIdOf == [d \in MCDev |-> i1]
MCMaxSent == [p \in MCClient \cup MCDev |-> IF p = c1 THEN 3 ELSE 2]
MCWants == [c \in MCClient |-> i1]
=============================================================================
