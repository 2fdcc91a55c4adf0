------------------------------ MODULE MCProxy ------------------------------
(***************************************************************************)
(* An instance of Proxy for TLC: one client and one device connection that *)
(* claims the identifier the client asks for.                              *)
(***************************************************************************)
EXTENDS Proxy

CONSTANTS c1, d1, i1

MCClient == {c1}
MCDev == {d1}
MCId == {i1}
MCIdOf == [d \in MCDev |-> i1]
MCWants == [c \in MCClient |-> i1]

=============================================================================
