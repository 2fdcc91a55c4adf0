----------------------------- MODULE MCSessions -----------------------------
(***************************************************************************)
(* An instance of Sessions for TLC: two clients that contend for a device  *)
(* that comes and goes under its identifier.                               *)
(***************************************************************************)
EXTENDS Sessions, TLC

CONSTANTS c1, c2, d1, i1

MCClient == {c1, c2}
MCDev == {d1}
MCId == {i1}
MCIdOf == [d \in MCDev |-> i1]
MCWants == [c \in MCClient |-> i1]

\* Sound where all clients dial alike and no property names one of them.
MCSymmetry == Permutations(Client)
=============================================================================
