----------------------------- MODULE MCDevices -----------------------------
(***************************************************************************)
(* Instances of Devices for TLC.  All connections claim the same           *)
(* identifier: handlers of different identifiers share nothing, so one     *)
(* identifier with every handler contending for it is the hard case.       *)
(***************************************************************************)
EXTENDS Devices, TLC

CONSTANTS d1, d2, d3, i1

MCDev2 == {d1, d2}
MCDev3 == {d1, d2, d3}
MCId == {i1}
MCIdOf2 == [d \in MCDev2 |-> i1]
MCIdOf3 == [d \in MCDev3 |-> i1]

\* Sound: all connections are alike, and no property names one of them.
MCSymmetry == Permutations(MCDev3)
=============================================================================
