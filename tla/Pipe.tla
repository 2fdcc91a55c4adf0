-------------------------------- MODULE Pipe --------------------------------
(***************************************************************************)
(* What a byte stream promises, whatever carries it: the receiver gets     *)
(* what the sender has sent, in that order and each byte at most once.     *)
(* Bytes may be left out, and the receiver may get other things between    *)
(* them.  There are many streams, and a step may concern several of them.  *)
(***************************************************************************)
EXTENDS Naturals, Sequences

CONSTANT Stream

VARIABLES
    sent,  \* how many bytes each sender has sent
    got    \* what each receiver has got: positions of the sender's bytes, 0 for anything else

vars == <<sent, got>>

Init ==
    /\ sent \in [Stream -> Nat]
    /\ got = [s \in Stream |-> <<>>]

\* Nothing arrives, or nothing of the sender.
Others(s) ==
    /\ sent'[s] >= sent[s]
    /\ \E n \in 0 .. Len(got'[s]) : got'[s] = got[s] \o [i \in 1 .. n |-> 0]

\* A run of n bytes arrives, perhaps after a hole.
Delivers(s) ==
    /\ sent'[s] = sent[s]
    /\ \E first \in 1 .. sent[s] :
          /\ \A i \in 1 .. Len(got[s]) : got[s][i] < first
          /\ \E n \in 1 .. sent[s] - first + 1 :
                got'[s] = got[s] \o [i \in 1 .. n |-> first + i - 1]

Next ==
    /\ sent' \in [Stream -> Nat] /\ got' \in [Stream -> Seq(Nat)]
    /\ \A s \in Stream : Others(s) \/ Delivers(s)

Spec == Init /\ [][Next]_vars
=============================================================================
