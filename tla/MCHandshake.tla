---------------------------- MODULE MCHandshake ----------------------------
(***************************************************************************)
(* An instance of Handshake for TLC.  The packet of the setting 7O1 has a  *)
(* LF in it, that of the rate 16724 an 'A' and a 'T'; the RFC 2217 packet  *)
(* asks for no parity.                                                     *)
(***************************************************************************)
EXTENDS Handshake

MCAsks ==
    [vcom   |-> [baud |-> 9600, size |-> 8, parity |-> "N", stop |-> 1],
     vcomLf |-> [baud |-> 9600, size |-> 7, parity |-> "O", stop |-> 1],
     vcomAt |-> [baud |-> 16724, size |-> 8, parity |-> "N", stop |-> 1]]

Packet(kind, cut) ==
    LET bytes == VcomPacket(MCAsks[kind])
    IN  <<SubSeq(bytes, 1, cut), SubSeq(bytes, cut + 1, Len(bytes))>>

\* The commands are cut in various places: before the LF, behind AT, behind the A.
\* Of their bytes nothing else matters.
Parts ==
    [vcom    |-> Packet("vcom", 4),
     vcomLf  |-> Packet("vcomLf", 7),
     vcomAt  |-> Packet("vcomAt", 4),
     rfc     |-> << <<IAC, SB, ComPortOption, SetParity>>, <<1, IAC, SE>> >>,
     atz     |-> << AT \o <<90, CR, LF>> >>,
     atv0    |-> << AT \o <<86, 48, CR>>, <<LF>> >>,
     tone    |-> << AT \o <<68, 84, CR, LF>> >>,
     dial    |-> << AT, <<68, 84, 49, CR>>, <<LF>> >>,
     connect |-> << <<AT[1]>>, <<84, 43, 67, CR, LF>> >>,
     reg     |-> << AT \o <<43, 82, CR, LF>> >>]

MCKind == DOMAIN Parts
MCText == [kind \in MCKind |-> Parts[kind]]
=============================================================================
