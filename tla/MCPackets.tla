------------------------------- MODULE MCPackets -------------------------------
(* Values for the constants of Packets that a .cfg cannot express. *)
EXTENDS PacketClaims

Text(n) == [i \in 1 .. n |-> 97 + (i % 5)]

\* Relayed, with the digits of the channel and a zero: 19, 256 and 255 bytes.
ShortAndLong ==
    {[chan |-> 7, text |-> Text(2)], [chan |-> 7, text |-> Text(239)],
     [chan |-> 65535, text |-> Text(234)]}

BeyondShort == {258, 65541}

\* Six single digits fill the client's copy of the line; seven would overrun it.
OneOrTwoDigits ==
    {<<4>>, <<5, 4, 5>>, <<4, 5, 6, 7, 8, 9>>, <<4, 5, 6, 7, 8, 9, 4>>, <<4, 12>>, <<12>>}

CleanOrNot == {<<>>, <<200, 9>>}
===============================================================================
