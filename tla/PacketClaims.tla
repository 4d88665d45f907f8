------------------------------ MODULE PacketClaims ------------------------------
(***************************************************************************)
(* What the comments of the code say of lists, and the code does not do.   *)
(***************************************************************************)
EXTENDS Packets

\* The server finds all the descriptors in the message of a create, whatever
\* their size: "Find all fd's in the message and add them to the new channel",
\* of a list that is "Whitespace separated user IDs as a string".
ListsUnderstood ==
    \A list \in Lists :
        decoded.of = "request" /\ decoded.want.command = CREATE_CHANNEL
          /\ decoded.want.text = ListText(list) =>
            Listed(decoded.got.text) = list
===============================================================================
