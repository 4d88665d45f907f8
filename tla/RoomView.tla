-------------------------------- MODULE RoomView --------------------------------
(* The state of a server as ChatRooms sees it. *)
EXTENDS ClientList

\* Who is in which channel: the list without order, repetitions and names.
Memberships(list) == {<<list[i].fd, list[i].chan>> : i \in DOMAIN list}

\* A reply, without the list of users.
Content(reply) ==
    IF reply.code = SEND THEN <<SEND, reply.chan, reply.from>> ELSE <<reply.code>>

\* The sends a handler still has to perform.
Owed(out) == {<<out[i].to, Content(out[i].reply)>> : i \in DOMAIN out}
===============================================================================
