------------------------------ MODULE ChatSystem ------------------------------
(***************************************************************************)
(* The server of src/src/main.c and the clients of src/src/client.c that   *)
(* connect to it.  The clients' keyboards are followed until the server    *)
(* process ends; what was already sent to a client can be read after that. *)
(***************************************************************************)
EXTENDS ChatServer, ChatClient, RoomView

vars == <<wireVars, serverVars, backlog, clientVars>>

Init == WireInit /\ ServerInit /\ ClientInit

Next ==
    \/ \E fd \in Fds : Connect(fd) /\ UNCHANGED clientVars
    \/ ServerStep /\ UNCHANGED clientVars
    \/ AcceptFails /\ UNCHANGED clientVars
    \/ \E fd \in Fds :
          /\ Up /\ (Keyboard(fd) \/ Exit(fd))
          /\ UNCHANGED <<serverVars, backlog>>
    \/ \E fd \in Fds : Receive(fd) /\ UNCHANGED <<serverVars, backlog>>

Spec == Init /\ [][Next]_vars

\* Both programs loop for ever around select(): the server keeps taking
\* steps, and a client reads what has arrived.  Nobody has to type, connect
\* or exit, and accept() does not have to fail.
Fairness ==
    /\ WF_vars(ServerStep /\ UNCHANGED clientVars)
    /\ \A fd \in Fds : WF_vars(Receive(fd) /\ UNCHANGED <<serverVars, backlog>>)

FairSpec == Spec /\ Fairness

-------------------------------------------------------------------------------
(* Safety *)

\* Every variable holds a value of its type; an entry of the listen queue, of
\* client_temp and of todo is a descriptor.
TypeOK == WireTypeOK /\ ServerTypeOK /\ ClientTypeOK

\* Whether a client is logged in once it has processed the first n replies of
\* queue, if it is when now is TRUE before that: the last LOGIN or LOGOUT
\* among them decides.
LoggedInAfter(queue, now, n) ==
    \/ \E i \in 1 .. n : /\ queue[i].code = LOGIN
                         /\ \A j \in i + 1 .. n : queue[j].code # LOGOUT
    \/ now /\ \A j \in 1 .. n : queue[j].code # LOGOUT

\* A LOGIN reply for fd that the server has not sent yet.
LoginOwed(fd) ==
    \E i \in DOMAIN outbox : outbox[i].to = fd /\ outbox[i].reply.code = LOGIN

\* What a reply still to be sent says of its receiver stays true until it is
\* sent: a relayed message is for a registered client, a logout is confirmed
\* to one that is not, and a relay is not mixed with anything else.
OutboxMatchesList ==
    /\ \A i \in DOMAIN outbox :
          /\ outbox[i].reply.code = SEND => LoggedIn(client, outbox[i].to)
          /\ outbox[i].reply.code = LOGOUT => ~ LoggedIn(client, outbox[i].to)
    /\ \A i, j \in DOMAIN outbox :
          outbox[i].reply.code = SEND => outbox[j].reply.code = SEND

\* Both sides agree on who is in the chat: a client the server has
\* registrations for is logged in at its own end, or will be when it has read
\* what is on its way, unless a reply to it was discarded.
LoginAgreement ==
    \A fd \in Fds \ lossy :
        LoggedIn(client, fd) =>
            \/ LoggedInAfter(toClient[fd], is_logged_in[fd], Len(toClient[fd]))
            \/ LoginOwed(fd)

\* A relayed message never reaches a client that is, at the moment it reads
\* it, not logged in: not before its login is confirmed, and not after its
\* logout is, whoever sent the message and however many are in flight.
ChatOnlyWhileLoggedIn ==
    \A fd \in Fds \ lossy : \A i \in DOMAIN toClient[fd] :
        toClient[fd][i].code = SEND =>
            LoggedInAfter(toClient[fd], is_logged_in[fd], i - 1)

\* A connection reported by select() is still readable when the loop reaches
\* it: it has a packet to decode or its other end is gone.
FlaggedStillReadable == \A i \in DOMAIN todo : Readable(todo[i])

-------------------------------------------------------------------------------
(* The abstract specification *)

Rooms == INSTANCE ChatRooms WITH
    Lists      <- UserLists \cup {<<>>},
    HeedsLists <- TRUE,
    asked      <- toServer,
    members    <- Memberships(client),
    owed       <- Owed(outbox),
    lastChan   <- channelId,
    status     <- IF Up THEN "up" ELSE pc

\* The server keeps the promises of ChatRooms: however its list, its loop and
\* its sockets evolve, membership, answers and relays change as they say.
KeepsRooms == Rooms!Spec

-------------------------------------------------------------------------------
(* Liveness, under FairSpec *)

\* Nobody is starved: a connection with a packet to read is reported by a
\* later select(), however busy the others are.
EveryPacketReported ==
    \A fd \in Fds :
        toServer[fd] # <<>>
            ~> (\E i \in DOMAIN todo : todo[i] = fd) \/ ~ Up

\* The loop gets through what it was told is readable.
EveryVisitHappens ==
    \A fd \in Fds : (\E i \in DOMAIN todo : todo[i] = fd)
                      ~> (~ \E i \in DOMAIN todo : todo[i] = fd) \/ ~ Up

\* A connection in the listen queue is accepted.
EveryConnectionAccepted ==
    \A fd \in Fds : peer[fd] = "waiting" ~> peer[fd] # "waiting" \/ ~ Up

\* A client the server registered learns it, unless its reply is discarded
\* or the server ends first.
LoginIsLearned ==
    \A fd \in Fds :
        LoggedIn(client, fd) ~> is_logged_in[fd] \/ fd \in lossy \/ ~ Up
===============================================================================
