------------------------------- MODULE OldSystem -------------------------------
(***************************************************************************)
(* The server of src/src/server.c with the clients of src/src/client.c:    *)
(* the same client program, the same packets, another loop.                *)
(***************************************************************************)
EXTENDS OldServer, ChatClient, RoomView

vars == <<wireVars, serverVars, backlog, clientVars>>

Init == WireInit /\ ServerInit /\ ClientInit

Next ==
    \/ \E fd \in Fds : Connect(fd) /\ UNCHANGED clientVars
    \/ ServerStep /\ UNCHANGED clientVars
    \/ AcceptFails /\ UNCHANGED clientVars
    \/ \E fd \in Fds :
          /\ Up /\ (Keyboard(fd) \/ Exit(fd))
          /\ UNCHANGED <<serverVars, backlog>>
    \/ \E fd \in Fds : Receive(fd) /\ UNCHANGED <<serverVars, backlog>>

Spec == Init /\ [][Next]_vars

\* The server's loop goes on as long as the process lives.
FairSpec == Spec /\ WF_vars(ServerStep /\ UNCHANGED clientVars)

-------------------------------------------------------------------------------
(* Safety *)

\* A connection that was accepted before another one.
Superseded(fd) == \E g \in Fds : g > fd /\ peer[g] \notin {"none", "waiting"}

\* The client whose packet is being served is the one the handlers act on:
\* temp and client_fd, two names for it, never differ.
CallerIsNewest == \A temp \in fd_read_set : temp = client_fd

\* What an older client has said stays unread, and nothing a newer one asks for
\* ends a membership of it.  It can gain one by being listed for a new channel,
\* and in no other way: it is in the chat and is not heard.
OnlyNewestHeard ==
    [][\A fd \in Fds : Superseded(fd) =>
          /\ Len(toServer'[fd]) >= Len(toServer[fd])
          /\ \A chan \in Chans :
                /\ Member(client, fd, chan) => Member(client', fd, chan)
                /\ Member(client', fd, chan) =>
                      \/ Member(client, fd, chan)
                      \/ \E temp \in Fds : Serve(temp, CREATE_CHANNEL)
                                           /\ fd \in ListedBy(Packet(temp))]_vars

Rooms == INSTANCE ChatRooms WITH
    Lists      <- UserLists \cup {<<>>},
    HeedsLists <- FALSE,
    asked      <- toServer,
    members    <- Memberships(client),
    owed       <- Owed(outbox),
    lastChan   <- channelId,
    status     <- IF Up THEN "up" ELSE pc

\* Among those it hears, the older server does what the later one does, the
\* lists of a create excepted: the answer goes to the client whose membership
\* it tells of, and a request changes that client's membership only.
KeepsRooms == Rooms!Spec

-------------------------------------------------------------------------------
(* Liveness, under FairSpec *)

\* The newest connection is heard: what it says is reported by a later
\* select(), unless a newer one is accepted or the process ends before.
NewestIsHeard ==
    \A fd \in Fds :
        toServer[fd] # <<>> ~> fd \in fd_read_set \/ Superseded(fd) \/ ~ Up
===============================================================================
