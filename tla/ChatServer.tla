------------------------------ MODULE ChatServer ------------------------------
(***************************************************************************)
(* The server built from src/src/main.c: one process that accepts at most  *)
(* one connection per turn of its loop, selects over every accepted        *)
(* connection, and serves one packet of each readable one.                 *)
(*                                                                         *)
(* A handler updates the list and leaves its reply in "outbox"; the reply  *)
(* is sent by SendResponse before anything else is served.  The relay loop *)
(* of SEND leaves one entry per listening node.                            *)
(***************************************************************************)
EXTENDS Wire, ClientList

VARIABLES
    client,       \* the registrations
    client_temp,  \* accepted descriptors, newest first
    channelId,    \* number given to the last created channel
    backlog,      \* the listen queue
    pc,           \* where the process is, or how it ended
    todo,         \* reported by the last select(), not yet visited
    outbox        \* sends the current handler still has to perform

serverVars == <<client, client_temp, channelId, pc, todo, outbox>>

Locations == {"loop", "select", "segv", "sigpipe", "exit"}
Up == pc \in {"loop", "select"}

Outgoing == [to : Fds, reply : Replies]

ServerTypeOK ==
    /\ client \in Seq(Nodes)
    /\ client_temp \in Seq(Fds)
    /\ channelId \in Chans
    /\ backlog \in Seq(Fds)
    /\ pc \in Locations
    /\ todo \in Seq(Fds)
    /\ outbox \in Seq(Outgoing)

ServerInit ==
    /\ client = <<>>
    /\ client_temp = <<>>
    /\ channelId = 0
    /\ backlog = <<>>
    /\ pc = "loop"
    /\ todo = <<>>
    /\ outbox = <<>>

\* The top of the loop: everything the last select() reported is served.
AtTop == pc = "loop" /\ todo = <<>> /\ outbox = <<>>

-------------------------------------------------------------------------------
(* Connections *)

\* External: connect() completes in the listen queue.  The kernel hands out
\* the lowest free descriptor and the server never closes one, so clients
\* are numbered in the order in which they connect.
Connect(fd) ==
    /\ Up
    /\ peer[fd] = "none"
    /\ \A g \in Fds : g < fd => peer[g] # "none"
    /\ peer' = [peer EXCEPT ![fd] = "waiting"]
    /\ backlog' = Append(backlog, fd)
    /\ UNCHANGED <<serverVars, toServer, toClient, lossy>>

\* Wrong: a connection is accepted only when no client has anything to say.
AcceptWhenQuiet ==
    /\ AtTop
    /\ pc' = "select"
    /\ LET quiet == \A i \in DOMAIN client_temp : ~ Readable(client_temp[i])
       IN  \/ /\ backlog = <<>> \/ ~ quiet
              /\ UNCHANGED <<client_temp, backlog, peer>>
           \/ /\ backlog # <<>> /\ quiet
              /\ client_temp' = <<Head(backlog)>> \o client_temp
              /\ backlog' = Tail(backlog)
              /\ peer' = [peer EXCEPT ![Head(backlog)] = "open"]
    /\ UNCHANGED <<client, channelId, todo, outbox, toServer, toClient, lossy>>

\* First select(), with a zero timeout, and accept() of one connection.
AcceptConnection ==
    /\ AtTop
    /\ pc' = "select"
    /\ \/ /\ backlog = <<>>
          /\ UNCHANGED <<client_temp, backlog, peer>>
       \/ /\ backlog # <<>>
          /\ client_temp' = <<Head(backlog)>> \o client_temp
          /\ backlog' = Tail(backlog)
          /\ peer' = [peer EXCEPT ![Head(backlog)] = "open"]
    /\ UNCHANGED <<client, channelId, todo, outbox, toServer, toClient, lossy>>

\* accept() fails: the process exits.
AcceptFails ==
    /\ AtTop
    /\ backlog # <<>>
    /\ pc' = "exit"
    /\ UNCHANGED <<client, client_temp, channelId, backlog, todo, outbox, wireVars>>

\* Wrong: FD_ISSET is not consulted, or only the newest connection is watched.
SelectAll ==
    /\ pc = "select" /\ pc' = "loop"
    /\ todo' = client_temp
    /\ UNCHANGED <<client, client_temp, channelId, backlog, outbox, wireVars>>
SelectNewest ==
    /\ pc = "select" /\ pc' = "loop"
    /\ todo' = IF client_temp # <<>> /\ Readable(client_temp[1])
                 THEN <<client_temp[1]>> ELSE <<>>
    /\ UNCHANGED <<client, client_temp, channelId, backlog, outbox, wireVars>>

\* Second select(): the readable connections, in the order the loop over
\* client_temp will visit them.  What arrives later waits for the next turn.
Select ==
    /\ pc = "select"
    /\ pc' = "loop"
    /\ todo' = Keep(client_temp, {fd \in Fds : Readable(fd)})
    /\ UNCHANGED <<client, client_temp, channelId, backlog, outbox, wireVars>>

-------------------------------------------------------------------------------
(* One visit of the loop over client_temp: read, decode, dispatch *)

\* Wrong: the loop does not move on to the next connection.
VisitForever(fd) ==
    /\ pc = "loop" /\ outbox = <<>>
    /\ todo # <<>> /\ fd = Head(todo)
    /\ UNCHANGED <<client_temp, backlog, todo>>

\* The visit of a connection that the last select() reported.
Visit(fd) ==
    /\ pc = "loop" /\ outbox = <<>>
    /\ todo # <<>> /\ fd = Head(todo)
    /\ todo' = Tail(todo)
    /\ UNCHANGED <<client_temp, backlog>>

\* A visit that reads a packet with the given command.
Serve(fd, cmd) ==
    /\ Visit(fd)
    /\ toServer[fd] # <<>>
    /\ Head(toServer[fd]).cmd = cmd
    /\ ServerRead(fd)

\* The packet a visit decodes.
Packet(fd) == Head(toServer[fd])

Answer(fd, reply) == outbox' = <<[to |-> fd, reply |-> reply]>> /\ UNCHANGED pc

\* read() returns 0 or -1: the connection stays in client_temp, and so do
\* the registrations of the client behind it.
VisitNothing(fd) ==
    /\ Visit(fd)
    /\ toServer[fd] = <<>>
    /\ UNCHANGED <<client, channelId, pc, outbox, wireVars>>

\* Wrong: relays over the connections instead of the registrations.
ServeSendToAll(fd) ==
    /\ Serve(fd, SEND)
    /\ LET to == Keep(client_temp, Fds \ {fd})
       IN  outbox' = [i \in DOMAIN to |->
                        [to |-> to[i],
                         reply |-> [code |-> SEND, chan |-> Packet(fd).chan, from |-> fd]]]
    /\ UNCHANGED <<client, channelId, pc>>

\* Relays to every other node of the packet's channel, whoever sent it.
ServeSend(fd) ==
    /\ Serve(fd, SEND)
    /\ LET chan == Packet(fd).chan
           to   == Listeners(client, chan, fd)
       IN  outbox' = [i \in DOMAIN to |->
                        [to |-> to[i].fd,
                         reply |-> [code |-> SEND, chan |-> chan, from |-> fd]]]
    /\ UNCHANGED <<client, channelId, pc>>

ServeLogout(fd) ==
    /\ Serve(fd, LOGOUT)
    /\ client' = DeleteClient(client, -1, fd)
    /\ Answer(fd, Reply(LOGOUT))
    /\ UNCHANGED channelId

ServeGetUsers(fd) ==
    /\ Serve(fd, GET_USERS)
    /\ Answer(fd, [code |-> GET_USERS, users |-> UsersOf(client, Packet(fd).chan)])
    /\ UNCHANGED <<client, channelId>>

\* The caller evaluates client->name before the handler looks at the list.
NullHead ==
    /\ client = <<>>
    /\ pc' = "segv"
    /\ UNCHANGED <<client, outbox>>

\* Wrong: the counter is wider than a channel_id.
ServeCreateWide(fd) ==
    /\ Serve(fd, CREATE_CHANNEL)
    /\ channelId' = channelId + 1
    /\ LoggedIn(client, fd)
    /\ client' = CreateNodes(client, channelId', fd, Packet(fd).list)
    /\ Answer(fd, Reply(CREATE_CHANNEL))

\* The counter moves even when the request is refused.
ServeCreate(fd) ==
    /\ Serve(fd, CREATE_CHANNEL)
    /\ channelId' = ToChan(channelId + 1)
    /\ \/ NullHead
       \/ /\ client # <<>> /\ ~ LoggedIn(client, fd)
          /\ Answer(fd, Reply(FAILED))
          /\ UNCHANGED client
       \/ /\ LoggedIn(client, fd)
          /\ client' = CreateNodes(client, channelId', fd, Packet(fd).list)
          /\ Answer(fd, Reply(CREATE_CHANNEL))

\* The new node gets the name found in the head node.
ServeJoin(fd) ==
    /\ Serve(fd, JOIN_CHANNEL)
    /\ LET chan == Packet(fd).chan
       IN  \/ NullHead
           \/ /\ client # <<>>
              /\ ~ LoggedIn(client, fd) \/ Member(client, fd, chan)
              /\ Answer(fd, Reply(FAILED))
              /\ UNCHANGED client
           \/ /\ LoggedIn(client, fd) /\ ~ Member(client, fd, chan)
              /\ client' = Push(client, chan, fd, client[1].name)
              /\ Answer(fd, Reply(JOIN_CHANNEL))
    /\ UNCHANGED channelId

ServeLeave(fd) ==
    /\ Serve(fd, LEAVE_CHANNEL)
    /\ client' = IF Member(client, fd, Packet(fd).chan)
                   THEN DeleteClient(client, Packet(fd).chan, fd)
                   ELSE client
    /\ Answer(fd, Reply(LEAVE_CHANNEL))
    /\ UNCHANGED channelId

\* Wrong: a new registration is not confirmed.
ServeLoginSilently(fd) ==
    /\ Serve(fd, LOGIN)
    /\ client' = IF LoggedIn(client, fd) THEN client ELSE Push(client, 0, fd, fd)
    /\ UNCHANGED <<channelId, pc, outbox>>

\* A client with any registration is refused; another is put in channel 0.
ServeLogin(fd) ==
    /\ Serve(fd, LOGIN)
    /\ \/ /\ LoggedIn(client, fd)
          /\ Answer(fd, Reply(FAILED))
          /\ UNCHANGED client
       \/ /\ ~ LoggedIn(client, fd)
          /\ client' = Push(client, 0, fd, fd)
          /\ Answer(fd, Reply(LOGIN))
    /\ UNCHANGED channelId

\* cpt_send_response(): the next send of the current handler.
SendResponse ==
    /\ Up /\ outbox # <<>>
    /\ \/ /\ ServerSend(Head(outbox).to, Head(outbox).reply)
          /\ outbox' = Tail(outbox)
          /\ UNCHANGED pc
       \/ /\ peer[Head(outbox).to] = "dead"
          /\ pc' = "sigpipe"
          /\ UNCHANGED <<outbox, wireVars>>
    /\ UNCHANGED <<client, client_temp, channelId, backlog, todo>>

ServerStep ==
    \/ AcceptConnection \/ Select \/ SendResponse
    \/ \E fd \in Fds :
          \/ VisitNothing(fd) \/ ServeSend(fd) \/ ServeLogout(fd)
          \/ ServeGetUsers(fd) \/ ServeCreate(fd) \/ ServeJoin(fd)
          \/ ServeLeave(fd) \/ ServeLogin(fd)
===============================================================================
