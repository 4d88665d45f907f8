------------------------------- MODULE OldServer -------------------------------
(***************************************************************************)
(* The server built from src/src/server.c, the version before main.c.  It  *)
(* keeps no list of connections: what the second select() watches is the   *)
(* listening socket and max_fd, and the handlers take client_fd, the last  *)
(* descriptor accept() returned, for the client that sent the packet.  The *)
(* reply goes to temp, the descriptor the packet was read from.            *)
(*                                                                         *)
(* A flag of the listening socket is left out: read() of it fails and the  *)
(* zeroed buffer is dispatched as command 0, which nothing handles.        *)
(***************************************************************************)
EXTENDS Wire, ClientList

VARIABLES
    client,       \* the registrations
    client_fd,    \* last accepted descriptor; not used before there is one
    max_fd,       \* highest descriptor seen
    fd_read_set,  \* before the second select() what was added at the accept,
                  \* after it the flags not yet visited
    channelId,    \* number given to the last created channel
    backlog,      \* the listen queue
    pc,           \* where the process is, or how it ended
    outbox        \* sends the current handler still has to perform

serverVars == <<client, client_fd, max_fd, fd_read_set, channelId, pc, outbox>>

server_fd == 3
ASSUME OldFdsAssumption == \A fd \in Fds : fd > server_fd

Up == pc \in {"loop", "select"}

Outgoing == [to : Fds, reply : Replies]

ServerTypeOK ==
    /\ client \in Seq(Nodes)
    /\ client_fd \in Fds \cup {server_fd}
    /\ max_fd \in Fds \cup {server_fd}
    /\ fd_read_set \in SUBSET Fds
    /\ channelId \in Chans
    /\ backlog \in Seq(Fds)
    /\ pc \in {"loop", "select", "segv", "sigpipe", "exit"}
    /\ outbox \in Seq(Outgoing)

ServerInit ==
    /\ client = <<>>
    /\ client_fd = server_fd
    /\ max_fd = server_fd
    /\ fd_read_set = {}
    /\ channelId = 0
    /\ backlog = <<>>
    /\ pc = "loop"
    /\ outbox = <<>>

\* The top of the loop: everything the last select() reported is served.
AtTop == pc = "loop" /\ fd_read_set = {} /\ outbox = <<>>

-------------------------------------------------------------------------------
(* Connections *)

\* External, as for the later server: no descriptor is ever closed.
Connect(fd) ==
    /\ Up
    /\ peer[fd] = "none"
    /\ \A g \in Fds : g < fd => peer[g] # "none"
    /\ peer' = [peer EXCEPT ![fd] = "waiting"]
    /\ backlog' = Append(backlog, fd)
    /\ UNCHANGED <<serverVars, toServer, toClient, lossy>>

\* Wrong: the accepted connection is watched in this turn only.
AcceptWithoutMax ==
    /\ AtTop
    /\ pc' = "select"
    /\ \/ /\ backlog = <<>>
          /\ UNCHANGED <<client_fd, fd_read_set, backlog, peer>>
       \/ /\ backlog # <<>>
          /\ client_fd' = Head(backlog)
          /\ fd_read_set' = {client_fd'}
          /\ backlog' = Tail(backlog)
          /\ peer' = [peer EXCEPT ![client_fd'] = "open"]
    /\ UNCHANGED <<client, max_fd, channelId, outbox, toServer, toClient, lossy>>

\* First select(), with a zero timeout, and accept() of one connection.
AcceptConnection ==
    /\ AtTop
    /\ pc' = "select"
    /\ \/ /\ backlog = <<>>
          /\ UNCHANGED <<client_fd, max_fd, fd_read_set, backlog, peer>>
       \/ /\ backlog # <<>>
          /\ client_fd' = Head(backlog)
          /\ max_fd' = IF client_fd' > max_fd THEN client_fd' ELSE max_fd
          /\ fd_read_set' = {client_fd'}
          /\ backlog' = Tail(backlog)
          /\ peer' = [peer EXCEPT ![client_fd'] = "open"]
    /\ UNCHANGED <<client, channelId, outbox, toServer, toClient, lossy>>

\* accept() fails: the process exits.
AcceptFails ==
    /\ AtTop
    /\ backlog # <<>>
    /\ pc' = "exit"
    /\ UNCHANGED <<client, client_fd, max_fd, fd_read_set, channelId, backlog,
                   outbox, wireVars>>

\* Wrong: every connection is watched, while the handlers go on using client_fd.
SelectAll ==
    /\ pc = "select" /\ pc' = "loop"
    /\ fd_read_set' = {fd \in Fds : peer[fd] \notin {"none", "waiting"} /\ Readable(fd)}
    /\ UNCHANGED <<client, client_fd, max_fd, channelId, backlog, outbox, wireVars>>

\* Second select(): max_fd joins the set, the set is reduced to what can be read.
Select ==
    /\ pc = "select" /\ pc' = "loop"
    /\ fd_read_set' = {fd \in Fds \cap (fd_read_set \cup {max_fd}) : Readable(fd)}
    /\ UNCHANGED <<client, client_fd, max_fd, channelId, backlog, outbox, wireVars>>

-------------------------------------------------------------------------------
(* One turn of the loop over temp: read, decode, dispatch *)

\* temp counts up from 0: the lowest flag is visited next.
Visit(temp) ==
    /\ pc = "loop" /\ outbox = <<>>
    /\ temp \in fd_read_set
    /\ \A g \in fd_read_set : temp <= g
    /\ fd_read_set' = fd_read_set \ {temp}
    /\ UNCHANGED <<client_fd, max_fd, backlog>>

Serve(temp, cmd) ==
    /\ Visit(temp)
    /\ toServer[temp] # <<>>
    /\ Head(toServer[temp]).cmd = cmd
    /\ ServerRead(temp)

Packet(temp) == Head(toServer[temp])

Answer(temp, reply) == outbox' = <<[to |-> temp, reply |-> reply]>> /\ UNCHANGED pc

\* read() returns 0 or -1.
VisitNothing(temp) ==
    /\ Visit(temp)
    /\ toServer[temp] = <<>>
    /\ UNCHANGED <<client, channelId, pc, outbox, wireVars>>

\* Relays to every node of the packet's channel that is not temp's.
ServeSend(temp) ==
    /\ Serve(temp, SEND)
    /\ LET chan == Packet(temp).chan
           to   == Listeners(client, chan, temp)
       IN  outbox' = [i \in DOMAIN to |->
                        [to |-> to[i].fd,
                         reply |-> [code |-> SEND, chan |-> chan, from |-> temp]]]
    /\ UNCHANGED <<client, channelId, pc>>

\* Wrong: a logout ends the membership of the main channel only.
LogoutOfMain(temp) ==
    /\ Serve(temp, LOGOUT)
    /\ client' = DeleteClient(client, 0, client_fd)
    /\ Answer(temp, Reply(LOGOUT))
    /\ UNCHANGED channelId

ServeLogout(temp) ==
    /\ Serve(temp, LOGOUT)
    /\ client' = DeleteClient(client, -1, client_fd)
    /\ Answer(temp, Reply(LOGOUT))
    /\ UNCHANGED channelId

ServeGetUsers(temp) ==
    /\ Serve(temp, GET_USERS)
    /\ Answer(temp, [code |-> GET_USERS, users |-> UsersOf(client, Packet(temp).chan)])
    /\ UNCHANGED <<client, channelId>>

\* client->name is evaluated before the handler looks at the list.
NullHead ==
    /\ client = <<>>
    /\ pc' = "segv"
    /\ UNCHANGED <<client, outbox>>

\* The handler is given the packet's msg_len, which the client leaves 0: it
\* adds the creator alone, whatever the text lists.
ServeCreate(temp) ==
    /\ Serve(temp, CREATE_CHANNEL)
    /\ channelId' = ToChan(channelId + 1)
    /\ \/ NullHead
       \/ /\ client # <<>> /\ ~ LoggedIn(client, client_fd)
          /\ Answer(temp, Reply(FAILED))
          /\ UNCHANGED client
       \/ /\ LoggedIn(client, client_fd)
          /\ client' = Push(client, channelId', client_fd, client[1].name)
          /\ Answer(temp, Reply(CREATE_CHANNEL))

ServeJoin(temp) ==
    /\ Serve(temp, JOIN_CHANNEL)
    /\ LET chan == Packet(temp).chan
       IN  \/ NullHead
           \/ /\ client # <<>>
              /\ ~ LoggedIn(client, client_fd) \/ Member(client, client_fd, chan)
              /\ Answer(temp, Reply(FAILED))
              /\ UNCHANGED client
           \/ /\ LoggedIn(client, client_fd) /\ ~ Member(client, client_fd, chan)
              /\ client' = Push(client, chan, client_fd, client[1].name)
              /\ Answer(temp, Reply(JOIN_CHANNEL))
    /\ UNCHANGED channelId

\* Wrong: every node of the channel is unlinked, whoever it belongs to.
LeaveForAll(temp) ==
    /\ Serve(temp, LEAVE_CHANNEL)
    /\ client' = Keep(client, {n \in Nodes : n.chan # Packet(temp).chan})
    /\ Answer(temp, Reply(LEAVE_CHANNEL))
    /\ UNCHANGED channelId

ServeLeave(temp) ==
    /\ Serve(temp, LEAVE_CHANNEL)
    /\ client' = IF Member(client, client_fd, Packet(temp).chan)
                   THEN DeleteClient(client, Packet(temp).chan, client_fd)
                   ELSE client
    /\ Answer(temp, Reply(LEAVE_CHANNEL))
    /\ UNCHANGED channelId

\* The node's name points at a block of msg_len, that is 0, bytes, and not at
\* what was typed: here it stays identified with the client that logged in.
ServeLogin(temp) ==
    /\ Serve(temp, LOGIN)
    /\ \/ /\ LoggedIn(client, client_fd)
          /\ Answer(temp, Reply(FAILED))
          /\ UNCHANGED client
       \/ /\ ~ LoggedIn(client, client_fd)
          /\ client' = Push(client, 0, client_fd, client_fd)
          /\ Answer(temp, Reply(LOGIN))
    /\ UNCHANGED channelId

\* cpt_send_response(): the next send of the current handler.
SendResponse ==
    /\ Up /\ outbox # <<>>
    /\ \/ /\ ServerSend(Head(outbox).to, Head(outbox).reply)
          /\ outbox' = Tail(outbox)
          /\ UNCHANGED pc
       \/ /\ peer[Head(outbox).to] = "dead"
          /\ pc' = "sigpipe"
          /\ UNCHANGED <<outbox, wireVars>>
    /\ UNCHANGED <<client, client_fd, max_fd, fd_read_set, channelId, backlog>>

ServerStep ==
    \/ AcceptConnection \/ Select \/ SendResponse
    \/ \E temp \in Fds :
          \/ VisitNothing(temp) \/ ServeSend(temp) \/ ServeLogout(temp)
          \/ ServeGetUsers(temp) \/ ServeCreate(temp) \/ ServeJoin(temp)
          \/ ServeLeave(temp) \/ ServeLogin(temp)
===============================================================================
