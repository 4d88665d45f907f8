---------------------------- MODULE OldSystemProofs ----------------------------
(***************************************************************************)
(* Theorems about the older server.  Its handlers take client_fd, the last *)
(* descriptor accept() returned, for the client whose packet they serve.   *)
(* That is right only because nothing but the newest connection is ever    *)
(* reported, which follows from the order in which descriptors are given   *)
(* out and connections leave the listen queue: OldInv says so.             *)
(***************************************************************************)
EXTENDS OldSystem, ChatClientProofs

TypesOK == WireTypeOK /\ ServerTypeOK /\ ClientTypeOK

Accepted(fd) == peer[fd] \notin {"none", "waiting"}

OldInv ==
    /\ TypesOK
    /\ max_fd = client_fd
    /\ fd_read_set \subseteq {client_fd}
    /\ client_fd \in Fds => peer[client_fd] # "none"
    /\ \A fd \in Fds : Accepted(fd) => fd <= client_fd
    /\ \A fd, g \in Fds : g < fd /\ peer[fd] # "none" => peer[g] # "none"
    /\ \A i \in DOMAIN backlog : backlog[i] > client_fd /\ peer[backlog[i]] # "none"
    /\ \A i, j \in DOMAIN backlog : i < j => backlog[i] < backlog[j]

\* Descriptors are numbers.
LEMMA Numbers == Fds \subseteq Nat /\ server_fd \in Nat /\ \A fd \in Fds : server_fd < fd
BY FdsAssumption, OldFdsAssumption DEF server_fd

-------------------------------------------------------------------------------
(* Types of what the server's steps write *)

LEMMA OldServeType ==
    ASSUME WireTypeOK, ServerTypeOK, NEW temp \in Fds, NEW cmd, Serve(temp, cmd)
    PROVE  /\ WireTypeOK' /\ Packet(temp) \in Requests
           /\ client_fd' \in Fds \cup {server_fd} /\ max_fd' \in Fds \cup {server_fd}
           /\ fd_read_set' \in SUBSET Fds /\ backlog' \in Seq(Fds)
<1>1. WireTypeOK'
  BY ServerReadType DEF Serve
<1>2. Packet(temp) \in Requests
  BY DEF Serve, Packet, WireTypeOK
<1>. QED
  BY <1>1, <1>2 DEF Serve, Visit, ServerTypeOK

LEMMA OldAnswerType ==
    ASSUME ServerTypeOK, NEW temp \in Fds, NEW reply \in Replies, Answer(temp, reply)
    PROVE  /\ outbox' \in Seq(Outgoing)
           /\ pc' \in {"loop", "select", "segv", "sigpipe", "exit"}
<1>1. [to |-> temp, reply |-> reply] \in Outgoing
  BY DEF Outgoing
<1>. QED
  BY <1>1 DEF Answer, ServerTypeOK

\* What a handler makes of the list and of the outbox is well-typed.
LEMMA OldHandlerType ==
    ASSUME OldInv, NEW temp \in Fds, temp = client_fd,
           \/ ServeSend(temp) \/ ServeLogout(temp) \/ ServeGetUsers(temp)
           \/ ServeCreate(temp) \/ ServeJoin(temp) \/ ServeLeave(temp) \/ ServeLogin(temp)
    PROVE  /\ client' \in Seq(Nodes) /\ channelId' \in Chans
           /\ outbox' \in Seq(Outgoing)
           /\ pc' \in {"loop", "select", "segv", "sigpipe", "exit"}
<1>. DEFINE Pcs == {"loop", "select", "segv", "sigpipe", "exit"}
<1>1. /\ WireTypeOK /\ ServerTypeOK
      /\ client \in Seq(Nodes) /\ channelId \in Chans /\ pc \in Pcs
      /\ outbox \in Seq(Outgoing)
  BY DEF OldInv, TypesOK, ServerTypeOK
<1>2. 0 \in Chans /\ ToChan(channelId + 1) \in Chans
  <2>1. channelId + 1 \in Int
    BY <1>1 DEF Chans
  <2>. QED
    BY <2>1, ToChanType, ChanModAssumption DEF Chans
<1>3. client # <<>> => client[1].name \in Fds
  <2>1. client # <<>> => client[1] \in Nodes
    BY <1>1
  <2>. QED
    BY <2>1 DEF Nodes
<1>4. LoggedIn(client, client_fd) => client # <<>>
  BY DEF LoggedIn
<1>5. CASE ServeSend(temp)
  <2>. DEFINE chan == Packet(temp).chan
              to   == Listeners(client, chan, temp)
  <2>1. Serve(temp, SEND) /\ UNCHANGED <<client, channelId, pc>>
        /\ outbox' = [i \in DOMAIN to |->
                        [to    |-> to[i].fd,
                         reply |-> [code |-> SEND, chan |-> chan, from |-> temp]]]
    BY <1>5 DEF ServeSend
  <2>2. chan \in Chans
    BY <1>1, <2>1, OldServeType DEF Requests
  <2>3. to \in Seq(Nodes)
    BY <1>1, ListenersLemma
  <2>. HIDE DEF chan, to
  <2>4. Len(to) \in Nat /\ DOMAIN to = 1 .. Len(to)
    BY <2>3
  <2>5. [code |-> SEND, chan |-> chan, from |-> temp] \in Replies
    BY <2>2 DEF Replies
  <2>6. ASSUME NEW i \in DOMAIN to PROVE to[i].fd \in Fds
    <3>1. to[i] \in Nodes
      BY <2>3
    <3>. QED
      BY <3>1 DEF Nodes
  <2>7. outbox' \in [1 .. Len(to) -> Outgoing]
    BY <2>1, <2>4, <2>5, <2>6 DEF Outgoing
  <2>8. outbox' \in Seq(Outgoing)
    <3>. DEFINE out == outbox'
    <3>1. out \in [1 .. Len(to) -> Outgoing]
      BY <2>7
    <3>. HIDE DEF out
    <3>2. out \in Seq(Outgoing)
      BY <2>4, <3>1
    <3>. QED
      BY <3>2 DEF out
  <2>. QED
    BY <1>1, <2>1, <2>8
<1>6. CASE ServeGetUsers(temp)
  <2>. DEFINE users == UsersOf(client, Packet(temp).chan)
  <2>1. users \in Seq(Users)
    BY <1>1, UsersLemma
  <2>2. Answer(temp, [code |-> GET_USERS, users |-> users]) /\ UNCHANGED <<client, channelId>>
    BY <1>6 DEF ServeGetUsers
  <2>. HIDE DEF users
  <2>3. [code |-> GET_USERS, users |-> users] \in Replies
    BY <2>1 DEF Replies
  <2>. QED
    BY <1>1, <2>2, <2>3, OldAnswerType
<1>7. ASSUME NEW code \in {LOGOUT, CREATE_CHANNEL, JOIN_CHANNEL, LEAVE_CHANNEL, LOGIN, FAILED},
             Answer(temp, Reply(code))
      PROVE  outbox' \in Seq(Outgoing) /\ pc' \in Pcs
  BY <1>1, <1>7, ReplyType, OldAnswerType
<1>8. CASE ServeLogout(temp)
  BY <1>1, <1>7, <1>8, DeleteLemma DEF ServeLogout
<1>9. CASE ServeLeave(temp)
  BY <1>1, <1>7, <1>9, DeleteLemma DEF ServeLeave
<1>10. CASE ServeLogin(temp)
  <2>1. Push(client, 0, client_fd, client_fd) \in Seq(Nodes)
    BY <1>1, <1>2, PushLemma
  <2>. QED
    BY <1>1, <1>7, <1>10, <2>1 DEF ServeLogin
<1>11. ASSUME NullHead PROVE /\ client' \in Seq(Nodes) /\ pc' \in Pcs
                             /\ outbox' \in Seq(Outgoing)
  BY <1>1, <1>11 DEF NullHead
<1>12. CASE ServeCreate(temp)
  <2>1. channelId' = ToChan(channelId + 1)
    BY <1>12 DEF ServeCreate
  <2>2. client # <<>> => Push(client, channelId', client_fd, client[1].name) \in Seq(Nodes)
    BY <1>1, <1>2, <1>3, <2>1, PushLemma
  <2>. QED
    BY <1>1, <1>2, <1>4, <1>7, <1>11, <1>12, <2>1, <2>2 DEF ServeCreate
<1>13. CASE ServeJoin(temp)
  <2>1. Packet(temp).chan \in Chans
    BY <1>1, <1>13, OldServeType DEF ServeJoin, Requests
  <2>2. client # <<>> => Push(client, Packet(temp).chan, client_fd, client[1].name) \in Seq(Nodes)
    BY <1>1, <1>3, <2>1, PushLemma
  <2>. QED
    BY <1>1, <1>4, <1>7, <1>11, <1>13, <2>2 DEF ServeJoin
<1>. QED
  BY <1>5, <1>6, <1>8, <1>9, <1>10, <1>12, <1>13

-------------------------------------------------------------------------------
(* The invariant *)

LEMMA OldInit == Init => OldInv
<1>. SUFFICES ASSUME Init PROVE OldInv
  OBVIOUS
<1>1. /\ \A fd \in Fds : peer[fd] = "none"
      /\ backlog = <<>> /\ fd_read_set = {} /\ max_fd = server_fd /\ client_fd = server_fd
  BY DEF Init, WireInit, ServerInit
<1>2. TypesOK
  BY ChanModAssumption
     DEF Init, TypesOK, WireInit, ServerInit, ClientInit, WireTypeOK, ServerTypeOK,
         ClientTypeOK, PeerStates, Chans
<1>. QED
  BY <1>1, <1>2, Numbers DEF OldInv, Accepted

\* A step that accepts nobody and connects nobody.
LEMMA OldStays ==
    ASSUME OldInv, TypesOK', UNCHANGED <<client_fd, max_fd, backlog>>,
           fd_read_set' \subseteq {client_fd},
           \A fd \in Fds : /\ peer'[fd] = "none" <=> peer[fd] = "none"
                           /\ Accepted(fd)' => Accepted(fd)
    PROVE  OldInv'
<1>1. \A i \in DOMAIN backlog : backlog[i] \in Fds
  BY DEF OldInv, TypesOK, ServerTypeOK
<1>. QED
  BY <1>1 DEF OldInv

LEMMA OldConnect ==
    ASSUME OldInv, NEW fd \in Fds, Connect(fd), UNCHANGED clientVars
    PROVE  OldInv'
<1>. USE DEF OldInv
<1>1. /\ peer[fd] = "none" /\ \A g \in Fds : g < fd => peer[g] # "none"
      /\ peer' = [peer EXCEPT ![fd] = "waiting"] /\ backlog' = Append(backlog, fd)
      /\ UNCHANGED <<serverVars, toServer, toClient, lossy>>
      /\ peer \in [Fds -> PeerStates] /\ backlog \in Seq(Fds)
      /\ client_fd \in Fds \cup {server_fd}
  BY DEF Connect, TypesOK, WireTypeOK, ServerTypeOK
<1>2. /\ Len(backlog) \in Nat /\ DOMAIN backlog = 1 .. Len(backlog)
      /\ backlog' \in Seq(Fds)
      /\ DOMAIN backlog' = 1 .. Len(backlog) + 1 /\ backlog'[Len(backlog) + 1] = fd
      /\ \A i \in 1 .. Len(backlog) : backlog'[i] = backlog[i] /\ backlog[i] \in Fds
  BY <1>1
<1>3. TypesOK'
  BY <1>1, <1>2 DEF TypesOK, WireTypeOK, ServerTypeOK, ClientTypeOK, PeerStates,
                    serverVars, clientVars, stateVars
<1>4. UNCHANGED <<client_fd, max_fd, fd_read_set>>
  BY <1>1 DEF serverVars
<1>5. \A g \in Fds : peer'[g] = IF g = fd THEN "waiting" ELSE peer[g]
  BY <1>1
<1>6. ASSUME NEW g \in Fds, peer[g] # "none" PROVE g < fd
  <2>1. ~ (fd < g)
    BY <1>1, <1>6
  <2>2. g # fd
    BY <1>1, <1>6
  <2>. QED
    BY <2>1, <2>2, Numbers
<1>7. client_fd < fd
  BY <1>1, <1>6, Numbers
<1>8. \A i \in DOMAIN backlog' : backlog'[i] > client_fd' /\ peer'[backlog'[i]] # "none"
  <2>. SUFFICES ASSUME NEW i \in DOMAIN backlog'
                PROVE  backlog'[i] > client_fd /\ peer'[backlog'[i]] # "none"
    BY <1>4
  <2>1. CASE i \in 1 .. Len(backlog)
    BY <1>2, <1>5, <2>1
  <2>2. CASE i = Len(backlog) + 1
    BY <1>2, <1>5, <1>7, <2>2
  <2>. QED
    BY <1>2, <2>1, <2>2
<1>9. \A i, j \in DOMAIN backlog' : i < j => backlog'[i] < backlog'[j]
  <2>. SUFFICES ASSUME NEW i \in DOMAIN backlog', NEW j \in DOMAIN backlog', i < j
                PROVE  backlog'[i] < backlog'[j]
    OBVIOUS
  <2>1. i \in 1 .. Len(backlog) /\ (j \in 1 .. Len(backlog) \/ j = Len(backlog) + 1)
    BY <1>2
  <2>2. CASE j \in 1 .. Len(backlog)
    BY <1>2, <2>1, <2>2
  <2>3. CASE j = Len(backlog) + 1
    BY <1>2, <1>6, <2>1, <2>3
  <2>. QED
    BY <2>1, <2>2, <2>3
<1>10. \A g, h \in Fds : h < g /\ peer'[g] # "none" => peer'[h] # "none"
  BY <1>1, <1>5
<1>11. \A g \in Fds : Accepted(g)' => g <= client_fd
  BY <1>5 DEF Accepted
<1>. QED
  BY <1>3, <1>4, <1>5, <1>8, <1>9, <1>10, <1>11

LEMMA OldAccept ==
    ASSUME OldInv, AcceptConnection, UNCHANGED clientVars
    PROVE  OldInv'
<1>. USE DEF OldInv
<1>1. /\ fd_read_set = {} /\ pc' = "select"
      /\ UNCHANGED <<client, channelId, outbox, toServer, toClient, lossy>>
      /\ peer \in [Fds -> PeerStates] /\ backlog \in Seq(Fds)
      /\ client_fd \in Fds \cup {server_fd}
  BY DEF AcceptConnection, AtTop, TypesOK, WireTypeOK, ServerTypeOK
<1>2. CASE backlog = <<>> /\ UNCHANGED <<client_fd, max_fd, fd_read_set, backlog, peer>>
  <2>1. TypesOK'
    BY <1>1, <1>2 DEF TypesOK, WireTypeOK, ServerTypeOK, ClientTypeOK, clientVars, stateVars
  <2>. QED
    BY <1>2, <2>1, OldStays DEF Accepted
<1>3. CASE /\ backlog # <<>>
           /\ client_fd' = Head(backlog)
           /\ max_fd' = IF client_fd' > max_fd THEN client_fd' ELSE max_fd
           /\ fd_read_set' = {client_fd'}
           /\ backlog' = Tail(backlog)
           /\ peer' = [peer EXCEPT ![client_fd'] = "open"]
  <2>. DEFINE fd == Head(backlog)
  <2>1. 1 \in DOMAIN backlog /\ fd = backlog[1] /\ fd \in Fds /\ Len(backlog) \in Nat
    BY <1>1, <1>3
  <2>2. fd > client_fd /\ peer[fd] # "none"
    BY <2>1
  <2>3. /\ backlog' \in Seq(Fds) /\ DOMAIN backlog = 1 .. Len(backlog)
        /\ DOMAIN backlog' = 1 .. Len(backlog) - 1
        /\ \A i \in 1 .. Len(backlog) - 1 : backlog'[i] = backlog[i + 1]
    BY <1>1, <1>3
  <2>4. client_fd' = fd /\ max_fd' = fd /\ fd_read_set' = {fd}
    BY <1>1, <1>3, <2>2, Numbers
  <2>5. \A g \in Fds : peer'[g] = IF g = fd THEN "open" ELSE peer[g]
    BY <1>1, <1>3
  <2>6. TypesOK'
    <3>1. peer' \in [Fds -> PeerStates]
      BY <1>1, <1>3 DEF PeerStates
    <3>. QED
      BY <1>1, <2>1, <2>3, <2>4, <3>1 DEF TypesOK, WireTypeOK, ServerTypeOK, ClientTypeOK,
                                          clientVars, stateVars
  <2>. HIDE DEF fd
  <2>7. \A i \in DOMAIN backlog' : backlog'[i] > fd /\ peer'[backlog'[i]] # "none"
    <3>. SUFFICES ASSUME NEW i \in DOMAIN backlog' PROVE backlog'[i] > fd /\ peer'[backlog'[i]] # "none"
      OBVIOUS
    <3>1. /\ i + 1 \in DOMAIN backlog /\ 1 < i + 1 /\ backlog'[i] = backlog[i + 1]
          /\ backlog[i + 1] \in Fds
      BY <1>1, <2>1, <2>3
    <3>2. backlog[1] < backlog[i + 1] /\ peer[backlog[i + 1]] # "none"
      BY <2>1, <3>1
    <3>. QED
      BY <2>1, <2>5, <3>1, <3>2, Numbers
  <2>8. \A i, j \in DOMAIN backlog' : i < j => backlog'[i] < backlog'[j]
    <3>. SUFFICES ASSUME NEW i \in DOMAIN backlog', NEW j \in DOMAIN backlog', i < j
                  PROVE  backlog'[i] < backlog'[j]
      OBVIOUS
    <3>1. /\ i + 1 \in DOMAIN backlog /\ j + 1 \in DOMAIN backlog /\ i + 1 < j + 1
          /\ backlog'[i] = backlog[i + 1] /\ backlog'[j] = backlog[j + 1]
      BY <2>1, <2>3
    <3>. QED
      BY <3>1
  <2>9. \A g \in Fds : Accepted(g)' => g <= fd
    <3>1. \A g \in Fds : Accepted(g)' => g = fd \/ Accepted(g)
      BY <2>5 DEF Accepted
    <3>. QED
      BY <1>1, <2>1, <2>2, <3>1, Numbers
  <2>10. \A g, h \in Fds : h < g /\ peer'[g] # "none" => peer'[h] # "none"
    BY <2>2, <2>5
  <2>. QED
    BY <2>4, <2>5, <2>6, <2>7, <2>8, <2>9, <2>10
<1>. QED
  BY <1>2, <1>3 DEF AcceptConnection

\* The steps of a handler and of a visit that reads nothing.
LEMMA OldVisit ==
    ASSUME OldInv, NEW temp \in Fds, UNCHANGED clientVars,
           \/ VisitNothing(temp)
           \/ ServeSend(temp) \/ ServeLogout(temp) \/ ServeGetUsers(temp)
           \/ ServeCreate(temp) \/ ServeJoin(temp) \/ ServeLeave(temp) \/ ServeLogin(temp)
    PROVE  OldInv'
<1>1. WireTypeOK /\ ServerTypeOK /\ ClientTypeOK'
  BY DEF OldInv, TypesOK, ClientTypeOK, clientVars, stateVars
<1>2. /\ temp = client_fd /\ fd_read_set' \subseteq {client_fd}
      /\ UNCHANGED <<client_fd, max_fd, backlog>>
  BY DEF OldInv, VisitNothing, ServeSend, ServeLogout, ServeGetUsers, ServeCreate, ServeJoin,
         ServeLeave, ServeLogin, Serve, Visit
<1>3. CASE VisitNothing(temp)
  <2>1. TypesOK' /\ UNCHANGED peer
    BY <1>1, <1>2, <1>3 DEF TypesOK, VisitNothing, Visit, WireTypeOK, ServerTypeOK, wireVars
  <2>. QED
    BY <1>2, <2>1, OldStays DEF Accepted
<1>4. ASSUME NEW cmd, Serve(temp, cmd),
             \/ ServeSend(temp) \/ ServeLogout(temp) \/ ServeGetUsers(temp)
             \/ ServeCreate(temp) \/ ServeJoin(temp) \/ ServeLeave(temp) \/ ServeLogin(temp)
      PROVE  OldInv'
  <2>1. TypesOK'
    BY <1>1, <1>2, <1>4, OldServeType, OldHandlerType DEF TypesOK, ServerTypeOK
  <2>2. UNCHANGED peer
    BY <1>4 DEF Serve, ServerRead
  <2>. QED
    BY <1>2, <2>1, <2>2, OldStays DEF Accepted
<1>. QED
  BY <1>3, <1>4 DEF ServeSend, ServeLogout, ServeGetUsers, ServeCreate, ServeJoin,
                    ServeLeave, ServeLogin

LEMMA OldSendResponse ==
    ASSUME OldInv, SendResponse, UNCHANGED clientVars
    PROVE  OldInv'
<1>1. /\ WireTypeOK /\ ServerTypeOK /\ ClientTypeOK' /\ fd_read_set \subseteq {client_fd}
      /\ outbox \in Seq(Outgoing) /\ outbox # <<>>
      /\ UNCHANGED <<client, client_fd, max_fd, fd_read_set, channelId, backlog>>
  BY DEF OldInv, TypesOK, ServerTypeOK, ClientTypeOK, clientVars, stateVars, SendResponse
<1>2. /\ Head(outbox) \in Outgoing
      /\ Tail(outbox) \in Seq(Outgoing)
  BY <1>1
<1>3. Head(outbox).to \in Fds /\ Head(outbox).reply \in Replies
  BY <1>2 DEF Outgoing
<1>4. CASE ServerSend(Head(outbox).to, Head(outbox).reply) /\ outbox' = Tail(outbox) /\ UNCHANGED pc
  <2>1. TypesOK'
    BY <1>1, <1>2, <1>3, <1>4, ServerSendType DEF TypesOK, ServerTypeOK
  <2>2. \A fd \in Fds : /\ peer'[fd] = "none" <=> peer[fd] = "none"
                        /\ Accepted(fd)' => Accepted(fd)
    BY <1>1, <1>3, <1>4 DEF ServerSend, Accepted, WireTypeOK
  <2>. QED
    BY <1>1, <2>1, <2>2, OldStays
<1>5. CASE pc' = "sigpipe" /\ UNCHANGED <<outbox, wireVars>>
  <2>1. TypesOK'
    BY <1>1, <1>5 DEF TypesOK, WireTypeOK, ServerTypeOK, wireVars
  <2>. QED
    BY <1>1, <1>5, <2>1, OldStays DEF Accepted, wireVars
<1>. QED
  BY <1>4, <1>5 DEF SendResponse

LEMMA OldNext == OldInv /\ [Next]_vars => OldInv'
<1>. SUFFICES ASSUME OldInv, [Next]_vars PROVE OldInv'
  OBVIOUS
<1>1. /\ WireTypeOK /\ ServerTypeOK /\ ClientTypeOK
      /\ fd_read_set \subseteq {client_fd} /\ max_fd = client_fd
  BY DEF OldInv, TypesOK
<1>2. ASSUME UNCHANGED clientVars PROVE ClientTypeOK'
  BY <1>1, <1>2 DEF ClientTypeOK, clientVars, stateVars
<1>3. ASSUME UNCHANGED <<serverVars, backlog>>
      PROVE  ServerTypeOK' /\ UNCHANGED <<client_fd, max_fd, fd_read_set, backlog>>
  BY <1>1, <1>3 DEF ServerTypeOK, serverVars
<1>4. CASE Select /\ UNCHANGED clientVars
  <2>1. fd_read_set' \subseteq Fds /\ fd_read_set' \subseteq {client_fd}
    BY <1>1, <1>4 DEF Select
  <2>2. TypesOK' /\ UNCHANGED <<client_fd, max_fd, backlog, peer>>
    BY <1>1, <1>2, <1>4, <2>1 DEF Select, TypesOK, WireTypeOK, ServerTypeOK, wireVars
  <2>. QED
    BY <2>1, <2>2, OldStays DEF Accepted
<1>5. CASE ServerStep /\ UNCHANGED clientVars
  BY <1>4, <1>5, OldAccept, OldSendResponse, OldVisit DEF ServerStep
<1>6. CASE AcceptFails /\ UNCHANGED clientVars
  <2>1. TypesOK' /\ UNCHANGED <<client_fd, max_fd, fd_read_set, backlog, peer>>
    BY <1>1, <1>2, <1>6 DEF AcceptFails, TypesOK, WireTypeOK, ServerTypeOK, wireVars
  <2>. QED
    BY <1>1, <2>1, OldStays DEF Accepted
<1>7. ASSUME NEW fd \in Fds, Keyboard(fd), UNCHANGED <<serverVars, backlog>> PROVE OldInv'
  <2>1. PICK cmd, chan, list : Type(fd, cmd, chan, list)
    BY <1>7 DEF Keyboard, TypeLogin, TypeMessage, TypeLogout, TypeUsers, TypeCreate,
                TypeJoin, TypeLeave
  <2>2. UNCHANGED peer
    BY <2>1 DEF Type, ClientSend
  <2>3. TypesOK'
    BY <1>1, <1>3, <1>7, KeyboardType DEF TypesOK
  <2>. QED
    BY <1>1, <1>3, <1>7, <2>2, <2>3, OldStays DEF Accepted
<1>8. ASSUME NEW fd \in Fds, Exit(fd), UNCHANGED <<serverVars, backlog>> PROVE OldInv'
  <2>1. TypesOK'
    BY <1>1, <1>3, <1>8, ExitType DEF TypesOK
  <2>2. \A g \in Fds : /\ peer'[g] = "none" <=> peer[g] = "none"
                       /\ Accepted(g)' => Accepted(g)
    BY <1>1, <1>8 DEF Exit, ClientClose, Accepted, WireTypeOK
  <2>. QED
    BY <1>1, <1>3, <1>8, <2>1, <2>2, OldStays
<1>9. ASSUME NEW fd \in Fds, Receive(fd), UNCHANGED <<serverVars, backlog>> PROVE OldInv'
  <2>1. TypesOK'
    BY <1>1, <1>3, <1>9, ReceiveType DEF TypesOK
  <2>2. UNCHANGED peer
    BY <1>9 DEF Receive, ClientRead
  <2>. QED
    BY <1>1, <1>3, <1>9, <2>1, <2>2, OldStays DEF Accepted
<1>10. CASE UNCHANGED vars
  <2>1. TypesOK' /\ UNCHANGED <<client_fd, max_fd, fd_read_set, backlog, peer>>
    BY <1>1, <1>2, <1>3, <1>10 DEF vars, TypesOK, WireTypeOK, wireVars
  <2>. QED
    BY <1>1, <2>1, OldStays DEF Accepted
<1>. QED
  BY <1>5, <1>6, <1>7, <1>8, <1>9, <1>10, OldConnect DEF Next

\* The older server acts on the client it reads from: the descriptor its
\* handlers take for the caller is the one the packet came from.
THEOREM OldCallerCorrect == Spec => []CallerIsNewest
<1>1. OldInv => CallerIsNewest
  BY DEF OldInv, CallerIsNewest
<1>. QED
  BY <1>1, OldInit, OldNext, PTL DEF Spec

-------------------------------------------------------------------------------
(* Only the newest connection is heard *)

\* What the steps of the server do to the list: nothing, or something to
\* client_fd's registrations.
LEMMA OldListChange ==
    ASSUME OldInv, NEW temp \in Fds, temp = client_fd,
           \/ ServeSend(temp) \/ ServeLogout(temp) \/ ServeGetUsers(temp)
           \/ ServeCreate(temp) \/ ServeJoin(temp) \/ ServeLeave(temp) \/ ServeLogin(temp)
    PROVE  \A fd, chan : fd # client_fd
              => (Member(client', fd, chan) <=> Member(client, fd, chan))
<1>. DEFINE Same(list) == \A fd, chan : fd # client_fd
                             => (Member(list, fd, chan) <=> Member(client, fd, chan))
<1>1. /\ WireTypeOK /\ ServerTypeOK
      /\ client \in Seq(Nodes) /\ channelId \in Chans
  BY DEF OldInv, TypesOK, ServerTypeOK
<1>2. 0 \in Chans /\ ToChan(channelId + 1) \in Chans
  <2>1. channelId + 1 \in Int
    BY <1>1 DEF Chans
  <2>. QED
    BY <2>1, ToChanType, ChanModAssumption DEF Chans
<1>3. client # <<>> => client[1].name \in Fds
  <2>1. client # <<>> => client[1] \in Nodes
    BY <1>1
  <2>. QED
    BY <2>1 DEF Nodes
<1>4. LoggedIn(client, client_fd) => client # <<>>
  BY DEF LoggedIn
<1>5. \A chan \in Chans, name \in Fds : Same(Push(client, chan, client_fd, name))
  BY <1>1, PushMember
<1>6. \A chan : Same(DeleteClient(client, chan, client_fd))
  BY <1>1, DeleteMember
<1>7. Same(client)
  OBVIOUS
<1>. HIDE DEF Same
<1>8. CASE ServeSend(temp) \/ ServeGetUsers(temp)
  BY <1>7, <1>8 DEF ServeSend, ServeGetUsers, Same
<1>9. CASE ServeLogout(temp)
  BY <1>6, <1>9 DEF ServeLogout, Same
<1>10. CASE ServeLeave(temp)
  BY <1>6, <1>7, <1>10 DEF ServeLeave, Same
<1>11. CASE ServeLogin(temp)
  BY <1>2, <1>5, <1>7, <1>11 DEF ServeLogin, Same
<1>12. CASE ServeCreate(temp)
  <2>1. channelId' = ToChan(channelId + 1)
    BY <1>12 DEF ServeCreate
  <2>2. client # <<>> => Same(Push(client, channelId', client_fd, client[1].name))
    BY <1>2, <1>3, <1>5, <2>1
  <2>. QED
    BY <1>4, <1>7, <1>12, <2>2 DEF ServeCreate, NullHead, Same
<1>13. CASE ServeJoin(temp)
  <2>1. Packet(temp).chan \in Chans
    BY <1>1, <1>13, OldServeType DEF ServeJoin, Requests
  <2>2. client # <<>> => Same(Push(client, Packet(temp).chan, client_fd, client[1].name))
    BY <1>3, <1>5, <2>1
  <2>. QED
    BY <1>4, <1>7, <1>13, <2>2 DEF ServeJoin, NullHead, Same
<1>. QED
  BY <1>8, <1>9, <1>10, <1>11, <1>12, <1>13 DEF Same

LEMMA OldHeard ==
    ASSUME OldInv, [Next]_vars, NEW fd \in Fds, Superseded(fd)
    PROVE  /\ Len(toServer'[fd]) >= Len(toServer[fd])
           /\ \A chan \in Chans : Member(client', fd, chan) <=> Member(client, fd, chan)
<1>1. /\ toServer \in [Fds -> Seq(Requests)] /\ fd_read_set \subseteq {client_fd}
      /\ client_fd \in Fds \cup {server_fd} /\ Len(toServer[fd]) \in Nat
  BY DEF OldInv, TypesOK, WireTypeOK, ServerTypeOK
<1>2. fd # client_fd
  <2>1. PICK g \in Fds : g > fd /\ Accepted(g)
    BY DEF Superseded, Accepted
  <2>2. g <= client_fd
    BY <2>1 DEF OldInv
  <2>. QED
    BY <1>1, <2>1, <2>2, Numbers
<1>3. ASSUME UNCHANGED <<client, toServer>>
      PROVE  /\ Len(toServer'[fd]) >= Len(toServer[fd])
             /\ \A chan \in Chans : Member(client', fd, chan) <=> Member(client, fd, chan)
  BY <1>1, <1>3
<1>4. ASSUME NEW temp \in Fds, NEW cmd, Serve(temp, cmd)
      PROVE  temp = client_fd /\ toServer'[fd] = toServer[fd]
  BY <1>1, <1>2, <1>4 DEF Serve, Visit, ServerRead
<1>5. ASSUME NEW temp \in Fds,
             \/ ServeSend(temp) \/ ServeLogout(temp) \/ ServeGetUsers(temp)
             \/ ServeCreate(temp) \/ ServeJoin(temp) \/ ServeLeave(temp) \/ ServeLogin(temp)
      PROVE  /\ Len(toServer'[fd]) >= Len(toServer[fd])
             /\ \A chan \in Chans : Member(client', fd, chan) <=> Member(client, fd, chan)
  <2>1. PICK cmd : Serve(temp, cmd)
    BY <1>5 DEF ServeSend, ServeLogout, ServeGetUsers, ServeCreate, ServeJoin, ServeLeave,
                ServeLogin
  <2>2. temp = client_fd /\ toServer'[fd] = toServer[fd]
    BY <1>4, <2>1
  <2>. QED
    BY <1>1, <1>2, <1>5, <2>2, OldListChange
<1>6. CASE ServerStep
  <2>1. ASSUME AcceptConnection \/ Select \/ \E temp \in Fds : VisitNothing(temp)
        PROVE  UNCHANGED <<client, toServer>>
    BY <2>1 DEF AcceptConnection, Select, VisitNothing, wireVars
  <2>2. ASSUME SendResponse PROVE UNCHANGED <<client, toServer>>
    BY <2>2 DEF SendResponse, ServerSend, wireVars
  <2>. QED
    BY <1>3, <1>5, <1>6, <2>1, <2>2 DEF ServerStep
<1>7. CASE AcceptFails
  BY <1>3, <1>7 DEF AcceptFails, wireVars
<1>8. ASSUME NEW g \in Fds, Connect(g)
      PROVE  UNCHANGED <<client, toServer>>
  BY <1>8 DEF Connect, serverVars
<1>9. ASSUME NEW g \in Fds, Keyboard(g), UNCHANGED <<serverVars, backlog>>
      PROVE  /\ Len(toServer'[fd]) >= Len(toServer[fd])
             /\ \A chan \in Chans : Member(client', fd, chan) <=> Member(client, fd, chan)
  <2>1. PICK cmd \in Commands, chan \in Chans, list \in Seq(Int) : Type(g, cmd, chan, list)
    <3>1. 0 \in Chans /\ <<>> \in Seq(Int) /\ current_channel[g] \in Int
      BY ChanModAssumption DEF Chans, OldInv, TypesOK, ClientTypeOK
    <3>2. \A arg \in ChanArgs : ToChan(arg) \in Chans
      BY ArgsAssumption, ToChanType
    <3>3. ToChan(current_channel[g]) \in Chans
      BY <3>1, ToChanType
    <3>. QED
      BY <1>9, <3>1, <3>2, <3>3, ArgsAssumption
         DEF Keyboard, TypeLogin, TypeMessage, TypeLogout, TypeUsers, TypeCreate,
             TypeJoin, TypeLeave, Type
  <2>2. Request(cmd, chan, list) \in Requests
    BY <2>1, CommandsAssumption DEF Request, Requests
  <2>3. Len(Append(toServer[g], Request(cmd, chan, list))) = Len(toServer[g]) + 1
    BY <1>1, <2>2
  <2>4. Len(toServer'[fd]) >= Len(toServer[fd])
    BY <1>1, <2>1, <2>3 DEF Type, ClientSend
  <2>5. UNCHANGED client
    BY <1>9 DEF serverVars
  <2>. QED
    BY <2>4, <2>5
<1>10. ASSUME NEW g \in Fds, Exit(g) \/ Receive(g), UNCHANGED <<serverVars, backlog>>
       PROVE  UNCHANGED <<client, toServer>>
  BY <1>10 DEF Exit, ClientClose, Receive, ClientRead, serverVars
<1>11. CASE UNCHANGED vars
  BY <1>3, <1>11 DEF vars, serverVars, wireVars
<1>. QED
  BY <1>3, <1>6, <1>7, <1>8, <1>9, <1>10, <1>11 DEF Next

\* A client goes on hearing its channels but is heard by nobody once a newer
\* one is accepted: no step of the older server reads what it sent or ends a
\* membership of it, and none gives it one unless a newer client lists it.
THEOREM OldHeardCorrect == Spec => OnlyNewestHeard
<1>. DEFINE A == \A fd \in Fds : Superseded(fd) =>
                    /\ Len(toServer'[fd]) >= Len(toServer[fd])
                    /\ \A chan \in Chans :
                          /\ Member(client, fd, chan) => Member(client', fd, chan)
                          /\ Member(client', fd, chan) =>
                                \/ Member(client, fd, chan)
                                \/ \E temp \in Fds : Serve(temp, CREATE_CHANNEL)
                                                     /\ fd \in ListedBy(Packet(temp))
<1>1. OldInv /\ [Next]_vars => [A]_vars
  BY OldHeard
<1>. HIDE DEF A
<1>2. Spec => [][A]_vars
  BY <1>1, OldInit, OldNext, PTL DEF Spec
<1>. QED
  BY <1>2 DEF A, OnlyNewestHeard

-------------------------------------------------------------------------------
(* The older server implements ChatRooms *)

\* ChatRooms uses the same codes and channels.
LEMMA Vocabulary ==
    /\ Rooms!LOGIN = LOGIN /\ Rooms!LOGOUT = LOGOUT /\ Rooms!SEND = SEND
    /\ Rooms!GET_USERS = GET_USERS /\ Rooms!FAILED = FAILED
    /\ Rooms!CREATE_CHANNEL = CREATE_CHANNEL
    /\ Rooms!JOIN_CHANNEL = JOIN_CHANNEL /\ Rooms!LEAVE_CHANNEL = LEAVE_CHANNEL
    /\ Rooms!Chans = Chans
    /\ \A fd : Rooms!First(fd) = Packet(fd)
    /\ \A request : Rooms!ListedBy(request) = ListedBy(request)
    /\ \A fd, chan : Rooms!Message(chan, fd) = <<SEND, chan, fd>>
    /\ \A code : Rooms!Answer(code) = <<code>>
BY DEF Rooms!LOGIN, LOGIN, Rooms!LOGOUT, LOGOUT, Rooms!SEND, SEND, Rooms!GET_USERS,
       GET_USERS, Rooms!FAILED, FAILED, Rooms!CREATE_CHANNEL, CREATE_CHANNEL,
       Rooms!JOIN_CHANNEL, JOIN_CHANNEL, Rooms!LEAVE_CHANNEL, LEAVE_CHANNEL,
       Rooms!Chans, Chans, Rooms!First, Packet, Rooms!ListedBy, ListedBy,
       Rooms!Message, Rooms!Answer

\* Who is present for ChatRooms is who is registered.
LEMMA RoomsPresent ==
    ASSUME ServerTypeOK
    PROVE  /\ \A fd : Rooms!Present(fd) <=> LoggedIn(client, fd)
           /\ Memberships(client) = {} <=> client = <<>>
<1>1. client \in Seq(Nodes)
  BY DEF ServerTypeOK
<1>. QED
  BY <1>1, PresentLemma, Vocabulary DEF Rooms!Present

-------------------------------------------------------------------------------
(* The requests *)

\* What a visit reads is what ChatRooms takes up.
LEMMA ServeTakes ==
    ASSUME NEW fd, NEW cmd, Serve(fd, cmd)
    PROVE  Rooms!Take(fd, cmd)
<1>1. Owed(outbox) = {} /\ Up
  BY OwedLemma DEF Serve, Visit, Up
<1>2. toServer[fd] # <<>> /\ Packet(fd).cmd = cmd
  BY DEF Serve, Packet
<1>3. \E k \in 1 .. Len(toServer[fd]) :
         toServer' = [toServer EXCEPT ![fd] = SubSeq(@, k + 1, Len(@))]
  BY DEF Serve, ServerRead
<1>. QED
  BY <1>1, <1>2, <1>3, Vocabulary DEF Rooms!Take

\* A handler that answers serves a request of ChatRooms.
LEMMA AnswerServes ==
    ASSUME NEW fd, NEW cmd, NEW reply, NEW code, Serve(fd, cmd), Answer(fd, reply),
           reply.code = code, code # SEND
    PROVE  Rooms!Serve(fd, cmd, code)
<1>1. Owed(outbox') = {<<fd, <<code>>>>}
  BY OwedLemma DEF Answer
<1>2. Up /\ Up'
  BY DEF Serve, Visit, Answer, Up
<1>. QED
  BY <1>1, <1>2, ServeTakes, Vocabulary DEF Rooms!Serve

\* What follows a null pointer is the end of the server.
LEMMA NullHeadStops ==
    ASSUME NEW fd, NEW cmd, Serve(fd, cmd), NullHead, ServerTypeOK
    PROVE  Rooms!NullHead(fd, cmd)
<1>1. Memberships(client) = {}
  BY RoomsPresent DEF NullHead
<1>2. ~ Up' /\ pc' = "segv" /\ client' = client /\ outbox' = outbox
  BY DEF NullHead, Up
<1>. QED
  BY <1>1, <1>2, ServeTakes DEF Rooms!NullHead

LEMMA LoginRefines ==
    ASSUME ServerTypeOK, NEW fd \in Fds, fd = client_fd, ServeLogin(fd)
    PROVE  Rooms!Login(fd)
<1>1. Serve(fd, LOGIN) /\ channelId' = channelId /\ client \in Seq(Nodes)
  BY DEF ServeLogin, ServerTypeOK
<1>2. CASE LoggedIn(client, fd) /\ Answer(fd, Reply(FAILED)) /\ UNCHANGED client
  <2>1. Rooms!Serve(fd, LOGIN, FAILED)
    BY <1>1, <1>2, AnswerServes, CodesDiffer, ReplyCode
  <2>. QED
    BY <1>1, <1>2, <2>1, RoomsPresent, Vocabulary DEF Rooms!Login
<1>3. CASE ~ LoggedIn(client, fd) /\ client' = Push(client, 0, fd, fd) /\ Answer(fd, Reply(LOGIN))
  <2>1. Rooms!Serve(fd, LOGIN, LOGIN)
    BY <1>1, <1>3, AnswerServes, CodesDiffer, ReplyCode
  <2>2. Memberships(client') = {<<fd, 0>>} \cup Memberships(client)
    <3>1. 0 \in Chans
      BY ChanModAssumption DEF Chans
    <3>. QED
      BY <1>1, <1>3, <3>1, PushMemberships
  <2>. QED
    BY <1>1, <1>3, <2>1, <2>2, RoomsPresent, Vocabulary DEF Rooms!Login
<1>. QED
  BY <1>2, <1>3 DEF ServeLogin

LEMMA LogoutRefines ==
    ASSUME ServerTypeOK, NEW fd \in Fds, fd = client_fd, ServeLogout(fd)
    PROVE  Rooms!Logout(fd)
<1>1. Serve(fd, LOGOUT) /\ channelId' = channelId /\ client \in Seq(Nodes)
  BY DEF ServeLogout, ServerTypeOK
<1>2. Rooms!Serve(fd, LOGOUT, LOGOUT)
  BY <1>1, AnswerServes, CodesDiffer, ReplyCode DEF ServeLogout
<1>3. Memberships(client') = {m \in Memberships(client) : m[1] # fd}
  <2>1. 0 \in Chans
    BY ChanModAssumption DEF Chans
  <2>. QED
    BY <1>1, <2>1, DeleteMemberships DEF ServeLogout
<1>. QED
  BY <1>1, <1>2, <1>3, Vocabulary DEF Rooms!Logout

LEMMA ListUsersRefines ==
    ASSUME NEW fd \in Fds, ServeGetUsers(fd)
    PROVE  Rooms!ListUsers(fd)
<1>. DEFINE reply == [code |-> GET_USERS, users |-> UsersOf(client, Packet(fd).chan)]
<1>1. Serve(fd, GET_USERS) /\ UNCHANGED <<client, channelId>> /\ Answer(fd, reply)
  BY DEF ServeGetUsers
<1>2. reply.code = GET_USERS
  OBVIOUS
<1>. HIDE DEF reply
<1>3. Rooms!Serve(fd, GET_USERS, GET_USERS)
  BY <1>1, <1>2, AnswerServes, CodesDiffer
<1>. QED
  BY <1>1, <1>3, Vocabulary DEF Rooms!ListUsers

LEMMA JoinRefines ==
    ASSUME WireTypeOK, ServerTypeOK, NEW fd \in Fds, fd = client_fd, ServeJoin(fd)
    PROVE  Rooms!Join(fd)
<1>. DEFINE chan == Packet(fd).chan
<1>1. Serve(fd, JOIN_CHANNEL) /\ channelId' = channelId /\ client \in Seq(Nodes)
  BY DEF ServeJoin, ServerTypeOK
<1>2. chan \in Chans
  BY OldServeType DEF ServeJoin, Requests
<1>3. <<fd, chan>> \in Memberships(client) <=> Member(client, fd, chan)
  BY <1>1, MembershipsLemma
<1>4. CASE NullHead
  <2>1. Rooms!NullHead(fd, JOIN_CHANNEL)
    BY <1>1, <1>4, NullHeadStops
  <2>. QED
    BY <1>1, <2>1, Vocabulary DEF Rooms!Join
<1>5. CASE /\ client # <<>>
           /\ ~ LoggedIn(client, fd) \/ Member(client, fd, chan)
           /\ Answer(fd, Reply(FAILED))
           /\ UNCHANGED client
  <2>1. Rooms!Serve(fd, JOIN_CHANNEL, FAILED)
    BY <1>1, <1>5, AnswerServes, CodesDiffer, ReplyCode
  <2>. QED
    BY <1>1, <1>3, <1>5, <2>1, RoomsPresent, Vocabulary DEF Rooms!Join
<1>6. CASE /\ LoggedIn(client, fd) /\ ~ Member(client, fd, chan)
           /\ client' = Push(client, chan, fd, client[1].name)
           /\ Answer(fd, Reply(JOIN_CHANNEL))
  <2>1. Rooms!Serve(fd, JOIN_CHANNEL, JOIN_CHANNEL)
    BY <1>1, <1>6, AnswerServes, CodesDiffer, ReplyCode
  <2>2. client[1].name \in Fds /\ client # <<>>
    <3>1. client[1] \in Nodes /\ client # <<>>
      BY <1>1, <1>6 DEF LoggedIn
    <3>. QED
      BY <3>1 DEF Nodes
  <2>3. Memberships(client') = {<<fd, chan>>} \cup Memberships(client)
    BY <1>1, <1>2, <1>6, <2>2, PushMemberships
  <2>. QED
    BY <1>1, <1>3, <1>6, <2>1, <2>2, <2>3, RoomsPresent, Vocabulary DEF Rooms!Join
<1>. QED
  BY <1>4, <1>5, <1>6 DEF ServeJoin

\* Leaving a channel the client is not in changes nothing, as the removal of a
\* membership that is not there does.
LEMMA LeaveRefines ==
    ASSUME WireTypeOK, ServerTypeOK, NEW fd \in Fds, fd = client_fd, ServeLeave(fd)
    PROVE  Rooms!Leave(fd)
<1>. DEFINE chan == Packet(fd).chan
<1>1. Serve(fd, LEAVE_CHANNEL) /\ channelId' = channelId /\ client \in Seq(Nodes)
  BY DEF ServeLeave, ServerTypeOK
<1>2. chan \in Chans
  BY OldServeType DEF ServeLeave, Requests
<1>3. <<fd, chan>> \in Memberships(client) <=> Member(client, fd, chan)
  BY <1>1, MembershipsLemma
<1>4. Rooms!Serve(fd, LEAVE_CHANNEL, LEAVE_CHANNEL)
  BY <1>1, AnswerServes, CodesDiffer, ReplyCode DEF ServeLeave
<1>5. client' = IF Member(client, fd, chan) THEN DeleteClient(client, chan, fd) ELSE client
  BY DEF ServeLeave
<1>. HIDE DEF chan
<1>6. Memberships(client') = Memberships(client) \ {<<fd, chan>>}
  BY <1>1, <1>2, <1>3, <1>5, DeleteMemberships
<1>. QED
  BY <1>1, <1>4, <1>6, Vocabulary DEF Rooms!Leave, chan

LEMMA CreateRefines ==
    ASSUME WireTypeOK, ServerTypeOK, NEW fd \in Fds, fd = client_fd, ServeCreate(fd)
    PROVE  Rooms!Create(fd)
<1>1. Serve(fd, CREATE_CHANNEL) /\ channelId' = ToChan(channelId + 1) /\ client \in Seq(Nodes)
  BY DEF ServeCreate, ServerTypeOK
<1>2. channelId' \in Chans /\ channelId' = (channelId + 1) % ChanMod
  <2>1. channelId + 1 \in Int
    BY DEF ServerTypeOK, Chans
  <2>. QED
    BY <1>1, <2>1, ToChanType DEF ToChan
<1>4. CASE NullHead
  <2>1. Rooms!NullHead(fd, CREATE_CHANNEL)
    BY <1>1, <1>4, NullHeadStops
  <2>. QED
    BY <1>2, <2>1, Vocabulary DEF Rooms!Create
<1>5. CASE /\ client # <<>> /\ ~ LoggedIn(client, fd)
           /\ Answer(fd, Reply(FAILED))
           /\ UNCHANGED client
  <2>1. Rooms!Serve(fd, CREATE_CHANNEL, FAILED)
    BY <1>1, <1>5, AnswerServes, CodesDiffer, ReplyCode
  <2>. QED
    BY <1>2, <1>5, <2>1, RoomsPresent, Vocabulary DEF Rooms!Create
<1>6. CASE /\ LoggedIn(client, fd)
           /\ client' = Push(client, channelId', client_fd, client[1].name)
           /\ Answer(fd, Reply(CREATE_CHANNEL))
  <2>1. Rooms!Serve(fd, CREATE_CHANNEL, CREATE_CHANNEL)
    BY <1>1, <1>6, AnswerServes, CodesDiffer, ReplyCode
  <2>2. client # <<>> /\ client[1].name \in Fds
    <3>1. client[1] \in Nodes /\ client # <<>>
      BY <1>1, <1>6 DEF LoggedIn
    <3>. QED
      BY <3>1 DEF Nodes
  <2>3. Memberships(client') = {<<fd, channelId'>>} \cup Memberships(client)
    BY <1>1, <1>2, <1>6, <2>2, PushMemberships
  <2>4. Memberships(client') = Memberships(client) \cup {<<g, channelId'>> : g \in {} \cup {fd}}
    BY <2>3
  <2>5. Memberships(client) # {} /\ Rooms!Present(fd)
    BY <1>6, <2>2, RoomsPresent
  <2>. QED
    BY <1>2, <2>1, <2>4, <2>5, Vocabulary DEF Rooms!Create
<1>. QED
  BY <1>4, <1>5, <1>6 DEF ServeCreate

\* A message is owed to whoever is in its channel, but not to its sender.
LEMMA RelayRefines ==
    ASSUME WireTypeOK, ServerTypeOK, NEW fd \in Fds, ServeSend(fd)
    PROVE  Rooms!Relay(fd)
<1>. DEFINE chan == Packet(fd).chan
<1>1. /\ Serve(fd, SEND) /\ pc' = pc
      /\ client' = client /\ channelId' = channelId /\ client \in Seq(Nodes)
  BY DEF ServeSend, ServerTypeOK
<1>2. chan \in Chans
  BY OldServeType DEF ServeSend, Requests
<1>3. outbox' = Relayed(client, chan, fd)
  BY DEF ServeSend, Relayed
<1>. HIDE DEF chan
<1>4. Owed(outbox') = Debts(client, chan, fd)
  BY <1>1, <1>3, OwedRelay
<1>5. Rooms!Take(fd, SEND) /\ (Up <=> Up')
  BY <1>1, ServeTakes DEF Up
<1>. QED
  BY <1>1, <1>4, <1>5, Vocabulary DEF Rooms!Relay, Debts, chan

-------------------------------------------------------------------------------
(* The other steps *)

\* A send settles a debt, settles one of two equal ones, or ends the server.
LEMMA SendResponseRefines ==
    ASSUME ServerTypeOK, SendResponse
    PROVE  Rooms!Deliver \/ Rooms!Stop \/ UNCHANGED Rooms!roomVars
<1>1. /\ outbox \in Seq(Outgoing) /\ outbox # <<>> /\ Up
      /\ UNCHANGED <<client, channelId, toServer>>
  BY DEF SendResponse, ServerTypeOK, ServerSend, wireVars
<1>2. PICK one \in Owed(outbox) : Owed(Tail(outbox)) \in {Owed(outbox), Owed(outbox) \ {one}}
  BY <1>1, OwedTail
<1>3. CASE outbox' = Tail(outbox) /\ UNCHANGED pc
  <2>1. Up'
    BY <1>1, <1>3 DEF Up
  <2>2. CASE Owed(outbox') = Owed(outbox)
    BY <1>1, <2>1, <2>2 DEF Rooms!roomVars
  <2>3. CASE Owed(outbox') = Owed(outbox) \ {one}
    BY <1>1, <1>2, <2>1, <2>3 DEF Rooms!Deliver
  <2>. QED
    BY <1>2, <1>3, <2>2, <2>3
<1>4. CASE pc' = "sigpipe" /\ UNCHANGED <<outbox, wireVars>>
  <2>1. ~ Up'
    BY <1>4 DEF Up
  <2>2. Owed(outbox) # {} /\ outbox' = outbox
    BY <1>2, <1>4
  <2>. QED
    BY <1>1, <1>4, <2>1, <2>2 DEF Rooms!Stop
<1>. QED
  BY <1>3, <1>4 DEF SendResponse

\* Accepting and selecting are of no concern to ChatRooms, nor is a visit that
\* reads nothing.
LEMMA LoopRefines ==
    ASSUME AcceptConnection \/ Select \/ \E fd \in Fds : VisitNothing(fd)
    PROVE  UNCHANGED Rooms!roomVars
<1>1. UNCHANGED <<client, channelId, outbox, toServer>> /\ Up /\ Up'
  BY DEF AcceptConnection, AtTop, Select, VisitNothing, Visit, Up, wireVars
<1>. QED
  BY <1>1 DEF Rooms!roomVars

LEMMA AcceptFailsRefines ==
    ASSUME AcceptFails
    PROVE  Rooms!Stop
<1>1. /\ UNCHANGED <<client, channelId, outbox, toServer>>
      /\ Up /\ ~ Up' /\ pc' = "exit" /\ outbox = <<>>
  BY DEF AcceptFails, AtTop, Up, wireVars
<1>2. Owed(outbox) = {}
  BY <1>1, OwedLemma
<1>. QED
  BY <1>1, <1>2 DEF Rooms!Stop

\* What a client types is asked; a request that finds the buffer full is not.
LEMMA KeyboardRefines ==
    ASSUME OldInv, NEW fd \in Fds, Keyboard(fd), UNCHANGED serverVars
    PROVE  Rooms!Ask(fd) \/ UNCHANGED Rooms!roomVars
<1>1. \/ UNCHANGED toServer
      \/ \E request \in Asks : toServer' = [toServer EXCEPT ![fd] = Append(@, request)]
  BY KeyboardAsks DEF OldInv, TypesOK, AfterAsking
<1>2. UNCHANGED <<client, outbox, channelId, pc>> /\ (Up <=> Up')
  BY DEF serverVars, Up
<1>3. Asks = [cmd : Rooms!SEND .. Rooms!LOGIN, chan : Rooms!Chans, list : UserLists \cup {<<>>}]
  BY Vocabulary DEF Asks
<1>. QED
  BY <1>1, <1>2, <1>3, Zenon DEF Rooms!Ask, Rooms!roomVars

LEMMA CallerServed ==
    ASSUME OldInv, NEW fd \in Fds,
           \/ ServeLogout(fd) \/ ServeCreate(fd) \/ ServeJoin(fd) \/ ServeLeave(fd)
           \/ ServeLogin(fd)
    PROVE  fd = client_fd
BY DEF OldInv, ServeLogout, ServeCreate, ServeJoin, ServeLeave, ServeLogin, Serve, Visit

LEMMA ServerStepRefines ==
    ASSUME OldInv, ServerStep
    PROVE  Rooms!Next \/ UNCHANGED Rooms!roomVars
<1>0. WireTypeOK /\ ServerTypeOK
  BY DEF OldInv, TypesOK
<1>1. CASE AcceptConnection \/ Select \/ \E fd \in Fds : VisitNothing(fd)
  BY <1>1, LoopRefines
<1>2. CASE SendResponse
  BY <1>0, <1>2, SendResponseRefines DEF Rooms!Next
<1>3. ASSUME NEW fd \in Fds, ServeSend(fd) PROVE Rooms!Next
  BY <1>0, <1>3, RelayRefines DEF Rooms!Next
<1>4. ASSUME NEW fd \in Fds, ServeLogout(fd) PROVE Rooms!Next
  BY <1>0, <1>4, CallerServed, LogoutRefines DEF Rooms!Next
<1>5. ASSUME NEW fd \in Fds, ServeGetUsers(fd) PROVE Rooms!Next
  BY <1>0, <1>5, ListUsersRefines DEF Rooms!Next
<1>6. ASSUME NEW fd \in Fds, ServeCreate(fd) PROVE Rooms!Next
  BY <1>0, <1>6, CallerServed, CreateRefines DEF Rooms!Next
<1>7. ASSUME NEW fd \in Fds, ServeJoin(fd) PROVE Rooms!Next
  BY <1>0, <1>7, CallerServed, JoinRefines DEF Rooms!Next
<1>8. ASSUME NEW fd \in Fds, ServeLeave(fd) PROVE Rooms!Next
  BY <1>0, <1>8, CallerServed, LeaveRefines DEF Rooms!Next
<1>9. ASSUME NEW fd \in Fds, ServeLogin(fd) PROVE Rooms!Next
  BY <1>0, <1>9, CallerServed, LoginRefines DEF Rooms!Next
<1>. QED
  BY <1>1, <1>2, <1>3, <1>4, <1>5, <1>6, <1>7, <1>8, <1>9 DEF ServerStep

-------------------------------------------------------------------------------
(* The refinement *)

LEMMA RoomsInit == Init => Rooms!Init
<1>. SUFFICES ASSUME Init PROVE Rooms!Init
  OBVIOUS
<1>1. /\ client = <<>> /\ outbox = <<>> /\ channelId = 0 /\ Up
      /\ toServer = [fd \in Fds |-> <<>>]
  BY DEF Init, ServerInit, WireInit, Up
<1>2. Memberships(<<>>) = {} /\ Owed(<<>>) = {}
  BY OwedLemma DEF Memberships
<1>. QED
  BY <1>1, <1>2 DEF Rooms!Init

LEMMA RoomsNext == OldInv /\ [Next]_vars => [Rooms!Next]_(Rooms!roomVars)
<1>. SUFFICES ASSUME OldInv, [Next]_vars PROVE Rooms!Next \/ UNCHANGED Rooms!roomVars
  OBVIOUS
<1>1. ASSUME UNCHANGED <<client, channelId, pc, outbox, toServer>>
      PROVE  UNCHANGED Rooms!roomVars
  BY <1>1 DEF Rooms!roomVars, Up
<1>2. CASE ServerStep /\ UNCHANGED clientVars
  BY <1>2, ServerStepRefines
<1>3. CASE AcceptFails /\ UNCHANGED clientVars
  BY <1>3, AcceptFailsRefines DEF Rooms!Next
<1>4. ASSUME NEW fd \in Fds, Connect(fd) PROVE UNCHANGED Rooms!roomVars
  BY <1>1, <1>4 DEF Connect, serverVars
<1>5. ASSUME NEW fd \in Fds, Keyboard(fd), UNCHANGED <<serverVars, backlog>>
      PROVE  Rooms!Next \/ UNCHANGED Rooms!roomVars
  BY <1>5, KeyboardRefines DEF Rooms!Next
<1>6. ASSUME NEW fd \in Fds, Exit(fd) \/ Receive(fd), UNCHANGED <<serverVars, backlog>>
      PROVE  UNCHANGED Rooms!roomVars
  BY <1>1, <1>6 DEF Exit, Receive, ClientClose, ClientRead, serverVars
<1>7. CASE UNCHANGED vars
  BY <1>1, <1>7 DEF vars, serverVars, wireVars
<1>. QED
  BY <1>2, <1>3, <1>4, <1>5, <1>6, <1>7 DEF Next

\* The older server keeps what ChatRooms promises towards those it hears: the
\* answer goes to the client whose membership it tells of, which takes
\* OldInv, because the code acts on one descriptor and answers another.
THEOREM OldRoomsCorrect == Spec => KeepsRooms
<1>1. Init => Rooms!Init
  BY RoomsInit
<1>2. OldInv /\ [Next]_vars => [Rooms!Next]_(Rooms!roomVars)
  BY RoomsNext
<1>. QED
  BY <1>1, <1>2, OldInit, OldNext, PTL DEF Spec, KeepsRooms, Rooms!Spec
===============================================================================
