--------------------------- MODULE ChatSystemProofs ---------------------------
(***************************************************************************)
(* Theorems about ChatSystem, for every set of descriptors, every number   *)
(* of channels, every buffer size and every bound on what is typed.        *)
(***************************************************************************)
EXTENDS ChatSystem, ChatClientProofs

-------------------------------------------------------------------------------
(* Type correctness of the server *)

\* One reply to a client is a well-typed outbox.
LEMMA AnswerType ==
    ASSUME ServerTypeOK, NEW fd \in Fds, NEW reply \in Replies, Answer(fd, reply)
    PROVE  outbox' \in Seq(Outgoing) /\ pc' \in Locations
<1>1. [to |-> fd, reply |-> reply] \in Outgoing
  BY DEF Outgoing
<1>. QED
  BY <1>1 DEF Answer, ServerTypeOK

\* A visit that reads a packet.
LEMMA ServeType ==
    ASSUME WireTypeOK, ServerTypeOK, NEW fd \in Fds, NEW cmd, Serve(fd, cmd)
    PROVE  /\ WireTypeOK'
           /\ client_temp' \in Seq(Fds) /\ backlog' \in Seq(Fds) /\ todo' \in Seq(Fds)
           /\ Packet(fd) \in Requests
<1>1. WireTypeOK'
  BY ServerReadType DEF Serve
<1>2. client_temp' \in Seq(Fds) /\ backlog' \in Seq(Fds) /\ todo' \in Seq(Fds)
  BY DEF Serve, Visit, ServerTypeOK
<1>3. Packet(fd) \in Requests
  BY DEF Serve, Packet, WireTypeOK
<1>. QED
  BY <1>1, <1>2, <1>3

LEMMA ServeSendType ==
    ASSUME WireTypeOK, ServerTypeOK, NEW fd \in Fds, ServeSend(fd)
    PROVE  WireTypeOK' /\ ServerTypeOK'
<1>. DEFINE chan == Packet(fd).chan
            to   == Listeners(client, chan, fd)
            out  == [i \in DOMAIN to |->
                       [to |-> to[i].fd,
                        reply |-> [code |-> SEND, chan |-> chan, from |-> fd]]]
<1>1. /\ WireTypeOK'
      /\ client_temp' \in Seq(Fds) /\ backlog' \in Seq(Fds) /\ todo' \in Seq(Fds)
      /\ Packet(fd) \in Requests
  BY ServeType DEF ServeSend
<1>2. chan \in Chans
  BY <1>1 DEF Requests
<1>3. outbox' = out /\ client' = client /\ channelId' = channelId /\ pc' = pc
  BY DEF ServeSend
<1>4. to \in Seq(Nodes)
  BY ListenersLemma DEF ServerTypeOK
<1>. HIDE DEF chan, to
<1>5. Len(to) \in Nat /\ DOMAIN to = 1 .. Len(to)
  BY <1>4
<1>6. ASSUME NEW i \in DOMAIN to
      PROVE  [to |-> to[i].fd,
              reply |-> [code |-> SEND, chan |-> chan, from |-> fd]] \in Outgoing
  <2>1. to[i].fd \in Fds
    <3>1. to[i] \in Nodes
      BY <1>4
    <3>. QED
      BY <3>1 DEF Nodes
  <2>2. [code |-> SEND, chan |-> chan, from |-> fd] \in Replies
    BY <1>2 DEF Replies
  <2>. QED
    BY <2>1, <2>2 DEF Outgoing
<1>7. out \in [1 .. Len(to) -> Outgoing]
  BY <1>5, <1>6
<1>. HIDE DEF out
<1>8. out \in Seq(Outgoing)
  BY <1>5, <1>7
<1>. QED
  BY <1>1, <1>3, <1>8 DEF ServerTypeOK

LEMMA ServeLogoutType ==
    ASSUME WireTypeOK, ServerTypeOK, NEW fd \in Fds, ServeLogout(fd)
    PROVE  WireTypeOK' /\ ServerTypeOK'
<1>1. /\ WireTypeOK'
      /\ client_temp' \in Seq(Fds) /\ backlog' \in Seq(Fds) /\ todo' \in Seq(Fds)
  BY ServeType DEF ServeLogout
<1>2. outbox' \in Seq(Outgoing) /\ pc' \in Locations
  BY AnswerType, ReplyType DEF ServeLogout
<1>3. client' \in Seq(Nodes)
  BY DeleteLemma DEF ServeLogout, ServerTypeOK
<1>. QED
  BY <1>1, <1>2, <1>3 DEF ServeLogout, ServerTypeOK

LEMMA ServeGetUsersType ==
    ASSUME WireTypeOK, ServerTypeOK, NEW fd \in Fds, ServeGetUsers(fd)
    PROVE  WireTypeOK' /\ ServerTypeOK'
<1>. DEFINE users == UsersOf(client, Packet(fd).chan)
<1>1. /\ WireTypeOK'
      /\ client_temp' \in Seq(Fds) /\ backlog' \in Seq(Fds) /\ todo' \in Seq(Fds)
  BY ServeType DEF ServeGetUsers
<1>2. users \in Seq(Users)
  BY UsersLemma DEF ServerTypeOK
<1>3. Answer(fd, [code |-> GET_USERS, users |-> users])
  BY DEF ServeGetUsers
<1>. HIDE DEF users
<1>4. [code |-> GET_USERS, users |-> users] \in Replies
  BY <1>2 DEF Replies
<1>5. outbox' \in Seq(Outgoing) /\ pc' \in Locations
  BY <1>3, <1>4, AnswerType
<1>. QED
  BY <1>1, <1>5 DEF ServeGetUsers, ServerTypeOK

LEMMA ServeCreateType ==
    ASSUME WireTypeOK, ServerTypeOK, NEW fd \in Fds, ServeCreate(fd)
    PROVE  WireTypeOK' /\ ServerTypeOK'
<1>1. /\ WireTypeOK'
      /\ client_temp' \in Seq(Fds) /\ backlog' \in Seq(Fds) /\ todo' \in Seq(Fds)
      /\ Packet(fd) \in Requests
  BY ServeType DEF ServeCreate
<1>2. channelId' \in Chans
  <2>1. channelId + 1 \in Int
    BY DEF ServerTypeOK, Chans
  <2>. QED
    BY <2>1, ToChanType DEF ServeCreate
<1>3. client' \in Seq(Nodes) /\ outbox' \in Seq(Outgoing) /\ pc' \in Locations
  <2>1. CASE NullHead
    BY <2>1 DEF NullHead, ServerTypeOK, Locations
  <2>2. CASE Answer(fd, Reply(FAILED)) /\ UNCHANGED client
    BY <2>2, AnswerType, ReplyType DEF ServerTypeOK
  <2>3. CASE /\ LoggedIn(client, fd)
             /\ client' = CreateNodes(client, channelId', fd, Packet(fd).list)
             /\ Answer(fd, Reply(CREATE_CHANNEL))
    <3>1. Packet(fd).list \in Seq(Int)
      BY <1>1 DEF Requests
    <3>2. client' \in Seq(Nodes)
      BY <1>2, <2>3, <3>1, CreateLemma DEF ServerTypeOK
    <3>. QED
      BY <2>3, <3>2, AnswerType, ReplyType
  <2>. QED
    BY <2>1, <2>2, <2>3 DEF ServeCreate
<1>. QED
  BY <1>1, <1>2, <1>3 DEF ServerTypeOK

LEMMA ServeJoinType ==
    ASSUME WireTypeOK, ServerTypeOK, NEW fd \in Fds, ServeJoin(fd)
    PROVE  WireTypeOK' /\ ServerTypeOK'
<1>. DEFINE chan == Packet(fd).chan
<1>1. /\ WireTypeOK'
      /\ client_temp' \in Seq(Fds) /\ backlog' \in Seq(Fds) /\ todo' \in Seq(Fds)
      /\ Packet(fd) \in Requests
  BY ServeType DEF ServeJoin
<1>2. client' \in Seq(Nodes) /\ outbox' \in Seq(Outgoing) /\ pc' \in Locations
  <2>1. CASE NullHead
    BY <2>1 DEF NullHead, ServerTypeOK, Locations
  <2>2. CASE Answer(fd, Reply(FAILED)) /\ UNCHANGED client
    BY <2>2, AnswerType, ReplyType DEF ServerTypeOK
  <2>3. CASE /\ LoggedIn(client, fd)
             /\ client' = Push(client, chan, fd, client[1].name)
             /\ Answer(fd, Reply(JOIN_CHANNEL))
    <3>1. chan \in Chans
      BY <1>1 DEF Requests
    <3>2. client[1] \in Nodes
      BY <2>3 DEF LoggedIn, ServerTypeOK
    <3>3. client[1].name \in Fds
      BY <3>2 DEF Nodes
    <3>4. client' \in Seq(Nodes)
      BY <2>3, <3>1, <3>3, PushLemma DEF ServerTypeOK
    <3>. QED
      BY <2>3, <3>4, AnswerType, ReplyType
  <2>. QED
    BY <2>1, <2>2, <2>3 DEF ServeJoin
<1>. QED
  BY <1>1, <1>2 DEF ServeJoin, ServerTypeOK

LEMMA ServeLeaveType ==
    ASSUME WireTypeOK, ServerTypeOK, NEW fd \in Fds, ServeLeave(fd)
    PROVE  WireTypeOK' /\ ServerTypeOK'
<1>1. /\ WireTypeOK'
      /\ client_temp' \in Seq(Fds) /\ backlog' \in Seq(Fds) /\ todo' \in Seq(Fds)
  BY ServeType DEF ServeLeave
<1>2. outbox' \in Seq(Outgoing) /\ pc' \in Locations
  BY AnswerType, ReplyType DEF ServeLeave
<1>3. client' \in Seq(Nodes)
  BY DeleteLemma DEF ServeLeave, ServerTypeOK
<1>. QED
  BY <1>1, <1>2, <1>3 DEF ServeLeave, ServerTypeOK

LEMMA ServeLoginType ==
    ASSUME WireTypeOK, ServerTypeOK, NEW fd \in Fds, ServeLogin(fd)
    PROVE  WireTypeOK' /\ ServerTypeOK'
<1>1. /\ WireTypeOK'
      /\ client_temp' \in Seq(Fds) /\ backlog' \in Seq(Fds) /\ todo' \in Seq(Fds)
  BY ServeType DEF ServeLogin
<1>2. outbox' \in Seq(Outgoing) /\ pc' \in Locations
  BY AnswerType, ReplyType DEF ServeLogin
<1>3. client' \in Seq(Nodes)
  <2>1. 0 \in Chans
    BY ChanModAssumption DEF Chans
  <2>. QED
    BY <2>1, PushLemma DEF ServeLogin, ServerTypeOK
<1>. QED
  BY <1>1, <1>2, <1>3 DEF ServeLogin, ServerTypeOK

LEMMA SendResponseType ==
    ASSUME WireTypeOK, ServerTypeOK, SendResponse
    PROVE  WireTypeOK' /\ ServerTypeOK'
<1>1. Head(outbox) \in Outgoing /\ Tail(outbox) \in Seq(Outgoing)
  BY DEF SendResponse, ServerTypeOK
<1>2. Head(outbox).to \in Fds /\ Head(outbox).reply \in Replies
  BY <1>1 DEF Outgoing
<1>3. CASE /\ ServerSend(Head(outbox).to, Head(outbox).reply)
           /\ outbox' = Tail(outbox)
           /\ UNCHANGED pc
  BY <1>1, <1>2, <1>3, ServerSendType DEF SendResponse, ServerTypeOK
<1>4. CASE pc' = "sigpipe" /\ UNCHANGED <<outbox, wireVars>>
  BY <1>4 DEF SendResponse, ServerTypeOK, WireTypeOK, wireVars, Locations
<1>. QED
  BY <1>3, <1>4 DEF SendResponse

LEMMA SelectType ==
    ASSUME WireTypeOK, ServerTypeOK, Select
    PROVE  WireTypeOK' /\ ServerTypeOK'
<1>. DEFINE S == {fd \in Fds : Readable(fd)}
<1>1. todo' = Keep(client_temp, S)
  BY DEF Select
<1>. HIDE DEF S
<1>2. todo' \in Seq(Fds)
  BY <1>1, KeepSound DEF ServerTypeOK
<1>. QED
  BY <1>2 DEF Select, WireTypeOK, ServerTypeOK, wireVars, Locations

LEMMA AcceptConnectionType ==
    ASSUME WireTypeOK, ServerTypeOK, AcceptConnection
    PROVE  WireTypeOK' /\ ServerTypeOK'
<1>1. CASE backlog = <<>> /\ UNCHANGED <<client_temp, backlog, peer>>
  BY <1>1 DEF AcceptConnection, WireTypeOK, ServerTypeOK, Locations
<1>2. CASE /\ backlog # <<>>
           /\ client_temp' = <<Head(backlog)>> \o client_temp
           /\ backlog' = Tail(backlog)
           /\ peer' = [peer EXCEPT ![Head(backlog)] = "open"]
  <2>1. Head(backlog) \in Fds /\ Tail(backlog) \in Seq(Fds)
    BY <1>2 DEF ServerTypeOK
  <2>2. client_temp' \in Seq(Fds)
    BY <1>2, <2>1 DEF ServerTypeOK
  <2>. QED
    BY <1>2, <2>1, <2>2 DEF AcceptConnection, WireTypeOK, ServerTypeOK, Locations, PeerStates
<1>. QED
  BY <1>1, <1>2 DEF AcceptConnection

\* Every step of the server keeps the types of what it touches.
LEMMA ServerStepType ==
    ASSUME WireTypeOK, ServerTypeOK, ServerStep
    PROVE  WireTypeOK' /\ ServerTypeOK'
<1>1. ASSUME NEW fd \in Fds, VisitNothing(fd) PROVE WireTypeOK' /\ ServerTypeOK'
  <2>1. todo' \in Seq(Fds)
    BY <1>1 DEF VisitNothing, Visit, ServerTypeOK
  <2>. QED
    BY <1>1, <2>1 DEF VisitNothing, Visit, WireTypeOK, ServerTypeOK, wireVars
<1>. QED
  BY <1>1, AcceptConnectionType, SelectType, SendResponseType, ServeSendType,
     ServeLogoutType, ServeGetUsersType, ServeCreateType, ServeJoinType,
     ServeLeaveType, ServeLoginType
     DEF ServerStep

-------------------------------------------------------------------------------
(* Type correctness of the system *)

LEMMA ConnectType ==
    ASSUME WireTypeOK, ServerTypeOK, NEW fd \in Fds, Connect(fd)
    PROVE  WireTypeOK' /\ ServerTypeOK'
<1>1. backlog' \in Seq(Fds)
  BY DEF Connect, ServerTypeOK
<1>. QED
  BY <1>1 DEF Connect, WireTypeOK, ServerTypeOK, PeerStates, serverVars

LEMMA TypeInit == Init => TypeOK
BY ChanModAssumption
   DEF Init, TypeOK, WireInit, ServerInit, ClientInit, WireTypeOK, ServerTypeOK,
       ClientTypeOK, PeerStates, Locations, Chans

LEMMA TypeNext == TypeOK /\ [Next]_vars => TypeOK'
<1>. SUFFICES ASSUME TypeOK, [Next]_vars PROVE TypeOK'
  OBVIOUS
<1>. USE DEF TypeOK
<1>1. ASSUME UNCHANGED clientVars PROVE ClientTypeOK'
  BY <1>1 DEF ClientTypeOK, clientVars, stateVars
<1>2. ASSUME UNCHANGED <<serverVars, backlog>> PROVE ServerTypeOK'
  BY <1>2 DEF ServerTypeOK, serverVars
<1>3. ASSUME NEW fd \in Fds, Connect(fd), UNCHANGED clientVars PROVE TypeOK'
  BY <1>1, <1>3, ConnectType
<1>4. CASE ServerStep /\ UNCHANGED clientVars
  BY <1>1, <1>4, ServerStepType
<1>5. CASE AcceptFails /\ UNCHANGED clientVars
  BY <1>1, <1>5 DEF AcceptFails, WireTypeOK, ServerTypeOK, wireVars, Locations
<1>6. ASSUME NEW fd \in Fds, Keyboard(fd) \/ Exit(fd), UNCHANGED <<serverVars, backlog>>
      PROVE  TypeOK'
  BY <1>2, <1>6, KeyboardType, ExitType
<1>7. ASSUME NEW fd \in Fds, Receive(fd), UNCHANGED <<serverVars, backlog>>
      PROVE  TypeOK'
  BY <1>2, <1>7, ReceiveType
<1>8. CASE UNCHANGED vars
  <2>1. WireTypeOK'
    BY <1>8 DEF vars, wireVars, WireTypeOK
  <2>. QED
    BY <1>1, <1>2, <1>8, <2>1 DEF vars
<1>. QED
  BY <1>3, <1>4, <1>5, <1>6, <1>7, <1>8 DEF Next

\* Every variable of the server, of the clients and of the connections keeps
\* its type, whatever is typed, dropped or crashes.
THEOREM TypeCorrect == Spec => []TypeOK
BY TypeInit, TypeNext, PTL DEF Spec
-------------------------------------------------------------------------------
(* What select() reported *)

\* A connection is in the listen queue or watched, once, and what select()
\* reported of it holds until the loop comes to it, because the loop reads
\* each connection at most once per turn.
FlagInv ==
    /\ TypeOK
    /\ Distinct(backlog) /\ \A i \in DOMAIN backlog : peer[backlog[i]] = "waiting"
    /\ Distinct(client_temp)
    /\ \A i \in DOMAIN client_temp : peer[client_temp[i]] \notin {"none", "waiting"}
    /\ Distinct(todo) /\ FlaggedStillReadable

LEMMA FlagInit == Init => FlagInv
BY TypeInit DEF Init, WireInit, ServerInit, FlagInv, Distinct, FlaggedStillReadable

\* A step that touches none of the three lists.
LEMMA FlagStays ==
    ASSUME FlagInv, TypeOK', UNCHANGED <<client_temp, backlog, todo>>,
           \A fd \in Fds : /\ Readable(fd) => Readable(fd)'
                           /\ peer[fd] = "waiting" => peer'[fd] = "waiting"
                           /\ peer[fd] \notin {"none", "waiting"}
                                => peer'[fd] \notin {"none", "waiting"}
    PROVE  FlagInv'
<1>. USE DEF FlagInv
<1>1. \A i \in DOMAIN backlog : backlog[i] \in Fds
  BY DEF TypeOK, ServerTypeOK
<1>2. \A i \in DOMAIN client_temp : client_temp[i] \in Fds
  BY DEF TypeOK, ServerTypeOK
<1>3. \A i \in DOMAIN todo : todo[i] \in Fds
  BY DEF TypeOK, ServerTypeOK
<1>4. FlaggedStillReadable'
  BY <1>3 DEF FlaggedStillReadable
<1>5. Distinct(backlog)' /\ Distinct(client_temp)' /\ Distinct(todo)'
  BY DEF Distinct
<1>. QED
  BY <1>1, <1>2, <1>4, <1>5

\* The first element of a sequence without repetitions is not in the rest.
LEMMA DistinctTail ==
    ASSUME NEW T, NEW s \in Seq(T), s # <<>>, Distinct(s)
    PROVE  /\ Tail(s) \in Seq(T) /\ Distinct(Tail(s))
           /\ \A i \in DOMAIN Tail(s) : /\ Tail(s)[i] # Head(s)
                                        /\ \E j \in DOMAIN s : Tail(s)[i] = s[j]
<1>. DEFINE t == Tail(s)
<1>1. /\ t \in Seq(T) /\ Len(s) \in Nat /\ Len(s) > 0 /\ DOMAIN s = 1 .. Len(s)
      /\ DOMAIN t = 1 .. Len(s) - 1 /\ Head(s) = s[1]
      /\ \A i \in 1 .. Len(s) - 1 : t[i] = s[i + 1] /\ i + 1 \in DOMAIN s
  OBVIOUS
<1>. HIDE DEF t
<1>2. Distinct(t)
  <2>. SUFFICES ASSUME NEW i \in DOMAIN t, NEW j \in DOMAIN t, t[i] = t[j] PROVE i = j
    BY DEF Distinct
  <2>1. i + 1 = j + 1
    BY <1>1 DEF Distinct
  <2>. QED
    BY <1>1, <2>1
<1>3. ASSUME NEW i \in DOMAIN t PROVE t[i] # Head(s) /\ \E j \in DOMAIN s : t[i] = s[j]
  <2>1. i + 1 # 1 /\ 1 \in DOMAIN s /\ i + 1 \in DOMAIN s /\ t[i] = s[i + 1]
    BY <1>1
  <2>. QED
    BY <1>1, <2>1 DEF Distinct
<1>. QED
  BY <1>1, <1>2, <1>3 DEF t

\* A visit reads the connection it takes off todo, and no other.
LEMMA FlagVisit ==
    ASSUME FlagInv, TypeOK', NEW fd \in Fds, Visit(fd), UNCHANGED peer,
           \A g \in Fds \ {fd} : toServer'[g] = toServer[g]
    PROVE  FlagInv'
<1>. USE DEF FlagInv
<1>1. todo \in Seq(Fds) /\ todo # <<>> /\ fd = Head(todo) /\ todo' = Tail(todo)
  BY DEF Visit, TypeOK, ServerTypeOK
<1>2. /\ todo' \in Seq(Fds) /\ Distinct(todo')
      /\ \A i \in DOMAIN todo' : todo'[i] # fd /\ \E j \in DOMAIN todo : todo'[i] = todo[j]
  BY <1>1, DistinctTail
<1>3. FlaggedStillReadable'
  <2>. SUFFICES ASSUME NEW i \in DOMAIN todo'
                PROVE  toServer'[todo'[i]] # <<>> \/ peer'[todo'[i]] \in {"fin", "dead"}
    BY DEF FlaggedStillReadable, Readable
  <2>1. PICK j \in DOMAIN todo : todo'[i] = todo[j]
    BY <1>2
  <2>2. Readable(todo[j]) /\ todo[j] \in Fds \ {fd}
    BY <1>1, <1>2, <2>1 DEF FlaggedStillReadable
  <2>. QED
    BY <2>1, <2>2 DEF Readable
<1>. QED
  BY <1>2, <1>3 DEF Visit, Distinct

LEMMA FlagConnect ==
    ASSUME FlagInv, TypeOK', NEW fd \in Fds, Connect(fd)
    PROVE  FlagInv'
<1>. USE DEF FlagInv
<1>1. /\ peer[fd] = "none" /\ peer' = [peer EXCEPT ![fd] = "waiting"]
      /\ backlog' = Append(backlog, fd) /\ backlog \in Seq(Fds)
      /\ peer \in [Fds -> PeerStates]
      /\ UNCHANGED <<client_temp, todo, toServer>>
      /\ client_temp \in Seq(Fds) /\ todo \in Seq(Fds)
  BY DEF Connect, serverVars, TypeOK, ServerTypeOK, WireTypeOK
<1>2. /\ Len(backlog) \in Nat /\ DOMAIN backlog = 1 .. Len(backlog)
      /\ DOMAIN backlog' = 1 .. Len(backlog) + 1 /\ backlog'[Len(backlog) + 1] = fd
      /\ \A i \in 1 .. Len(backlog) : backlog'[i] = backlog[i] /\ backlog[i] \in Fds
  BY <1>1
<1>3. ASSUME NEW i \in 1 .. Len(backlog)
      PROVE  backlog'[i] # fd /\ peer'[backlog'[i]] = "waiting"
  BY <1>1, <1>2
<1>4. peer'[fd] = "waiting"
  BY <1>1
<1>5. Distinct(backlog')
  <2>. SUFFICES ASSUME NEW i \in DOMAIN backlog', NEW j \in DOMAIN backlog', backlog'[i] = backlog'[j]
                PROVE  i = j
    BY DEF Distinct
  <2>1. CASE i \in 1 .. Len(backlog) /\ j \in 1 .. Len(backlog)
    BY <1>2, <2>1 DEF Distinct
  <2>2. CASE i = Len(backlog) + 1 \/ j = Len(backlog) + 1
    BY <1>2, <1>3, <2>2
  <2>. QED
    BY <1>2, <2>1, <2>2
<1>6. \A i \in DOMAIN backlog' : peer'[backlog'[i]] = "waiting"
  <2>. SUFFICES ASSUME NEW i \in DOMAIN backlog' PROVE peer'[backlog'[i]] = "waiting"
    OBVIOUS
  <2>1. CASE i \in 1 .. Len(backlog)
    BY <1>3, <2>1
  <2>2. CASE i = Len(backlog) + 1
    BY <1>2, <1>4, <2>2
  <2>. QED
    BY <1>2, <2>1, <2>2
<1>7. Distinct(client_temp)' /\ Distinct(todo)'
  BY <1>1 DEF Distinct
<1>8. \A i \in DOMAIN client_temp' : peer'[client_temp'[i]] \notin {"none", "waiting"}
  <2>. SUFFICES ASSUME NEW i \in DOMAIN client_temp
                PROVE  peer'[client_temp[i]] \notin {"none", "waiting"}
    BY <1>1
  <2>1. client_temp[i] \in Fds /\ client_temp[i] # fd
    BY <1>1
  <2>. QED
    BY <1>1, <2>1
<1>9. FlaggedStillReadable'
  <2>. SUFFICES ASSUME NEW i \in DOMAIN todo PROVE Readable(todo[i])'
    BY <1>1 DEF FlaggedStillReadable
  <2>1. todo[i] \in Fds /\ Readable(todo[i])
    BY <1>1 DEF FlaggedStillReadable
  <2>. QED
    BY <1>1, <2>1 DEF Readable
<1>. QED
  BY <1>5, <1>6, <1>7, <1>8, <1>9

LEMMA FlagAccept ==
    ASSUME FlagInv, TypeOK', AcceptConnection
    PROVE  FlagInv'
<1>. USE DEF FlagInv
<1>1. todo = <<>> /\ todo' = <<>>
  BY DEF AcceptConnection, AtTop
<1>2. FlaggedStillReadable' /\ Distinct(todo')
  BY <1>1 DEF FlaggedStillReadable, Distinct
<1>3. CASE backlog = <<>> /\ UNCHANGED <<client_temp, backlog, peer>>
  BY <1>2, <1>3 DEF Distinct
<1>4. CASE /\ backlog # <<>>
           /\ client_temp' = <<Head(backlog)>> \o client_temp
           /\ backlog' = Tail(backlog)
           /\ peer' = [peer EXCEPT ![Head(backlog)] = "open"]
  <2>. DEFINE fd == Head(backlog)
  <2>1. /\ backlog \in Seq(Fds) /\ client_temp \in Seq(Fds)
        /\ peer \in [Fds -> PeerStates] /\ fd \in Fds /\ peer[fd] = "waiting"
    <3>1. /\ backlog \in Seq(Fds) /\ client_temp \in Seq(Fds)
          /\ peer \in [Fds -> PeerStates]
      BY DEF TypeOK, ServerTypeOK, WireTypeOK
    <3>2. 1 \in DOMAIN backlog /\ fd = backlog[1]
      BY <1>4, <3>1
    <3>3. \A i \in DOMAIN backlog : peer[backlog[i]] = "waiting"
      OBVIOUS
    <3>. HIDE DEF fd
    <3>. QED
      BY <3>1, <3>2, <3>3
  <2>2. /\ Distinct(backlog')
        /\ \A i \in DOMAIN backlog' : /\ backlog'[i] # fd
                                      /\ \E j \in DOMAIN backlog : backlog'[i] = backlog[j]
    BY <1>4, <2>1, DistinctTail
  <2>. HIDE DEF fd
  <2>3. \A i \in DOMAIN backlog' : peer'[backlog'[i]] = "waiting"
    <3>. SUFFICES ASSUME NEW i \in DOMAIN backlog' PROVE peer'[backlog'[i]] = "waiting"
      OBVIOUS
    <3>1. PICK j \in DOMAIN backlog : backlog'[i] = backlog[j]
      BY <2>2
    <3>2. peer[backlog[j]] = "waiting" /\ backlog[j] \in Fds /\ backlog[j] # fd
      BY <2>1, <2>2, <3>1
    <3>. QED
      BY <1>4, <2>1, <3>1, <3>2 DEF fd
  <2>4. /\ Len(client_temp) \in Nat /\ DOMAIN client_temp = 1 .. Len(client_temp)
        /\ DOMAIN client_temp' = 1 .. Len(client_temp) + 1 /\ client_temp'[1] = fd
        /\ \A i \in 2 .. Len(client_temp) + 1 : /\ client_temp'[i] = client_temp[i - 1]
                                                /\ i - 1 \in DOMAIN client_temp
    BY <1>4, <2>1 DEF fd
  <2>5. ASSUME NEW i \in 2 .. Len(client_temp) + 1
        PROVE  client_temp'[i] # fd /\ peer'[client_temp'[i]] \notin {"none", "waiting"}
    <3>1. /\ client_temp[i - 1] \in Fds
          /\ peer[client_temp[i - 1]] \notin {"none", "waiting"}
      BY <2>1, <2>4
    <3>2. client_temp[i - 1] # fd
      BY <2>1, <3>1
    <3>. QED
      BY <1>4, <2>1, <2>4, <3>1, <3>2 DEF fd
  <2>6. Distinct(client_temp')
    <3>. SUFFICES ASSUME NEW i \in DOMAIN client_temp', NEW j \in DOMAIN client_temp',
                         client_temp'[i] = client_temp'[j]
                  PROVE  i = j
      BY DEF Distinct
    <3>1. CASE i \in 2 .. Len(client_temp) + 1 /\ j \in 2 .. Len(client_temp) + 1
      <4>1. client_temp[i - 1] = client_temp[j - 1] /\ i - 1 \in DOMAIN client_temp /\ j - 1 \in DOMAIN client_temp
        BY <2>4, <3>1
      <4>2. i - 1 = j - 1
        BY <4>1 DEF Distinct
      <4>. QED
        BY <3>1, <4>2
    <3>2. CASE i = 1 \/ j = 1
      BY <2>4, <2>5, <3>2
    <3>. QED
      BY <2>4, <3>1, <3>2
  <2>7. \A i \in DOMAIN client_temp' : peer'[client_temp'[i]] \notin {"none", "waiting"}
    <3>1. peer'[fd] = "open"
      BY <1>4, <2>1 DEF fd
    <3>. QED
      BY <2>4, <2>5, <3>1
  <2>. QED
    BY <1>2, <2>2, <2>3, <2>6, <2>7
<1>. QED
  BY <1>3, <1>4 DEF AcceptConnection

LEMMA FlagSelect ==
    ASSUME FlagInv, TypeOK', Select
    PROVE  FlagInv'
<1>. USE DEF FlagInv
<1>. DEFINE S == {fd \in Fds : Readable(fd)}
<1>1. client_temp \in Seq(Fds) /\ todo' = Keep(client_temp, S)
  BY DEF Select, TypeOK, ServerTypeOK
<1>. HIDE DEF S
<1>2. Distinct(todo')
  BY <1>1, KeepDistinct
<1>3. \A i \in DOMAIN todo' : todo'[i] \in S
  BY <1>1, KeepSound
<1>4. UNCHANGED <<client_temp, backlog, wireVars>>
  BY DEF Select
<1>5. FlaggedStillReadable'
  BY <1>3, <1>4 DEF S, FlaggedStillReadable, Readable, wireVars
<1>. QED
  BY <1>2, <1>4, <1>5 DEF Distinct, wireVars

LEMMA AppendLemma == \A T, x : \A s \in Seq(T) : Append(s, x) # <<>>
<1>. SUFFICES ASSUME NEW T, NEW s \in Seq(T), NEW x PROVE Append(s, x) # <<>>
  OBVIOUS
<1>1. s \in Seq(T \cup {x}) /\ x \in T \cup {x}
  OBVIOUS
<1>2. Len(Append(s, x)) = Len(s) + 1 /\ Len(s) \in Nat
  BY <1>1
<1>. QED
  BY <1>2

LEMMA FlagNext == FlagInv /\ [Next]_vars => FlagInv'
<1>. SUFFICES ASSUME FlagInv, [Next]_vars PROVE FlagInv'
  OBVIOUS
<1>1. TypeOK /\ TypeOK'
  BY TypeNext DEF FlagInv
<1>2. /\ toServer \in [Fds -> Seq(Requests)] /\ peer \in [Fds -> PeerStates]
      /\ outbox \in Seq(Outgoing)
  BY <1>1 DEF TypeOK, WireTypeOK, ServerTypeOK
<1>3. ASSUME NEW fd \in Fds, NEW cmd, Serve(fd, cmd) PROVE FlagInv'
  <2>1. UNCHANGED peer /\ \A g \in Fds \ {fd} : toServer'[g] = toServer[g]
    BY <1>2, <1>3 DEF Serve, ServerRead
  <2>. QED
    BY <1>1, <1>3, <2>1, FlagVisit DEF Serve
<1>4. ASSUME NEW fd \in Fds, VisitNothing(fd) PROVE FlagInv'
  BY <1>1, <1>4, FlagVisit DEF VisitNothing, wireVars
<1>5. CASE SendResponse
  <2>1. UNCHANGED <<client_temp, backlog, todo, toServer>>
    BY <1>5 DEF SendResponse, ServerSend, wireVars
  <2>2. Head(outbox).to \in Fds
    <3>1. Head(outbox) \in Outgoing
      BY <1>2, <1>5 DEF SendResponse
    <3>. QED
      BY <3>1 DEF Outgoing
  <2>3. peer' = peer \/ /\ peer[Head(outbox).to] = "fin"
                        /\ \E after \in {"fin", "dead"} :
                              peer' = [peer EXCEPT ![Head(outbox).to] = after]
    BY <1>5 DEF SendResponse, ServerSend, wireVars
  <2>. QED
    BY <1>1, <1>2, <2>1, <2>2, <2>3, FlagStays DEF Readable
<1>6. CASE ServerStep
  BY <1>1, <1>3, <1>4, <1>5, <1>6, FlagAccept, FlagSelect
     DEF ServerStep, ServeSend, ServeLogout, ServeGetUsers, ServeCreate, ServeJoin,
         ServeLeave, ServeLogin
<1>7. CASE AcceptFails
  BY <1>1, <1>7, FlagStays DEF AcceptFails, wireVars, Readable
<1>8. ASSUME NEW fd \in Fds, Connect(fd) PROVE FlagInv'
  BY <1>1, <1>8, FlagConnect
<1>9. ASSUME NEW fd \in Fds, Keyboard(fd), UNCHANGED <<serverVars, backlog>> PROVE FlagInv'
  <2>1. PICK cmd, chan, list : Type(fd, cmd, chan, list)
    BY <1>9 DEF Keyboard, TypeLogin, TypeMessage, TypeLogout, TypeUsers, TypeCreate,
                TypeJoin, TypeLeave
  <2>2. UNCHANGED peer
    BY <2>1 DEF Type, ClientSend
  <2>3. \A g \in Fds : toServer[g] # <<>> => toServer'[g] # <<>>
    <3>1. Append(toServer[fd], Request(cmd, chan, list)) # <<>>
      BY <1>2, AppendLemma
    <3>. QED
      BY <1>2, <2>1, <3>1 DEF Type, ClientSend
  <2>. QED
    BY <1>1, <1>9, <2>2, <2>3, FlagStays DEF Readable, serverVars
<1>10. ASSUME NEW fd \in Fds, Exit(fd), UNCHANGED <<serverVars, backlog>> PROVE FlagInv'
  <2>1. UNCHANGED toServer /\ peer[fd] = "open"
        /\ \E after \in {"fin", "dead"} : peer' = [peer EXCEPT ![fd] = after]
    BY <1>10 DEF Exit, ClientClose
  <2>. QED
    BY <1>1, <1>2, <1>10, <2>1, FlagStays DEF Readable, serverVars
<1>11. ASSUME NEW fd \in Fds, Receive(fd), UNCHANGED <<serverVars, backlog>> PROVE FlagInv'
  <2>1. UNCHANGED <<toServer, peer>>
    BY <1>11 DEF Receive, ClientRead
  <2>. QED
    BY <1>1, <1>11, <2>1, FlagStays DEF Readable, serverVars
<1>12. CASE UNCHANGED vars
  BY <1>1, <1>12, FlagStays DEF vars, wireVars, serverVars, Readable
<1>. QED
  BY <1>6, <1>7, <1>8, <1>9, <1>10, <1>11, <1>12 DEF Next

\* The loop never reads from a connection that has nothing to say: what
\* select() reported is still there when its turn comes, although other
\* connections were served, replies were sent and clients exited in between.
THEOREM FlagsCorrect == Spec => []FlaggedStillReadable
<1>1. FlagInv => FlaggedStillReadable
  BY DEF FlagInv
<1>. QED
  BY <1>1, FlagInit, FlagNext, PTL DEF Spec
===============================================================================
