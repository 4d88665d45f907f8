------------------------------ MODULE RoomsProofs ------------------------------
(***************************************************************************)
(* The server implements ChatRooms: the initial states map to the initial  *)
(* state, and every step of the system, of the clients and of the kernel   *)
(* maps to a step of ChatRooms or leaves its variables alone.              *)
(***************************************************************************)
EXTENDS ChatSystemProofs

\* ChatRooms uses the same codes and channels.
LEMMA Vocabulary ==
    /\ Rooms!LOGIN = LOGIN /\ Rooms!LOGOUT = LOGOUT /\ Rooms!SEND = SEND
    /\ Rooms!GET_USERS = GET_USERS /\ Rooms!FAILED = FAILED
    /\ Rooms!CREATE_CHANNEL = CREATE_CHANNEL
    /\ Rooms!JOIN_CHANNEL = JOIN_CHANNEL /\ Rooms!LEAVE_CHANNEL = LEAVE_CHANNEL
    /\ Rooms!Chans = Chans
    /\ \A fd : Rooms!First(fd) = Packet(fd)
    /\ \A request : Rooms!ListedBy(request) = ListedBy(request)
    /\ \A fd, chan : Rooms!Message(chan, fd) = <<SEND, chan, fd>>
    /\ \A code : Rooms!Answer(code) = <<code>>
BY DEF Rooms!LOGIN, LOGIN, Rooms!LOGOUT, LOGOUT, Rooms!SEND, SEND, Rooms!GET_USERS,
       GET_USERS, Rooms!FAILED, FAILED, Rooms!CREATE_CHANNEL, CREATE_CHANNEL,
       Rooms!JOIN_CHANNEL, JOIN_CHANNEL, Rooms!LEAVE_CHANNEL, LEAVE_CHANNEL,
       Rooms!Chans, Chans, Rooms!First, Packet, Rooms!ListedBy, ListedBy,
       Rooms!Message, Rooms!Answer

\* Who is present for ChatRooms is who is registered.
LEMMA RoomsPresent ==
    ASSUME ServerTypeOK
    PROVE  /\ \A fd : Rooms!Present(fd) <=> LoggedIn(client, fd)
           /\ Memberships(client) = {} <=> client = <<>>
<1>1. client \in Seq(Nodes)
  BY DEF ServerTypeOK
<1>. QED
  BY <1>1, PresentLemma, Vocabulary DEF Rooms!Present

-------------------------------------------------------------------------------
(* The requests *)

\* What a visit reads is what ChatRooms takes up.
LEMMA ServeTakes ==
    ASSUME NEW fd, NEW cmd, Serve(fd, cmd)
    PROVE  Rooms!Take(fd, cmd)
<1>1. Owed(outbox) = {} /\ Up
  BY OwedLemma DEF Serve, Visit, Up
<1>2. toServer[fd] # <<>> /\ Packet(fd).cmd = cmd
  BY DEF Serve, Packet
<1>3. \E k \in 1 .. Len(toServer[fd]) :
         toServer' = [toServer EXCEPT ![fd] = SubSeq(@, k + 1, Len(@))]
  BY DEF Serve, ServerRead
<1>. QED
  BY <1>1, <1>2, <1>3, Vocabulary DEF Rooms!Take

\* A handler that answers serves a request of ChatRooms.
LEMMA AnswerServes ==
    ASSUME NEW fd, NEW cmd, NEW reply, NEW code, Serve(fd, cmd), Answer(fd, reply),
           reply.code = code, code # SEND
    PROVE  Rooms!Serve(fd, cmd, code)
<1>1. Owed(outbox') = {<<fd, <<code>>>>}
  BY OwedLemma DEF Answer
<1>2. Up /\ Up'
  BY DEF Serve, Visit, Answer, Up
<1>. QED
  BY <1>1, <1>2, ServeTakes, Vocabulary DEF Rooms!Serve

\* What follows a null pointer is the end of the server.
LEMMA NullHeadStops ==
    ASSUME NEW fd, NEW cmd, Serve(fd, cmd), NullHead, ServerTypeOK
    PROVE  Rooms!NullHead(fd, cmd)
<1>1. Memberships(client) = {}
  BY RoomsPresent DEF NullHead
<1>2. ~ Up' /\ pc' = "segv" /\ client' = client /\ outbox' = outbox
  BY DEF NullHead, Up
<1>. QED
  BY <1>1, <1>2, ServeTakes DEF Rooms!NullHead

LEMMA LoginRefines ==
    ASSUME ServerTypeOK, NEW fd \in Fds, ServeLogin(fd)
    PROVE  Rooms!Login(fd)
<1>1. Serve(fd, LOGIN) /\ channelId' = channelId /\ client \in Seq(Nodes)
  BY DEF ServeLogin, ServerTypeOK
<1>2. CASE LoggedIn(client, fd) /\ Answer(fd, Reply(FAILED)) /\ UNCHANGED client
  <2>1. Rooms!Serve(fd, LOGIN, FAILED)
    BY <1>1, <1>2, AnswerServes, CodesDiffer, ReplyCode
  <2>. QED
    BY <1>1, <1>2, <2>1, RoomsPresent, Vocabulary DEF Rooms!Login
<1>3. CASE ~ LoggedIn(client, fd) /\ client' = Push(client, 0, fd, fd) /\ Answer(fd, Reply(LOGIN))
  <2>1. Rooms!Serve(fd, LOGIN, LOGIN)
    BY <1>1, <1>3, AnswerServes, CodesDiffer, ReplyCode
  <2>2. Memberships(client') = {<<fd, 0>>} \cup Memberships(client)
    <3>1. 0 \in Chans
      BY ChanModAssumption DEF Chans
    <3>. QED
      BY <1>1, <1>3, <3>1, PushMemberships
  <2>. QED
    BY <1>1, <1>3, <2>1, <2>2, RoomsPresent, Vocabulary DEF Rooms!Login
<1>. QED
  BY <1>2, <1>3 DEF ServeLogin

LEMMA LogoutRefines ==
    ASSUME ServerTypeOK, NEW fd \in Fds, ServeLogout(fd)
    PROVE  Rooms!Logout(fd)
<1>1. Serve(fd, LOGOUT) /\ channelId' = channelId /\ client \in Seq(Nodes)
  BY DEF ServeLogout, ServerTypeOK
<1>2. Rooms!Serve(fd, LOGOUT, LOGOUT)
  BY <1>1, AnswerServes, CodesDiffer, ReplyCode DEF ServeLogout
<1>3. Memberships(client') = {m \in Memberships(client) : m[1] # fd}
  <2>1. 0 \in Chans
    BY ChanModAssumption DEF Chans
  <2>. QED
    BY <1>1, <2>1, DeleteMemberships DEF ServeLogout
<1>. QED
  BY <1>1, <1>2, <1>3, Vocabulary DEF Rooms!Logout

LEMMA ListUsersRefines ==
    ASSUME NEW fd \in Fds, ServeGetUsers(fd)
    PROVE  Rooms!ListUsers(fd)
<1>. DEFINE reply == [code |-> GET_USERS, users |-> UsersOf(client, Packet(fd).chan)]
<1>1. Serve(fd, GET_USERS) /\ UNCHANGED <<client, channelId>> /\ Answer(fd, reply)
  BY DEF ServeGetUsers
<1>2. reply.code = GET_USERS
  OBVIOUS
<1>. HIDE DEF reply
<1>3. Rooms!Serve(fd, GET_USERS, GET_USERS)
  BY <1>1, <1>2, AnswerServes, CodesDiffer
<1>. QED
  BY <1>1, <1>3, Vocabulary DEF Rooms!ListUsers

LEMMA JoinRefines ==
    ASSUME WireTypeOK, ServerTypeOK, NEW fd \in Fds, ServeJoin(fd)
    PROVE  Rooms!Join(fd)
<1>. DEFINE chan == Packet(fd).chan
<1>1. Serve(fd, JOIN_CHANNEL) /\ channelId' = channelId /\ client \in Seq(Nodes)
  BY DEF ServeJoin, ServerTypeOK
<1>2. chan \in Chans
  BY ServeType DEF ServeJoin, Requests
<1>3. <<fd, chan>> \in Memberships(client) <=> Member(client, fd, chan)
  BY <1>1, MembershipsLemma
<1>4. CASE NullHead
  <2>1. Rooms!NullHead(fd, JOIN_CHANNEL)
    BY <1>1, <1>4, NullHeadStops
  <2>. QED
    BY <1>1, <2>1, Vocabulary DEF Rooms!Join
<1>5. CASE /\ client # <<>>
           /\ ~ LoggedIn(client, fd) \/ Member(client, fd, chan)
           /\ Answer(fd, Reply(FAILED))
           /\ UNCHANGED client
  <2>1. Rooms!Serve(fd, JOIN_CHANNEL, FAILED)
    BY <1>1, <1>5, AnswerServes, CodesDiffer, ReplyCode
  <2>. QED
    BY <1>1, <1>3, <1>5, <2>1, RoomsPresent, Vocabulary DEF Rooms!Join
<1>6. CASE /\ LoggedIn(client, fd) /\ ~ Member(client, fd, chan)
           /\ client' = Push(client, chan, fd, client[1].name)
           /\ Answer(fd, Reply(JOIN_CHANNEL))
  <2>1. Rooms!Serve(fd, JOIN_CHANNEL, JOIN_CHANNEL)
    BY <1>1, <1>6, AnswerServes, CodesDiffer, ReplyCode
  <2>2. client[1].name \in Fds /\ client # <<>>
    <3>1. client[1] \in Nodes /\ client # <<>>
      BY <1>1, <1>6 DEF LoggedIn
    <3>. QED
      BY <3>1 DEF Nodes
  <2>3. Memberships(client') = {<<fd, chan>>} \cup Memberships(client)
    BY <1>1, <1>2, <1>6, <2>2, PushMemberships
  <2>. QED
    BY <1>1, <1>3, <1>6, <2>1, <2>2, <2>3, RoomsPresent, Vocabulary DEF Rooms!Join
<1>. QED
  BY <1>4, <1>5, <1>6 DEF ServeJoin

\* Leaving a channel the client is not in changes nothing, as the removal of a
\* membership that is not there does.
LEMMA LeaveRefines ==
    ASSUME WireTypeOK, ServerTypeOK, NEW fd \in Fds, ServeLeave(fd)
    PROVE  Rooms!Leave(fd)
<1>. DEFINE chan == Packet(fd).chan
<1>1. Serve(fd, LEAVE_CHANNEL) /\ channelId' = channelId /\ client \in Seq(Nodes)
  BY DEF ServeLeave, ServerTypeOK
<1>2. chan \in Chans
  BY ServeType DEF ServeLeave, Requests
<1>3. <<fd, chan>> \in Memberships(client) <=> Member(client, fd, chan)
  BY <1>1, MembershipsLemma
<1>4. Rooms!Serve(fd, LEAVE_CHANNEL, LEAVE_CHANNEL)
  BY <1>1, AnswerServes, CodesDiffer, ReplyCode DEF ServeLeave
<1>5. client' = IF Member(client, fd, chan) THEN DeleteClient(client, chan, fd) ELSE client
  BY DEF ServeLeave
<1>. HIDE DEF chan
<1>6. Memberships(client') = Memberships(client) \ {<<fd, chan>>}
  BY <1>1, <1>2, <1>3, <1>5, DeleteMemberships
<1>. QED
  BY <1>1, <1>4, <1>6, Vocabulary DEF Rooms!Leave, chan

LEMMA CreateRefines ==
    ASSUME WireTypeOK, ServerTypeOK, NEW fd \in Fds, ServeCreate(fd)
    PROVE  Rooms!Create(fd)
<1>1. Serve(fd, CREATE_CHANNEL) /\ channelId' = ToChan(channelId + 1) /\ client \in Seq(Nodes)
  BY DEF ServeCreate, ServerTypeOK
<1>2. channelId' \in Chans /\ channelId' = (channelId + 1) % ChanMod
  <2>1. channelId + 1 \in Int
    BY DEF ServerTypeOK, Chans
  <2>. QED
    BY <1>1, <2>1, ToChanType DEF ToChan
<1>3. Packet(fd).list \in Seq(Int)
  BY ServeType DEF ServeCreate, Requests
<1>4. CASE NullHead
  <2>1. Rooms!NullHead(fd, CREATE_CHANNEL)
    BY <1>1, <1>4, NullHeadStops
  <2>. QED
    BY <1>2, <2>1, Vocabulary DEF Rooms!Create
<1>5. CASE /\ client # <<>> /\ ~ LoggedIn(client, fd)
           /\ Answer(fd, Reply(FAILED))
           /\ UNCHANGED client
  <2>1. Rooms!Serve(fd, CREATE_CHANNEL, FAILED)
    BY <1>1, <1>5, AnswerServes, CodesDiffer, ReplyCode
  <2>. QED
    BY <1>2, <1>5, <2>1, RoomsPresent, Vocabulary DEF Rooms!Create
<1>6. CASE /\ LoggedIn(client, fd)
           /\ client' = CreateNodes(client, channelId', fd, Packet(fd).list)
           /\ Answer(fd, Reply(CREATE_CHANNEL))
  <2>1. Rooms!Serve(fd, CREATE_CHANNEL, CREATE_CHANNEL)
    BY <1>1, <1>6, AnswerServes, CodesDiffer, ReplyCode
  <2>. DEFINE added == {g \in ListedBy(Packet(fd)) : LoggedIn(client, g)}
  <2>2. Memberships(client') = Memberships(client) \cup {<<g, channelId'>> : g \in added \cup {fd}}
    <3>1. \A chan \in Chans, listed \in Seq(Int) :
            Memberships(CreateNodes(client, chan, fd, listed))
              = Memberships(client)
                  \cup {<<g, chan>> : g \in {h \in {listed[i] : i \in DOMAIN listed} :
                                                 LoggedIn(client, h)} \cup {fd}}
      BY <1>1, <1>6, CreateMemberships, ZenonT(20)
    <3>2. client' = CreateNodes(client, channelId', fd, Packet(fd).list)
      BY <1>6
    <3>. QED
      BY <1>2, <1>3, <3>1, <3>2, Zenon DEF ListedBy
  <2>3. added = {g \in Rooms!ListedBy(Rooms!First(fd)) : Rooms!Present(g)}
    BY RoomsPresent, Vocabulary
  <2>4. Rooms!Present(fd)
    BY <1>6, RoomsPresent
  <2>. HIDE DEF added
  <2>. QED
    BY <1>2, <2>1, <2>2, <2>3, <2>4, Vocabulary DEF Rooms!Create
<1>. QED
  BY <1>4, <1>5, <1>6 DEF ServeCreate

\* A message is owed to whoever is in its channel, but not to its sender.
LEMMA RelayRefines ==
    ASSUME WireTypeOK, ServerTypeOK, NEW fd \in Fds, ServeSend(fd)
    PROVE  Rooms!Relay(fd)
<1>. DEFINE chan == Packet(fd).chan
<1>1. /\ Serve(fd, SEND) /\ pc' = pc
      /\ client' = client /\ channelId' = channelId /\ client \in Seq(Nodes)
  BY DEF ServeSend, ServerTypeOK
<1>2. chan \in Chans
  BY ServeType DEF ServeSend, Requests
<1>3. outbox' = Relayed(client, chan, fd)
  BY DEF ServeSend, Relayed
<1>. HIDE DEF chan
<1>4. Owed(outbox') = Debts(client, chan, fd)
  BY <1>1, <1>3, OwedRelay
<1>5. Rooms!Take(fd, SEND) /\ (Up <=> Up')
  BY <1>1, ServeTakes DEF Up
<1>. QED
  BY <1>1, <1>4, <1>5, Vocabulary DEF Rooms!Relay, Debts, chan

-------------------------------------------------------------------------------
(* The other steps *)

\* A send settles a debt, settles one of two equal ones, or ends the server.
LEMMA SendResponseRefines ==
    ASSUME ServerTypeOK, SendResponse
    PROVE  Rooms!Deliver \/ Rooms!Stop \/ UNCHANGED Rooms!roomVars
<1>1. /\ outbox \in Seq(Outgoing) /\ outbox # <<>> /\ Up
      /\ UNCHANGED <<client, channelId, toServer>>
  BY DEF SendResponse, ServerTypeOK, ServerSend, wireVars
<1>2. PICK one \in Owed(outbox) : Owed(Tail(outbox)) \in {Owed(outbox), Owed(outbox) \ {one}}
  BY <1>1, OwedTail
<1>3. CASE outbox' = Tail(outbox) /\ UNCHANGED pc
  <2>1. Up'
    BY <1>1, <1>3 DEF Up
  <2>2. CASE Owed(outbox') = Owed(outbox)
    BY <1>1, <2>1, <2>2 DEF Rooms!roomVars
  <2>3. CASE Owed(outbox') = Owed(outbox) \ {one}
    BY <1>1, <1>2, <2>1, <2>3 DEF Rooms!Deliver
  <2>. QED
    BY <1>2, <1>3, <2>2, <2>3
<1>4. CASE pc' = "sigpipe" /\ UNCHANGED <<outbox, wireVars>>
  <2>1. ~ Up'
    BY <1>4 DEF Up
  <2>2. Owed(outbox) # {} /\ outbox' = outbox
    BY <1>2, <1>4
  <2>. QED
    BY <1>1, <1>4, <2>1, <2>2 DEF Rooms!Stop
<1>. QED
  BY <1>3, <1>4 DEF SendResponse

\* Accepting and selecting are of no concern to ChatRooms, nor is a visit that
\* reads nothing.
LEMMA LoopRefines ==
    ASSUME AcceptConnection \/ Select \/ \E fd \in Fds : VisitNothing(fd)
    PROVE  UNCHANGED Rooms!roomVars
<1>1. UNCHANGED <<client, channelId, outbox, toServer>> /\ Up /\ Up'
  BY DEF AcceptConnection, AtTop, Select, VisitNothing, Visit, Up, wireVars
<1>. QED
  BY <1>1 DEF Rooms!roomVars

LEMMA AcceptFailsRefines ==
    ASSUME AcceptFails
    PROVE  Rooms!Stop
<1>1. /\ UNCHANGED <<client, channelId, outbox, toServer>>
      /\ Up /\ ~ Up' /\ pc' = "exit" /\ outbox = <<>>
  BY DEF AcceptFails, AtTop, Up, wireVars
<1>2. Owed(outbox) = {}
  BY <1>1, OwedLemma
<1>. QED
  BY <1>1, <1>2 DEF Rooms!Stop

\* What a client types is asked; a request that finds the buffer full is not.
LEMMA KeyboardRefines ==
    ASSUME TypeOK, NEW fd \in Fds, Keyboard(fd), UNCHANGED serverVars
    PROVE  Rooms!Ask(fd) \/ UNCHANGED Rooms!roomVars
<1>1. \/ UNCHANGED toServer
      \/ \E request \in Asks : toServer' = [toServer EXCEPT ![fd] = Append(@, request)]
  BY KeyboardAsks DEF TypeOK, AfterAsking
<1>2. UNCHANGED <<client, outbox, channelId, pc>> /\ (Up <=> Up')
  BY DEF serverVars, Up
<1>3. Asks = [cmd : Rooms!SEND .. Rooms!LOGIN, chan : Rooms!Chans, list : UserLists \cup {<<>>}]
  BY Vocabulary DEF Asks
<1>. QED
  BY <1>1, <1>2, <1>3, Zenon DEF Rooms!Ask, Rooms!roomVars

LEMMA ServerStepRefines ==
    ASSUME TypeOK, ServerStep
    PROVE  Rooms!Next \/ UNCHANGED Rooms!roomVars
<1>. USE DEF TypeOK
<1>1. CASE AcceptConnection \/ Select \/ \E fd \in Fds : VisitNothing(fd)
  BY <1>1, LoopRefines
<1>2. CASE SendResponse
  BY <1>2, SendResponseRefines DEF Rooms!Next
<1>3. ASSUME NEW fd \in Fds, ServeSend(fd) PROVE Rooms!Next
  BY <1>3, RelayRefines DEF Rooms!Next
<1>4. ASSUME NEW fd \in Fds, ServeLogout(fd) PROVE Rooms!Next
  BY <1>4, LogoutRefines DEF Rooms!Next
<1>5. ASSUME NEW fd \in Fds, ServeGetUsers(fd) PROVE Rooms!Next
  BY <1>5, ListUsersRefines DEF Rooms!Next
<1>6. ASSUME NEW fd \in Fds, ServeCreate(fd) PROVE Rooms!Next
  BY <1>6, CreateRefines DEF Rooms!Next
<1>7. ASSUME NEW fd \in Fds, ServeJoin(fd) PROVE Rooms!Next
  BY <1>7, JoinRefines DEF Rooms!Next
<1>8. ASSUME NEW fd \in Fds, ServeLeave(fd) PROVE Rooms!Next
  BY <1>8, LeaveRefines DEF Rooms!Next
<1>9. ASSUME NEW fd \in Fds, ServeLogin(fd) PROVE Rooms!Next
  BY <1>9, LoginRefines DEF Rooms!Next
<1>. QED
  BY <1>1, <1>2, <1>3, <1>4, <1>5, <1>6, <1>7, <1>8, <1>9 DEF ServerStep

-------------------------------------------------------------------------------
(* The refinement *)

LEMMA RoomsInit == Init => Rooms!Init
<1>. SUFFICES ASSUME Init PROVE Rooms!Init
  OBVIOUS
<1>1. /\ client = <<>> /\ outbox = <<>> /\ channelId = 0 /\ Up
      /\ toServer = [fd \in Fds |-> <<>>]
  BY DEF Init, ServerInit, WireInit, Up
<1>2. Memberships(<<>>) = {} /\ Owed(<<>>) = {}
  BY OwedLemma DEF Memberships
<1>. QED
  BY <1>1, <1>2 DEF Rooms!Init

LEMMA RoomsNext == TypeOK /\ [Next]_vars => [Rooms!Next]_(Rooms!roomVars)
<1>. SUFFICES ASSUME TypeOK, [Next]_vars PROVE Rooms!Next \/ UNCHANGED Rooms!roomVars
  OBVIOUS
<1>1. ASSUME UNCHANGED <<client, channelId, pc, outbox, toServer>>
      PROVE  UNCHANGED Rooms!roomVars
  BY <1>1 DEF Rooms!roomVars, Up
<1>2. CASE ServerStep /\ UNCHANGED clientVars
  BY <1>2, ServerStepRefines
<1>3. CASE AcceptFails /\ UNCHANGED clientVars
  BY <1>3, AcceptFailsRefines DEF Rooms!Next
<1>4. ASSUME NEW fd \in Fds, Connect(fd) PROVE UNCHANGED Rooms!roomVars
  BY <1>1, <1>4 DEF Connect, serverVars
<1>5. ASSUME NEW fd \in Fds, Keyboard(fd), UNCHANGED <<serverVars, backlog>>
      PROVE  Rooms!Next \/ UNCHANGED Rooms!roomVars
  BY <1>5, KeyboardRefines DEF Rooms!Next
<1>6. ASSUME NEW fd \in Fds, Exit(fd) \/ Receive(fd), UNCHANGED <<serverVars, backlog>>
      PROVE  UNCHANGED Rooms!roomVars
  BY <1>1, <1>6 DEF Exit, Receive, ClientClose, ClientRead, serverVars
<1>7. CASE UNCHANGED vars
  BY <1>1, <1>7 DEF vars, serverVars, wireVars
<1>. QED
  BY <1>2, <1>3, <1>4, <1>5, <1>6, <1>7 DEF Next

\* The server keeps what ChatRooms promises, for any number of clients and
\* channels and whatever the clients type: the code between reading a packet
\* and the last send of its handler changes membership as one request does,
\* and sends to those who were members when it did.
THEOREM RoomsCorrect == Spec => KeepsRooms
<1>1. Init => Rooms!Init
  BY RoomsInit
<1>2. TypeOK /\ [Next]_vars => [Rooms!Next]_(Rooms!roomVars)
  BY RoomsNext
<1>. QED
  BY <1>1, <1>2, TypeCorrect, PTL DEF Spec, KeepsRooms, Rooms!Spec
===============================================================================
