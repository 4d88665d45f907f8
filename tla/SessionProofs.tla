---------------------------- MODULE SessionProofs ----------------------------
(***************************************************************************)
(* The server and a client agree on whether the client is in the chat.     *)
(*                                                                         *)
(* LoginAgreement and ChatOnlyWhileLoggedIn are not inductive one by one:  *)
(* a relayed message is put on a connection because its receiver has a     *)
(* node in the list, which says that the client reads it logged in only    *)
(* through the agreement; and the agreement survives the confirmation of a *)
(* logout only because the list holds no node of the client by then.       *)
(* SessionInv is their conjunction with what the outbox says of the list.  *)
(***************************************************************************)
EXTENDS ChatSystemProofs

SessionInv ==
    /\ TypeOK
    /\ OutboxMatchesList
    /\ LoginAgreement
    /\ ChatOnlyWhileLoggedIn

LEMMA SessionInit == Init => SessionInv
<1>. SUFFICES ASSUME Init PROVE SessionInv
  OBVIOUS
<1>1. TypeOK
  BY TypeInit
<1>2. client = <<>> /\ outbox = <<>> /\ \A fd \in Fds : toClient[fd] = <<>>
  BY DEF Init, ServerInit, WireInit
<1>. QED
  BY <1>1, <1>2 DEF SessionInv, OutboxMatchesList, LoginAgreement, LoggedIn,
                    ChatOnlyWhileLoggedIn

-------------------------------------------------------------------------------
(* Steps that put nothing on the connections *)

\* A step of the server that leaves the connections alone keeps SessionInv if
\* whoever it registers is owed a LOGIN reply.
LEMMA HandlerKeeps ==
    ASSUME SessionInv, TypeOK', outbox = <<>>, OutboxMatchesList',
           UNCHANGED <<toClient, lossy, is_logged_in>>,
           \A g \in Fds : LoggedIn(client', g) => LoggedIn(client, g) \/ LoginOwed(g)'
    PROVE  SessionInv'
<1>1. \A fd : ~ LoginOwed(fd)
  BY DEF LoginOwed
<1>2. LoginAgreement'
  <2>. SUFFICES ASSUME NEW fd \in Fds \ lossy', LoggedIn(client', fd)
                PROVE  \/ LoggedInAfter(toClient'[fd], is_logged_in'[fd], Len(toClient'[fd]))
                       \/ LoginOwed(fd)'
    BY DEF LoginAgreement
  <2>1. CASE LoggedIn(client, fd)
    BY <1>1, <2>1 DEF SessionInv, LoginAgreement
  <2>. QED
    BY <2>1
<1>3. ChatOnlyWhileLoggedIn'
  BY DEF SessionInv, ChatOnlyWhileLoggedIn
<1>. QED
  BY <1>2, <1>3 DEF SessionInv

\* What a single answer has to satisfy.
LEMMA AnswerMatches ==
    ASSUME NEW fd, NEW reply, outbox' = <<[to |-> fd, reply |-> reply]>>,
           reply.code # SEND, reply.code = LOGOUT => ~ LoggedIn(client', fd)
    PROVE  OutboxMatchesList' /\ (reply.code = LOGIN => LoginOwed(fd)')
<1>1. /\ DOMAIN outbox' = {1}
      /\ outbox'[1].to = fd /\ outbox'[1].reply = reply
  OBVIOUS
<1>. QED
  BY <1>1 DEF OutboxMatchesList, LoginOwed

LEMMA ServeKeeps ==
    ASSUME SessionInv, TypeOK', NEW fd \in Fds, UNCHANGED is_logged_in,
           \/ VisitNothing(fd) \/ ServeSend(fd) \/ ServeLogout(fd)
           \/ ServeGetUsers(fd) \/ ServeCreate(fd) \/ ServeJoin(fd)
           \/ ServeLeave(fd) \/ ServeLogin(fd)
    PROVE  SessionInv'
<1>. USE DEF SEND, LOGOUT, GET_USERS, CREATE_CHANNEL, JOIN_CHANNEL, LEAVE_CHANNEL,
             LOGIN, FAILED
<1>1. client \in Seq(Nodes) /\ TypeOK
  BY DEF SessionInv, TypeOK, ServerTypeOK
<1>2. outbox = <<>> /\ UNCHANGED <<toClient, lossy, is_logged_in>>
  BY DEF VisitNothing, ServeSend, ServeLogout, ServeGetUsers, ServeCreate,
         ServeJoin, ServeLeave, ServeLogin, Serve, Visit, ServerRead, wireVars
<1>3. ASSUME outbox' = <<>> PROVE OutboxMatchesList'
  BY <1>3 DEF OutboxMatchesList
<1>4. ASSUME UNCHANGED client
      PROVE  \A g \in Fds : LoggedIn(client', g) => LoggedIn(client, g)
  BY <1>4
<1>5. CASE VisitNothing(fd)
  <2>1. UNCHANGED client /\ outbox' = <<>>
    BY <1>2, <1>5 DEF VisitNothing
  <2>. QED
    BY <1>2, <1>3, <1>4, <2>1, HandlerKeeps
<1>6. CASE ServeSend(fd)
  <2>. DEFINE to == Listeners(client, Packet(fd).chan, fd)
  <2>1. /\ outbox' = [i \in DOMAIN to |->
                        [to |-> to[i].fd,
                         reply |-> [code |-> SEND, chan |-> Packet(fd).chan, from |-> fd]]]
        /\ UNCHANGED client
    BY <1>6 DEF ServeSend
  <2>2. \A i \in DOMAIN to : LoggedIn(client, to[i].fd)
    BY <1>1, ListenersLemma
  <2>. HIDE DEF to
  <2>3. /\ DOMAIN outbox' = DOMAIN to
        /\ \A i \in DOMAIN to : outbox'[i].to = to[i].fd /\ outbox'[i].reply.code = SEND
    BY <2>1
  <2>4. OutboxMatchesList'
    BY <2>1, <2>2, <2>3 DEF OutboxMatchesList
  <2>. QED
    BY <1>2, <1>4, <2>1, <2>4, HandlerKeeps
<1>7. CASE ServeLogout(fd)
  <2>1. client' = DeleteClient(client, -1, fd) /\ Answer(fd, Reply(LOGOUT))
    BY <1>7 DEF ServeLogout
  <2>2. /\ ~ LoggedIn(client', fd)
        /\ \A g \in Fds : LoggedIn(client', g) => LoggedIn(client, g)
    BY <1>1, <2>1, DeleteLemma
  <2>3. OutboxMatchesList'
    BY <2>1, <2>2, AnswerMatches, ReplyCode DEF Answer
  <2>. QED
    BY <1>2, <2>2, <2>3, HandlerKeeps
<1>8. CASE ServeGetUsers(fd)
  <2>. DEFINE reply == [code |-> GET_USERS, users |-> UsersOf(client, Packet(fd).chan)]
  <2>1. outbox' = <<[to |-> fd, reply |-> reply]>> /\ UNCHANGED client
    BY <1>8 DEF ServeGetUsers, Answer
  <2>2. reply.code = GET_USERS
    OBVIOUS
  <2>. HIDE DEF reply
  <2>3. OutboxMatchesList'
    BY <2>1, <2>2, AnswerMatches
  <2>. QED
    BY <1>2, <1>4, <2>1, <2>3, HandlerKeeps
<1>9. CASE ServeCreate(fd)
  <2>1. CASE NullHead
    BY <1>2, <1>3, <1>4, <2>1, HandlerKeeps DEF NullHead
  <2>2. CASE Answer(fd, Reply(FAILED)) /\ UNCHANGED client
    <3>1. OutboxMatchesList'
      BY <2>2, AnswerMatches, ReplyCode DEF Answer
    <3>. QED
      BY <1>2, <1>4, <2>2, <3>1, HandlerKeeps
  <2>3. CASE /\ LoggedIn(client, fd)
             /\ client' = CreateNodes(client, channelId', fd, Packet(fd).list)
             /\ Answer(fd, Reply(CREATE_CHANNEL))
    <3>1. Packet(fd).list \in Seq(Int) /\ channelId' \in Chans
      <4>1. Packet(fd) \in Requests
        BY <1>1, <1>9, ServeType DEF ServeCreate, TypeOK
      <4>. QED
        BY <4>1 DEF Requests, TypeOK, ServerTypeOK
    <3>2. \A g \in Fds : LoggedIn(client', g) => LoggedIn(client, g)
      BY <1>1, <2>3, <3>1, CreateLemma
    <3>3. OutboxMatchesList'
      BY <2>3, AnswerMatches, ReplyCode DEF Answer
    <3>. QED
      BY <1>2, <3>2, <3>3, HandlerKeeps
  <2>. QED
    BY <1>9, <2>1, <2>2, <2>3 DEF ServeCreate
<1>10. CASE ServeJoin(fd)
  <2>1. CASE NullHead
    BY <1>2, <1>3, <1>4, <2>1, HandlerKeeps DEF NullHead
  <2>2. CASE Answer(fd, Reply(FAILED)) /\ UNCHANGED client
    <3>1. OutboxMatchesList'
      BY <2>2, AnswerMatches, ReplyCode DEF Answer
    <3>. QED
      BY <1>2, <1>4, <2>2, <3>1, HandlerKeeps
  <2>3. CASE /\ LoggedIn(client, fd)
             /\ client' = Push(client, Packet(fd).chan, fd, client[1].name)
             /\ Answer(fd, Reply(JOIN_CHANNEL))
    <3>1. Packet(fd).chan \in Chans
      <4>1. Packet(fd) \in Requests
        BY <1>1, <1>10, ServeType DEF ServeJoin, TypeOK
      <4>. QED
        BY <4>1 DEF Requests
    <3>2. client[1].name \in Fds
      <4>1. client[1] \in Nodes
        BY <1>1, <2>3 DEF LoggedIn
      <4>. QED
        BY <4>1 DEF Nodes
    <3>3. \A g \in Fds : LoggedIn(client', g) => LoggedIn(client, g)
      BY <1>1, <2>3, <3>1, <3>2, PushLemma
    <3>4. OutboxMatchesList'
      BY <2>3, AnswerMatches, ReplyCode DEF Answer
    <3>. QED
      BY <1>2, <3>3, <3>4, HandlerKeeps
  <2>. QED
    BY <1>10, <2>1, <2>2, <2>3 DEF ServeJoin
<1>11. CASE ServeLeave(fd)
  <2>1. \A g \in Fds : LoggedIn(client', g) => LoggedIn(client, g)
    BY <1>1, <1>11, DeleteLemma DEF ServeLeave
  <2>2. OutboxMatchesList'
    BY <1>11, AnswerMatches, ReplyCode DEF ServeLeave, Answer
  <2>. QED
    BY <1>2, <2>1, <2>2, HandlerKeeps
<1>12. CASE ServeLogin(fd)
  <2>1. CASE Answer(fd, Reply(FAILED)) /\ UNCHANGED client
    <3>1. OutboxMatchesList'
      BY <2>1, AnswerMatches, ReplyCode DEF Answer
    <3>. QED
      BY <1>2, <1>4, <2>1, <3>1, HandlerKeeps
  <2>2. CASE client' = Push(client, 0, fd, fd) /\ Answer(fd, Reply(LOGIN))
    <3>1. OutboxMatchesList' /\ LoginOwed(fd)'
      BY <2>2, AnswerMatches, ReplyCode DEF Answer
    <3>2. 0 \in Chans
      BY ChanModAssumption DEF Chans
    <3>3. \A g \in Fds : LoggedIn(client', g) => LoggedIn(client, g) \/ LoginOwed(g)'
      BY <1>1, <2>2, <3>1, <3>2, PushLemma
    <3>. QED
      BY <1>2, <3>1, <3>3, HandlerKeeps
  <2>. QED
    BY <1>12, <2>1, <2>2 DEF ServeLogin
<1>. QED
  BY <1>5, <1>6, <1>7, <1>8, <1>9, <1>10, <1>11, <1>12

-------------------------------------------------------------------------------
(* Queues that grow and shrink *)

\* Appending a reply changes nothing for the replies before it; after it the
\* client is logged in if it was and the reply is not LOGOUT, or if the reply
\* is LOGIN.
LEMMA AppendedQueue ==
    ASSUME NEW q \in Seq(Replies), NEW reply, NEW now
    PROVE  /\ \A n \in 0 .. Len(q) :
                 LoggedInAfter(q, now, n) => LoggedInAfter(Append(q, reply), now, n)
           /\ LoggedInAfter(q, now, Len(q)) /\ reply.code # LOGOUT
                 => LoggedInAfter(Append(q, reply), now, Len(q) + 1)
           /\ reply.code = LOGIN => LoggedInAfter(Append(q, reply), now, Len(q) + 1)
<1>. DEFINE r == Append(q, reply)
            m == Len(q)
<1>1. /\ m \in Nat /\ r[m + 1] = reply
      /\ \A i \in 1 .. m : r[i] = q[i]
  OBVIOUS
<1>. HIDE DEF r, m
<1>2. ASSUME NEW n \in 0 .. m, LoggedInAfter(q, now, n) PROVE LoggedInAfter(r, now, n)
  <2>1. \A i \in 1 .. n : r[i] = q[i]
    BY <1>1
  <2>2. \A i \in 1 .. n : \A j \in i + 1 .. n : r[j] = q[j]
    BY <1>1
  <2>. QED
    BY <1>2, <2>1, <2>2 DEF LoggedInAfter
<1>3. ASSUME LoggedInAfter(q, now, m), reply.code # LOGOUT
      PROVE  LoggedInAfter(r, now, m + 1)
  <2>1. CASE \E i \in 1 .. m : /\ q[i].code = LOGIN
                               /\ \A j \in i + 1 .. m : q[j].code # LOGOUT
    <3>1. PICK i \in 1 .. m : /\ q[i].code = LOGIN
                              /\ \A j \in i + 1 .. m : q[j].code # LOGOUT
      BY <2>1
    <3>2. \A j \in i + 1 .. m + 1 : (j \in i + 1 .. m /\ r[j] = q[j]) \/ j = m + 1
      BY <1>1
    <3>3. i \in 1 .. m + 1 /\ r[i].code = LOGIN
      BY <1>1, <3>1
    <3>. QED
      BY <1>1, <1>3, <3>1, <3>2, <3>3 DEF LoggedInAfter
  <2>2. CASE now /\ \A j \in 1 .. m : q[j].code # LOGOUT
    <3>1. \A j \in 1 .. m + 1 : (j \in 1 .. m /\ r[j] = q[j]) \/ j = m + 1
      BY <1>1
    <3>2. \A j \in 1 .. m + 1 : r[j].code # LOGOUT
      BY <1>1, <1>3, <2>2, <3>1
    <3>. QED
      BY <2>2, <3>2 DEF LoggedInAfter
  <2>. QED
    BY <1>3, <2>1, <2>2 DEF LoggedInAfter
<1>4. ASSUME reply.code = LOGIN PROVE LoggedInAfter(r, now, m + 1)
  <2>1. m + 1 \in 1 .. m + 1 /\ \A j \in (m + 1) + 1 .. m + 1 : FALSE
    BY <1>1
  <2>. QED
    BY <1>1, <1>4, <2>1 DEF LoggedInAfter
<1>. QED
  BY <1>2, <1>3, <1>4 DEF r, m

\* Processing the first reply of a queue and looking at the rest is looking at
\* the whole queue.
LEMMA ShiftedQueue ==
    ASSUME NEW q \in Seq(Replies), q # <<>>, NEW now, NEW next, NEW n \in Nat,
           n + 1 <= Len(q),
           q[1].code = LOGIN => next,
           now /\ q[1].code # LOGOUT => next,
           LoggedInAfter(q, now, n + 1)
    PROVE  LoggedInAfter(SubSeq(q, 2, Len(q)), next, n)
<1>. DEFINE r == SubSeq(q, 2, Len(q))
<1>1. \A i \in 1 .. n : r[i] = q[i + 1]
  OBVIOUS
<1>. SUFFICES LoggedInAfter(r, next, n)
  OBVIOUS
<1>. HIDE DEF r
<1>2. CASE \E i \in 1 .. n + 1 : /\ q[i].code = LOGIN
                                 /\ \A j \in i + 1 .. n + 1 : q[j].code # LOGOUT
  <2>1. PICK i \in 1 .. n + 1 : /\ q[i].code = LOGIN
                                /\ \A j \in i + 1 .. n + 1 : q[j].code # LOGOUT
    BY <1>2
  <2>2. CASE i = 1
    <3>1. \A j \in 1 .. n : j + 1 \in i + 1 .. n + 1
      BY <2>2
    <3>2. \A j \in 1 .. n : r[j].code # LOGOUT
      BY <1>1, <2>1, <3>1
    <3>. QED
      BY <2>1, <2>2, <3>2 DEF LoggedInAfter
  <2>3. CASE i # 1
    <3>1. i - 1 \in 1 .. n /\ (i - 1) + 1 = i
      BY <2>3
    <3>2. r[i - 1].code = LOGIN
      BY <1>1, <2>1, <3>1
    <3>3. \A j \in (i - 1) + 1 .. n : j \in 1 .. n /\ j + 1 \in i + 1 .. n + 1
      BY <2>3
    <3>4. \A j \in (i - 1) + 1 .. n : r[j].code # LOGOUT
      BY <1>1, <2>1, <3>3
    <3>5. \E k \in 1 .. n : r[k].code = LOGIN /\ \A j \in k + 1 .. n : r[j].code # LOGOUT
      BY <3>1, <3>2, <3>4
    <3>. QED
      BY <3>5 DEF LoggedInAfter
  <2>. QED
    BY <2>2, <2>3
<1>3. CASE now /\ \A j \in 1 .. n + 1 : q[j].code # LOGOUT
  <2>1. 1 \in 1 .. n + 1 /\ \A j \in 1 .. n : j + 1 \in 1 .. n + 1
    OBVIOUS
  <2>2. next /\ \A j \in 1 .. n : r[j].code # LOGOUT
    BY <1>1, <1>3, <2>1
  <2>. QED
    BY <2>2 DEF LoggedInAfter
<1>. QED
  BY <1>2, <1>3 DEF LoggedInAfter

-------------------------------------------------------------------------------
(* A send *)

\* The head of the outbox is queued on its connection, or discarded.
LEMMA SendKeeps ==
    ASSUME SessionInv, TypeOK', UNCHANGED is_logged_in, SendResponse
    PROVE  SessionInv'
<1>0. PICK fd, reply : fd = Head(outbox).to /\ reply = Head(outbox).reply
  OBVIOUS
<1>1. /\ outbox \in Seq(Outgoing) /\ outbox # <<>> /\ UNCHANGED client /\ TypeOK
      /\ fd \in Fds /\ fd = outbox[1].to /\ reply = outbox[1].reply
  <2>1. outbox \in Seq(Outgoing) /\ outbox # <<>>
    BY DEF SessionInv, TypeOK, ServerTypeOK, SendResponse
  <2>2. Head(outbox) = outbox[1] /\ Head(outbox) \in Outgoing
    BY <2>1
  <2>. QED
    BY <1>0, <2>1, <2>2 DEF SessionInv, SendResponse, Outgoing
<1>2. CASE pc' = "sigpipe" /\ UNCHANGED <<outbox, wireVars>>
  <2>1. UNCHANGED <<toClient, lossy, outbox, client, is_logged_in>>
    BY <1>1, <1>2 DEF wireVars
  <2>. QED
    BY <2>1 DEF SessionInv, OutboxMatchesList, LoginAgreement, LoginOwed,
                ChatOnlyWhileLoggedIn
<1>3. CASE ServerSend(fd, reply) /\ outbox' = Tail(outbox)
  <2>1. /\ \A i \in DOMAIN outbox' : i + 1 \in DOMAIN outbox /\ outbox'[i] = outbox[i + 1]
        /\ \A i \in DOMAIN outbox : i # 1 => i - 1 \in DOMAIN outbox'
                                             /\ outbox'[i - 1] = outbox[i]
        /\ 1 \in DOMAIN outbox
    BY <1>1, <1>3
  <2>2. OutboxMatchesList'
    BY <1>1, <2>1 DEF SessionInv, OutboxMatchesList
  <2>3. \A g \in Fds : LoginOwed(g) => LoginOwed(g)' \/ (g = fd /\ reply.code = LOGIN)
    BY <1>1, <2>1 DEF LoginOwed
  <2>4. CASE lossy' = lossy \cup {fd} /\ UNCHANGED toClient
    <3>1. LoginAgreement'
      <4>. SUFFICES ASSUME NEW g \in Fds \ lossy', LoggedIn(client', g)
                    PROVE  \/ LoggedInAfter(toClient'[g], is_logged_in'[g], Len(toClient'[g]))
                           \/ LoginOwed(g)'
        BY DEF LoginAgreement
      <4>1. g \in Fds \ lossy /\ g # fd /\ LoggedIn(client, g)
        BY <1>1, <2>4
      <4>2. \/ LoggedInAfter(toClient[g], is_logged_in[g], Len(toClient[g]))
            \/ LoginOwed(g)
        BY <4>1 DEF SessionInv, LoginAgreement
      <4>. QED
        BY <2>3, <2>4, <4>1, <4>2
    <3>2. ChatOnlyWhileLoggedIn'
      BY <2>4 DEF SessionInv, ChatOnlyWhileLoggedIn
    <3>. QED
      BY <2>2, <3>1, <3>2 DEF SessionInv
  <2>5. CASE /\ toClient' = [toClient EXCEPT ![fd] = Append(@, reply)]
             /\ UNCHANGED lossy
    <3>1. PICK q, now : q = toClient[fd] /\ now = is_logged_in[fd]
      OBVIOUS
    <3>2. /\ q \in Seq(Replies) /\ toClient'[fd] = Append(q, reply)
          /\ is_logged_in'[fd] = now
          /\ \A g \in Fds : g # fd => toClient'[g] = toClient[g]
      BY <1>1, <2>5, <3>1 DEF TypeOK, WireTypeOK
    <3>3. /\ \A n \in 0 .. Len(q) :
                LoggedInAfter(q, now, n) => LoggedInAfter(Append(q, reply), now, n)
          /\ LoggedInAfter(q, now, Len(q)) /\ reply.code # LOGOUT
                => LoggedInAfter(Append(q, reply), now, Len(q) + 1)
          /\ reply.code = LOGIN => LoggedInAfter(Append(q, reply), now, Len(q) + 1)
      BY <3>2, AppendedQueue
    <3>4. /\ Len(q) \in Nat /\ Len(Append(q, reply)) = Len(q) + 1
          /\ DOMAIN q = 1 .. Len(q) /\ DOMAIN Append(q, reply) = 1 .. Len(q) + 1
          /\ \A i \in 1 .. Len(q) : Append(q, reply)[i] = q[i]
          /\ Append(q, reply)[Len(q) + 1] = reply
      BY <3>2
    <3>5. LoginAgreement'
      <4>. SUFFICES ASSUME NEW g \in Fds \ lossy', LoggedIn(client', g)
                    PROVE  \/ LoggedInAfter(toClient'[g], is_logged_in'[g], Len(toClient'[g]))
                           \/ LoginOwed(g)'
        BY DEF LoginAgreement
      <4>1. g \in Fds \ lossy /\ LoggedIn(client, g)
        BY <1>1, <2>5
      <4>2. \/ LoggedInAfter(toClient[g], is_logged_in[g], Len(toClient[g]))
            \/ LoginOwed(g)
        BY <4>1 DEF SessionInv, LoginAgreement
      <4>3. CASE g # fd
        BY <2>3, <3>2, <4>2, <4>3
      <4>4. CASE g = fd
        <5>1. reply.code # LOGOUT
          BY <1>1, <2>1, <4>1, <4>4 DEF SessionInv, OutboxMatchesList
        <5>. QED
          BY <2>3, <3>1, <3>2, <3>3, <3>4, <4>2, <4>4, <5>1
      <4>. QED
        BY <4>3, <4>4
    <3>6. ChatOnlyWhileLoggedIn'
      <4>. SUFFICES ASSUME NEW g \in Fds \ lossy', NEW i \in DOMAIN toClient'[g],
                           toClient'[g][i].code = SEND
                    PROVE  LoggedInAfter(toClient'[g], is_logged_in'[g], i - 1)
        BY DEF ChatOnlyWhileLoggedIn
      <4>1. g \in Fds \ lossy
        BY <2>5
      <4>2. CASE g # fd
        BY <3>2, <4>1, <4>2 DEF SessionInv, ChatOnlyWhileLoggedIn
      <4>3. CASE g = fd /\ i \in 1 .. Len(q)
        <5>1. LoggedInAfter(q, now, i - 1)
          BY <3>1, <3>2, <3>4, <4>1, <4>3 DEF SessionInv, ChatOnlyWhileLoggedIn
        <5>2. i - 1 \in 0 .. Len(q)
          BY <3>4, <4>3
        <5>. QED
          BY <3>2, <3>3, <4>3, <5>1, <5>2
      <4>4. CASE g = fd /\ i = Len(q) + 1
        <5>1. outbox[1].reply.code = SEND /\ outbox[1].to = fd
          BY <1>1, <3>2, <3>4, <4>4
        <5>2. LoggedIn(client, fd) /\ ~ LoginOwed(fd)
          BY <2>1, <5>1 DEF SessionInv, OutboxMatchesList, LoginOwed, SEND, LOGIN
        <5>3. LoggedInAfter(q, now, Len(q))
          BY <3>1, <4>1, <4>4, <5>2 DEF SessionInv, LoginAgreement
        <5>4. Len(q) \in 0 .. Len(q) /\ i - 1 = Len(q)
          BY <3>4, <4>4
        <5>. QED
          BY <3>2, <3>3, <4>4, <5>3, <5>4
      <4>5. i \in 1 .. Len(q) \/ i = Len(q) + 1 \/ g # fd
        BY <3>2, <3>4
      <4>. QED
        BY <4>2, <4>3, <4>4, <4>5
    <3>. QED
      BY <2>2, <3>5, <3>6 DEF SessionInv
  <2>. QED
    BY <1>3, <2>4, <2>5 DEF ServerSend
<1>. QED
  BY <1>0, <1>2, <1>3 DEF SendResponse

-------------------------------------------------------------------------------
(* Steps of the clients, and the theorem *)

\* What is left of a queue when its first element is read.
LEMMA TailLemma ==
    ASSUME NEW q \in Seq(Replies), q # <<>>
    PROVE  /\ Len(q) \in Nat /\ Len(q) >= 1 /\ DOMAIN q = 1 .. Len(q)
           /\ SubSeq(q, 2, Len(q)) \in Seq(Replies)
           /\ Len(SubSeq(q, 2, Len(q))) = Len(q) - 1
           /\ DOMAIN SubSeq(q, 2, Len(q)) = 1 .. Len(q) - 1
           /\ \A i \in 1 .. Len(q) - 1 : SubSeq(q, 2, Len(q))[i] = q[i + 1]
<1>1. Len(q) \in Nat /\ DOMAIN q = 1 .. Len(q)
  OBVIOUS
<1>2. Len(q) >= 1
  BY <1>1
<1>3. \A i \in 2 .. Len(q) : q[i] \in Replies
  BY <1>1
<1>4. SubSeq(q, 2, Len(q)) \in Seq(Replies)
  BY <1>1, <1>2, <1>3
<1>5. Len(SubSeq(q, 2, Len(q))) = Len(q) - 1
  BY <1>1, <1>2
<1>6. DOMAIN SubSeq(q, 2, Len(q)) = 1 .. Len(q) - 1
  BY <1>4, <1>5
<1>7. ASSUME NEW i \in 1 .. Len(q) - 1 PROVE SubSeq(q, 2, Len(q))[i] = q[i + 1]
  BY <1>1, <1>2
<1>. QED
  BY <1>1, <1>2, <1>4, <1>5, <1>6, <1>7

\* A client reads: the first reply takes effect; had there been more in what
\* it read, they are discarded and the connection becomes lossy.
LEMMA ReceiveKeeps ==
    ASSUME SessionInv, TypeOK', NEW fd \in Fds, Receive(fd), UNCHANGED <<client, outbox>>
    PROVE  SessionInv'
<1>1. PICK q, now, next : q = toClient[fd] /\ now = is_logged_in[fd]
                          /\ next = is_logged_in'[fd]
  OBVIOUS
<1>2. PICK k \in 1 .. Len(q) :
        /\ toClient' = [toClient EXCEPT ![fd] = SubSeq(@, k + 1, Len(@))]
        /\ lossy' = IF k = 1 THEN lossy ELSE lossy \cup {fd}
  BY <1>1 DEF Receive, ClientRead
<1>3. /\ q \in Seq(Replies) /\ q # <<>>
      /\ \A g \in Fds : g # fd => toClient'[g] = toClient[g]
                                  /\ is_logged_in'[g] = is_logged_in[g]
      /\ toClient'[fd] = SubSeq(q, k + 1, Len(q))
  BY <1>1, <1>2 DEF SessionInv, TypeOK, WireTypeOK, ClientTypeOK, Receive, ProcessResponse
<1>4. /\ q[1].code = LOGIN => next
      /\ now /\ q[1].code # LOGOUT => next
  <2>1. Head(q) = q[1]
    BY <1>3
  <2>2. next = IF q[1].code = LOGIN THEN TRUE ELSE IF q[1].code = LOGOUT THEN FALSE ELSE now
    BY <1>1, <2>1 DEF SessionInv, TypeOK, ClientTypeOK, Receive, ProcessResponse
  <2>. QED
    BY <2>2
<1>5. /\ Len(q) \in Nat /\ Len(q) >= 1 /\ DOMAIN q = 1 .. Len(q)
      /\ SubSeq(q, 2, Len(q)) \in Seq(Replies)
      /\ Len(SubSeq(q, 2, Len(q))) = Len(q) - 1
      /\ DOMAIN SubSeq(q, 2, Len(q)) = 1 .. Len(q) - 1
      /\ \A i \in 1 .. Len(q) - 1 : SubSeq(q, 2, Len(q))[i] = q[i + 1]
  BY <1>3, TailLemma
<1>6. ASSUME k = 1, NEW m \in 1 .. Len(q), LoggedInAfter(q, now, m)
      PROVE  LoggedInAfter(toClient'[fd], is_logged_in'[fd], m - 1)
  <2>1. m - 1 \in Nat /\ m = (m - 1) + 1 /\ (m - 1) + 1 <= Len(q)
    BY <1>5
  <2>2. LoggedInAfter(q, now, (m - 1) + 1)
    BY <1>6, <2>1
  <2>3. LoggedInAfter(SubSeq(q, 2, Len(q)), next, m - 1)
    BY <1>3, <1>4, <2>1, <2>2, ShiftedQueue
  <2>. QED
    BY <1>1, <1>3, <1>6, <2>3
<1>7. OutboxMatchesList'
  BY DEF SessionInv, OutboxMatchesList
<1>8. \A g \in Fds : LoginOwed(g) => LoginOwed(g)'
  BY DEF LoginOwed
<1>9. LoginAgreement'
  <2>. SUFFICES ASSUME NEW g \in Fds \ lossy', LoggedIn(client', g)
                PROVE  \/ LoggedInAfter(toClient'[g], is_logged_in'[g], Len(toClient'[g]))
                       \/ LoginOwed(g)'
    BY DEF LoginAgreement
  <2>1. g \in Fds \ lossy /\ (g = fd => k = 1)
    BY <1>2
  <2>2. \/ LoggedInAfter(toClient[g], is_logged_in[g], Len(toClient[g]))
        \/ LoginOwed(g)
    BY <2>1 DEF SessionInv, LoginAgreement
  <2>3. CASE g # fd
    BY <1>3, <1>8, <2>2, <2>3
  <2>4. CASE g = fd
    <3>1. toClient'[fd] = SubSeq(q, 2, Len(q))
      BY <1>3, <2>1, <2>4
    <3>2. Len(q) \in 1 .. Len(q) /\ Len(toClient'[fd]) = Len(q) - 1
      BY <1>5, <3>1
    <3>3. LoggedInAfter(q, now, Len(q)) =>
            LoggedInAfter(toClient'[fd], is_logged_in'[fd], Len(q) - 1)
      BY <1>6, <2>1, <2>4, <3>2
    <3>. QED
      BY <1>1, <1>8, <2>2, <2>4, <3>2, <3>3
  <2>. QED
    BY <2>3, <2>4
<1>10. ChatOnlyWhileLoggedIn'
  <2>. SUFFICES ASSUME NEW g \in Fds \ lossy', NEW i \in DOMAIN toClient'[g],
                       toClient'[g][i].code = SEND
                PROVE  LoggedInAfter(toClient'[g], is_logged_in'[g], i - 1)
    BY DEF ChatOnlyWhileLoggedIn
  <2>1. g \in Fds \ lossy /\ (g = fd => k = 1)
    BY <1>2
  <2>2. CASE g # fd
    BY <1>3, <2>1, <2>2 DEF SessionInv, ChatOnlyWhileLoggedIn
  <2>3. CASE g = fd
    <3>1. toClient'[fd] = SubSeq(q, 2, Len(q))
      BY <1>3, <2>1, <2>3
    <3>2. i \in 1 .. Len(q) - 1 /\ SubSeq(q, 2, Len(q))[i].code = SEND
      BY <1>5, <2>3, <3>1
    <3>3. i + 1 \in DOMAIN q /\ q[i + 1].code = SEND
      BY <1>5, <3>2
    <3>4. i \in 1 .. Len(q) /\ (i + 1) - 1 = i
      BY <1>5, <3>2
    <3>5. LoggedInAfter(q, now, (i + 1) - 1)
      BY <1>1, <2>1, <2>3, <3>3 DEF SessionInv, ChatOnlyWhileLoggedIn
    <3>6. LoggedInAfter(toClient'[fd], is_logged_in'[fd], i - 1)
      BY <1>6, <2>1, <2>3, <3>4, <3>5
    <3>. QED
      BY <2>3, <3>6
  <2>. QED
    BY <2>2, <2>3
<1>. QED
  BY <1>7, <1>9, <1>10 DEF SessionInv

\* A client that ends is not followed any further.
LEMMA ExitKeeps ==
    ASSUME SessionInv, TypeOK', NEW fd \in Fds, Exit(fd), UNCHANGED <<client, outbox>>
    PROVE  SessionInv'
<1>1. lossy' = lossy \cup {fd}
  BY DEF Exit, ClientClose
<1>2. \A g \in Fds \ lossy' : /\ g \in Fds \ lossy
                              /\ toClient'[g] = toClient[g]
                              /\ is_logged_in'[g] = is_logged_in[g]
  BY <1>1 DEF SessionInv, TypeOK, WireTypeOK, ClientTypeOK, Exit, ClientClose
<1>. QED
  BY <1>2 DEF SessionInv, OutboxMatchesList, LoginAgreement, LoginOwed,
              ChatOnlyWhileLoggedIn

\* Steps that touch nothing SessionInv speaks of.
LEMMA StutterKeeps ==
    ASSUME SessionInv, TypeOK', UNCHANGED <<toClient, lossy, is_logged_in, client, outbox>>
    PROVE  SessionInv'
BY DEF SessionInv, OutboxMatchesList, LoginAgreement, LoginOwed, ChatOnlyWhileLoggedIn

LEMMA SessionNext == SessionInv /\ [Next]_vars => SessionInv'
<1>. SUFFICES ASSUME SessionInv, [Next]_vars PROVE SessionInv'
  OBVIOUS
<1>1. TypeOK'
  BY TypeNext DEF SessionInv
<1>2. ASSUME UNCHANGED clientVars PROVE UNCHANGED is_logged_in
  BY <1>2 DEF clientVars, stateVars
<1>3. ASSUME UNCHANGED <<serverVars, backlog>> PROVE UNCHANGED <<client, outbox>>
  BY <1>3 DEF serverVars
<1>4. ASSUME NEW fd \in Fds, Connect(fd), UNCHANGED clientVars PROVE SessionInv'
  BY <1>1, <1>2, <1>4, StutterKeeps DEF Connect, serverVars
<1>5. CASE ServerStep /\ UNCHANGED clientVars
  <2>1. CASE AcceptConnection
    BY <1>1, <1>2, <1>5, <2>1, StutterKeeps DEF AcceptConnection
  <2>2. CASE Select
    BY <1>1, <1>2, <1>5, <2>2, StutterKeeps DEF Select, wireVars
  <2>3. CASE SendResponse
    BY <1>1, <1>2, <1>5, <2>3, SendKeeps
  <2>4. ASSUME NEW fd \in Fds,
               \/ VisitNothing(fd) \/ ServeSend(fd) \/ ServeLogout(fd)
               \/ ServeGetUsers(fd) \/ ServeCreate(fd) \/ ServeJoin(fd)
               \/ ServeLeave(fd) \/ ServeLogin(fd)
        PROVE  SessionInv'
    BY <1>1, <1>2, <1>5, <2>4, ServeKeeps
  <2>. QED
    BY <1>5, <2>1, <2>2, <2>3, <2>4 DEF ServerStep
<1>6. CASE AcceptFails /\ UNCHANGED clientVars
  BY <1>1, <1>2, <1>6, StutterKeeps DEF AcceptFails, wireVars
<1>7. ASSUME NEW fd \in Fds, Keyboard(fd), UNCHANGED <<serverVars, backlog>>
      PROVE  SessionInv'
  <2>1. UNCHANGED <<toClient, lossy, is_logged_in>>
    BY <1>7 DEF Keyboard, TypeLogin, TypeMessage, TypeLogout, TypeUsers, TypeCreate,
                TypeJoin, TypeLeave, Type, ClientSend, stateVars
  <2>. QED
    BY <1>1, <1>3, <1>7, <2>1, StutterKeeps
<1>8. ASSUME NEW fd \in Fds, Exit(fd), UNCHANGED <<serverVars, backlog>>
      PROVE  SessionInv'
  BY <1>1, <1>3, <1>8, ExitKeeps
<1>9. ASSUME NEW fd \in Fds, Receive(fd), UNCHANGED <<serverVars, backlog>>
      PROVE  SessionInv'
  BY <1>1, <1>3, <1>9, ReceiveKeeps
<1>10. CASE UNCHANGED vars
  BY <1>1, <1>10, StutterKeeps DEF vars, wireVars, serverVars, clientVars, stateVars
<1>. QED
  BY <1>4, <1>5, <1>6, <1>7, <1>8, <1>9, <1>10 DEF Next

LEMMA SessionInvariance == Spec => []SessionInv
BY SessionInit, SessionNext, PTL DEF Spec

\* A reply waiting to be sent agrees with the list of registrations.
THEOREM OutboxCorrect == Spec => []OutboxMatchesList
<1>1. SessionInv => OutboxMatchesList
  BY DEF SessionInv
<1>. QED
  BY <1>1, SessionInvariance, PTL

\* A client the server has registrations for is logged in at its own end, or
\* will be once it has read its replies, unless one of them was discarded.
THEOREM AgreementCorrect == Spec => []LoginAgreement
<1>1. SessionInv => LoginAgreement
  BY DEF SessionInv
<1>. QED
  BY <1>1, SessionInvariance, PTL

\* A client reads a relayed message only while it is logged in, unless one of
\* its replies was discarded.
THEOREM ChatCorrect == Spec => []ChatOnlyWhileLoggedIn
<1>1. SessionInv => ChatOnlyWhileLoggedIn
  BY DEF SessionInv
<1>. QED
  BY <1>1, SessionInvariance, PTL
===============================================================================
