--------------------------- MODULE ChatClientProofs ---------------------------
(***************************************************************************)
(* What the clients and the calls on the sockets keep, whichever server is *)
(* at the other end.                                                       *)
(***************************************************************************)
EXTENDS ChatClient, ClientListProofs

\* The conversion to uint16_t yields a channel.
LEMMA ToChanType == \A n \in Int : ToChan(n) \in Chans
BY ChanModAssumption DEF ToChan, Chans

-------------------------------------------------------------------------------
(* Type correctness of the calls on the sockets *)

LEMMA ClientSendType ==
    ASSUME WireTypeOK, NEW fd \in Fds, NEW request \in Requests, ClientSend(fd, request)
    PROVE  WireTypeOK'
<1>1. Append(toServer[fd], request) \in Seq(Requests)
  BY DEF WireTypeOK
<1>. QED
  BY <1>1 DEF WireTypeOK, ClientSend

LEMMA ClientReadType ==
    ASSUME WireTypeOK, NEW fd \in Fds, ClientRead(fd)
    PROVE  WireTypeOK'
<1>1. PICK k \in 1 .. Len(toClient[fd]) :
        toClient' = [toClient EXCEPT ![fd] = SubSeq(@, k + 1, Len(@))]
  BY DEF ClientRead
<1>2. SubSeq(toClient[fd], k + 1, Len(toClient[fd])) \in Seq(Replies)
  BY DEF WireTypeOK
<1>. QED
  BY <1>1, <1>2 DEF WireTypeOK, ClientRead

LEMMA ClientCloseType ==
    ASSUME WireTypeOK, NEW fd \in Fds, ClientClose(fd)
    PROVE  WireTypeOK'
BY DEF WireTypeOK, ClientClose, PeerStates

LEMMA ServerReadType ==
    ASSUME WireTypeOK, NEW fd \in Fds, ServerRead(fd)
    PROVE  WireTypeOK'
<1>1. PICK k \in 1 .. Len(toServer[fd]) :
        toServer' = [toServer EXCEPT ![fd] = SubSeq(@, k + 1, Len(@))]
  BY DEF ServerRead
<1>2. SubSeq(toServer[fd], k + 1, Len(toServer[fd])) \in Seq(Requests)
  BY DEF WireTypeOK
<1>. QED
  BY <1>1, <1>2 DEF WireTypeOK, ServerRead

LEMMA ServerSendType ==
    ASSUME WireTypeOK, NEW fd \in Fds, NEW reply \in Replies, ServerSend(fd, reply)
    PROVE  WireTypeOK'
<1>1. Append(toClient[fd], reply) \in Seq(Replies)
  BY DEF WireTypeOK
<1>. QED
  BY <1>1 DEF WireTypeOK, ServerSend, PeerStates

\* The replies that carry no data.
LEMMA ReplyType ==
    \A code \in {LOGOUT, CREATE_CHANNEL, JOIN_CHANNEL, LEAVE_CHANNEL, LOGIN, FAILED} :
        Reply(code) \in Replies
BY DEF Reply, Replies

-------------------------------------------------------------------------------
(* Type correctness of the clients *)

LEMMA TypeType ==
    ASSUME WireTypeOK, ClientTypeOK, NEW fd \in Fds, NEW cmd, NEW chan \in Chans,
           NEW list \in Seq(Int), Type(fd, cmd, chan, list)
    PROVE  WireTypeOK' /\ counted' \in Nat
<1>1. Request(cmd, chan, list) \in Requests
  BY CommandsAssumption DEF Type, Request, Requests
<1>2. WireTypeOK'
  BY <1>1, ClientSendType DEF Type
<1>. QED
  BY <1>2 DEF Type, ClientTypeOK

LEMMA KeyboardType ==
    ASSUME WireTypeOK, ClientTypeOK, NEW fd \in Fds, Keyboard(fd)
    PROVE  WireTypeOK' /\ ClientTypeOK'
<1>1. 0 \in Chans /\ <<>> \in Seq(Int)
  BY ChanModAssumption DEF Chans
<1>2. current_channel[fd] \in Int
  BY DEF ClientTypeOK
<1>3. \A arg \in ChanArgs : arg \in Int /\ ToChan(arg) \in Chans
  BY ArgsAssumption, ToChanType
<1>4. CASE TypeLogin(fd)
  BY <1>1, <1>4, TypeType DEF TypeLogin, ClientTypeOK, stateVars
<1>5. CASE TypeMessage(fd)
  BY <1>1, <1>2, <1>5, TypeType, ToChanType DEF TypeMessage, ClientTypeOK, stateVars
<1>6. CASE TypeLogout(fd)
  BY <1>1, <1>6, TypeType DEF TypeLogout, ClientTypeOK, stateVars
<1>7. CASE TypeUsers(fd)
  BY <1>1, <1>3, <1>7, TypeType DEF TypeUsers, ClientTypeOK, stateVars
<1>8. CASE TypeCreate(fd)
  BY <1>1, <1>8, ArgsAssumption, TypeType DEF TypeCreate, ClientTypeOK, stateVars
<1>9. CASE TypeJoin(fd)
  <2>1. PICK arg \in ChanArgs :
          /\ Type(fd, JOIN_CHANNEL, ToChan(arg), <<>>)
          /\ current_channel' = [current_channel EXCEPT ![fd] = arg]
    BY <1>9 DEF TypeJoin
  <2>2. WireTypeOK' /\ counted' \in Nat
    BY <1>1, <1>3, <2>1, TypeType
  <2>. QED
    BY <1>2, <1>3, <1>9, <2>1, <2>2 DEF TypeJoin, ClientTypeOK
<1>10. CASE TypeLeave(fd)
  <2>1. WireTypeOK' /\ counted' \in Nat
    BY <1>1, <1>3, <1>10, TypeType DEF TypeLeave
  <2>. QED
    BY <1>10, <2>1 DEF TypeLeave, ClientTypeOK
<1>. QED
  BY <1>4, <1>5, <1>6, <1>7, <1>8, <1>9, <1>10 DEF Keyboard

LEMMA ExitType ==
    ASSUME WireTypeOK, ClientTypeOK, NEW fd \in Fds, Exit(fd)
    PROVE  WireTypeOK' /\ ClientTypeOK'
<1>1. WireTypeOK'
  BY ClientCloseType DEF Exit
<1>. QED
  BY <1>1 DEF Exit, ClientTypeOK

LEMMA ReceiveType ==
    ASSUME WireTypeOK, ClientTypeOK, NEW fd \in Fds, Receive(fd)
    PROVE  WireTypeOK' /\ ClientTypeOK'
<1>1. WireTypeOK'
  BY ClientReadType DEF Receive
<1>. QED
  BY <1>1 DEF Receive, ProcessResponse, ClientTypeOK

-------------------------------------------------------------------------------
(* What a client asks for *)

Asks == [cmd : SEND .. LOGIN, chan : Chans, list : UserLists \cup {<<>>}]

\* What toServer can be when fd has typed a line: as it was, or with a request
\* behind the others.
AfterAsking(fd) ==
    {toServer} \cup {[toServer EXCEPT ![fd] = Append(@, request)] : request \in Asks}

LEMMA TypeAsks ==
    ASSUME NEW fd, NEW cmd, NEW chan \in Chans, NEW list \in UserLists \cup {<<>>},
           Type(fd, cmd, chan, list)
    PROVE  toServer' \in AfterAsking(fd)
<1>1. Request(cmd, chan, list) \in Asks
  BY CommandsAssumption DEF Type, Request, Asks
<1>. QED
  BY <1>1, Zenon DEF Type, ClientSend, AfterAsking

\* A line at the keyboard leaves at most one request on its way: a command, a
\* channel and one of the lists that are typed.
LEMMA KeyboardAsks ==
    ASSUME ClientTypeOK, NEW fd \in Fds, Keyboard(fd)
    PROVE  toServer' \in AfterAsking(fd)
<1>1. 0 \in Chans
  BY ChanModAssumption DEF Chans
<1>2. ToChan(current_channel[fd]) \in Chans
  BY ToChanType DEF ClientTypeOK
<1>3. \A arg \in ChanArgs : ToChan(arg) \in Chans
  BY ArgsAssumption, ToChanType
<1>4. CASE TypeLogin(fd) \/ TypeMessage(fd) \/ TypeLogout(fd)
  BY <1>1, <1>2, <1>4, TypeAsks DEF TypeLogin, TypeMessage, TypeLogout
<1>5. CASE TypeUsers(fd) \/ TypeJoin(fd) \/ TypeLeave(fd)
  BY <1>3, <1>5, TypeAsks DEF TypeUsers, TypeJoin, TypeLeave
<1>6. CASE TypeCreate(fd)
  BY <1>1, <1>6, TypeAsks DEF TypeCreate
<1>. QED
  BY <1>4, <1>5, <1>6 DEF Keyboard
===============================================================================
