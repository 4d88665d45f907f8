------------------------------- MODULE ChatRooms -------------------------------
(***************************************************************************)
(* What the server does for the clients, without lists, sockets or bytes:  *)
(* what each client has asked, who is in which channel, and what is still  *)
(* owed to whom.                                                           *)
(*                                                                         *)
(*  - a client's requests are served in the order in which it asked them,  *)
(*    each by the membership of that moment; some are dropped unserved;    *)
(*  - a client enters the chat by its own login only, in channel 0, and    *)
(*    leaves it by its own logout or by leaving its last channel;          *)
(*  - others can add it to a channel only by listing it, and only while it *)
(*    is in some channel; whoever is listed and is, is added;              *)
(*  - a refused request changes no membership, and leaving a channel ends  *)
(*    the membership of that channel and no other;                         *)
(*  - a message goes to those who were in its channel when it was served,  *)
(*    never back to its sender, and membership stands still meanwhile;     *)
(*  - a null pointer is followed only when no one is in any channel.       *)
(*                                                                         *)
(* It is not what the comments of the code promise.  Where the two differ  *)
(* the difference is kept here and ChatClaims or OldClaims states the      *)
(* promise: a leave is confirmed to a client that was not in the channel,  *)
(* a join needs no channel that exists, the number of a new channel may be *)
(* in use, and the older server heeds no list (HeedsLists).                *)
(***************************************************************************)
EXTENDS Cpt

CONSTANTS
    Lists,       \* the lists of users a request can carry
    HeedsLists   \* whether those a create lists are added to the channel

VARIABLES
    asked,      \* [Fds -> Seq(Requests)]: requests not yet served
    members,    \* set of <<descriptor, channel>>
    owed,       \* set of <<descriptor, what>>: sends still to be performed
    lastChan,   \* number of the last created channel
    status      \* "up", or how the server ended

\* What is sent: an answer, or a message with its channel and sender.
Answer(code) == <<code>>
Message(chan, sender) == <<SEND, chan, sender>>

roomVars == <<asked, members, owed, lastChan, status>>

Present(fd) == \E c \in Chans : <<fd, c>> \in members

First(fd) == Head(asked[fd])

Init ==
    /\ asked = [fd \in Fds |-> <<>>]
    /\ members = {} /\ owed = {} /\ lastChan = 0 /\ status = "up"

\* fd asks for something.
Ask(fd) ==
    /\ \E request \in [cmd : SEND .. LOGIN, chan : Chans, list : Lists] :
          asked' = [asked EXCEPT ![fd] = Append(@, request)]
    /\ UNCHANGED <<members, owed, lastChan, status>>

\* The first request of fd is taken up once nothing is owed; any number of
\* those behind it are dropped.
Take(fd, cmd) ==
    /\ status = "up" /\ owed = {}
    /\ asked[fd] # <<>> /\ First(fd).cmd = cmd
    /\ \E k \in 1 .. Len(asked[fd]) :
          asked' = [asked EXCEPT ![fd] = SubSeq(@, k + 1, Len(@))]

\* It is answered with code.
Serve(fd, cmd, code) ==
    Take(fd, cmd) /\ owed' = {<<fd, Answer(code)>>} /\ UNCHANGED status

\* The name of the first registration is read when there is none.
NullHead(fd, cmd) ==
    Take(fd, cmd) /\ members = {} /\ status' = "segv" /\ UNCHANGED <<members, owed>>

Login(fd) ==
    /\ \/ /\ Serve(fd, LOGIN, LOGIN) /\ ~ Present(fd)
          /\ members' = {<<fd, 0>>} \cup members
       \/ Serve(fd, LOGIN, FAILED) /\ Present(fd) /\ UNCHANGED members
    /\ UNCHANGED lastChan

Logout(fd) ==
    /\ Serve(fd, LOGOUT, LOGOUT)
    /\ members' = {m \in members : m[1] # fd}
    /\ UNCHANGED lastChan

ListUsers(fd) == Serve(fd, GET_USERS, GET_USERS) /\ UNCHANGED <<members, lastChan>>

Join(fd) ==
    /\ LET place == <<fd, First(fd).chan>>
       IN  \/ /\ Serve(fd, JOIN_CHANNEL, JOIN_CHANNEL) /\ Present(fd) /\ place \notin members
              /\ members' = {place} \cup members
           \/ /\ Serve(fd, JOIN_CHANNEL, FAILED) /\ members # {}
              /\ ~ Present(fd) \/ place \in members
              /\ UNCHANGED members
           \/ NullHead(fd, JOIN_CHANNEL)
    /\ UNCHANGED lastChan

Leave(fd) ==
    /\ Serve(fd, LEAVE_CHANNEL, LEAVE_CHANNEL)
    /\ members' = members \ {<<fd, First(fd).chan>>}
    /\ UNCHANGED lastChan

\* The creator and those it lists who are present enter the next channel
\* number; the number is used up by a refused request too.
Create(fd) ==
    /\ lastChan' = (lastChan + 1) % ChanMod
    /\ \/ /\ Serve(fd, CREATE_CHANNEL, CREATE_CHANNEL) /\ Present(fd)
          /\ LET added == IF HeedsLists THEN {g \in ListedBy(First(fd)) : Present(g)} ELSE {}
             IN  members' = members \cup {<<g, lastChan'>> : g \in added \cup {fd}}
       \/ /\ Serve(fd, CREATE_CHANNEL, FAILED) /\ members # {} /\ ~ Present(fd)
          /\ UNCHANGED members
       \/ NullHead(fd, CREATE_CHANNEL)

Relay(fd) ==
    /\ Take(fd, SEND)
    /\ LET chan == First(fd).chan
       IN  owed' = {<<g, Message(chan, fd)>> :
                       g \in {h \in Fds : <<h, chan>> \in members} \ {fd}}
    /\ UNCHANGED <<members, lastChan, status>>

Deliver ==
    /\ status = "up"
    /\ \E one \in owed : owed' = owed \ {one}
    /\ UNCHANGED <<asked, members, lastChan, status>>

\* The server is killed when it sends to a client that is gone, or ends when
\* it fails to accept a connection.
Stop ==
    /\ status = "up"
    /\ \/ status' = "sigpipe" /\ owed # {}
       \/ status' = "exit" /\ owed = {}
    /\ UNCHANGED <<asked, members, owed, lastChan>>

Next ==
    \/ Stop \/ Deliver
    \/ \E fd \in Fds :
          \/ Ask(fd) \/ Login(fd) \/ Logout(fd) \/ ListUsers(fd)
          \/ Join(fd) \/ Leave(fd) \/ Create(fd) \/ Relay(fd)

Spec == Init /\ [][Next]_roomVars
================================================================================
