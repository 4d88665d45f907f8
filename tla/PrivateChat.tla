------------------------------ MODULE PrivateChat ------------------------------
(***************************************************************************)
(* The first prototype, src/server.c with src/client.c: what a client says *)
(* is sent to everyone in client_socket[]; a client that says "join" moves *)
(* to private_sockets[], which threads of their own serve, and comes back  *)
(* with "leave".  One thread is created per join, all on the same array.   *)
(*                                                                         *)
(* Nothing is locked, so each access of a shared array that another thread *)
(* may come in between is a step, but for the loops of Build, Start, Check *)
(* and the two echoes, which take an array at a glance.  Sockets are       *)
(* blocking: a read() of one that has nothing waits, and so does a send()  *)
(* to a client that reads no more.  The client sends 80 zero-filled bytes  *)
(* a line; of several lines in one read() the functions of string.h see    *)
(* the first.                                                              *)
(***************************************************************************)
EXTENDS Integers, Sequences, FiniteSets

CONSTANTS
    Socks,        \* descriptors accept() may return
    MaxClients,   \* length of client_socket[], 30 in the program
    MayStall,     \* of these, those whose clients may stop reading
    MaxConnects,  \* bound on the number of connections made
    MaxTyped,     \* bound on the number of lines typed
    MaxJoins      \* bound on the number of joins handled

ASSUME SocksAssumption == Socks \subseteq Nat \ {0} /\ MayStall \subseteq Socks
ASSUME BoundsAssumption ==
    MaxClients \in Nat \ {0} /\ MaxConnects \in Nat /\ MaxTyped \in Nat
ASSUME JoinsAssumption == MaxJoins \in 2 .. 4

Slots    == 0 .. MaxClients - 1
Places   == 0 .. 1        \* of private_sockets[]
Threads  == 1 .. MaxJoins \* in the order in which they are created
Lines    == {"join", "leave", "text"}

VARIABLES
    client_socket, private_sockets, p, thread_1,
    conn,       \* closed, open, stuck (the client reads no more), gone (it ended),
                \* reset (and was sent to)
    pending,    \* connections in the listen queue
    inbox,      \* lines sent by a client and not yet read
    pc, i, sd, readfds, buffer,                   \* main(); i also of its scan
    tpc, ti, tsd, tp, readfds_private, tbuffer,   \* private_chat(), per thread
    cancelled,  \* threads that will not get past their next blocking call
    connects, typed,
    lost,       \* history: sockets that were written over or found no place
    secret      \* history: clients whose "join" was read and no "leave" since

netVars     == <<conn, pending, inbox>>
mainVars    == <<pc, i, sd, readfds, buffer>>
threadVars  == <<tpc, ti, tsd, tp, readfds_private, tbuffer, cancelled>>
sharedVars  == <<client_socket, private_sockets, p, thread_1>>
boundVars   == <<connects, typed>>
historyVars == <<lost, secret>>
vars == <<sharedVars, netVars, mainVars, threadVars, boundVars, historyVars>>

Init ==
    /\ client_socket = [k \in Slots |-> 0]
    /\ private_sockets = [k \in Places |-> 0]
    /\ p = 0 /\ thread_1 = 0
    /\ conn = [s \in Socks |-> "closed"]
    /\ pending = 0
    /\ inbox = [s \in Socks |-> <<>>]
    /\ pc = "build" /\ i = 0 /\ sd = 0 /\ readfds = {} /\ buffer = "text"
    /\ tpc = [t \in Threads |-> "none"]
    /\ ti = [t \in Threads |-> 0] /\ tsd = [t \in Threads |-> 0]
    /\ tp = [t \in Threads |-> 0]
    /\ readfds_private = [t \in Threads |-> {}]
    /\ tbuffer = [t \in Threads |-> "text"]
    /\ cancelled = {}
    /\ connects = 0 /\ typed = 0
    /\ lost = {} /\ secret = {}

\* The process lives: no SIGPIPE, and no end in writing behind private_sockets[].
Up == pc \notin {"sigpipe", "overrun"}

-------------------------------------------------------------------------------
(* Clients and their connections *)

\* External: a connection completes in the listen queue.
Connect ==
    /\ connects < MaxConnects
    /\ pending + Cardinality({s \in Socks : conn[s] # "closed"}) < Cardinality(Socks)
    /\ pending' = pending + 1
    /\ connects' = connects + 1
    /\ UNCHANGED <<sharedVars, conn, inbox, mainVars, threadVars, typed, historyVars>>

\* A line of the keyboard is sent, whatever it is.
Type(s) ==
    /\ conn[s] = "open" /\ typed < MaxTyped
    /\ typed' = typed + 1
    /\ \E line \in Lines : inbox' = [inbox EXCEPT ![s] = Append(@, line)]
    /\ UNCHANGED <<sharedVars, conn, pending, mainVars, threadVars, connects, historyVars>>

\* The client is interrupted; its "exit" never matches, as it is compared with
\* a buffer just cleared.
Interrupt(s) ==
    /\ conn[s] \in {"open", "stuck"} /\ typed < MaxTyped
    /\ typed' = typed + 1
    /\ conn' = [conn EXCEPT ![s] = "gone"]
    /\ UNCHANGED <<sharedVars, pending, inbox, mainVars, threadVars, connects, historyVars>>

\* External: the client reads no more, for good, and what was sent to it fills
\* the buffers.  One that reads again is only slow, as any step may be.
Stall(s) ==
    /\ conn[s] = "open" /\ s \in MayStall
    /\ conn' = [conn EXCEPT ![s] = "stuck"]
    /\ UNCHANGED <<sharedVars, pending, inbox, mainVars, threadVars, boundVars, historyVars>>

Readable(s) == inbox[s] # <<>> \/ conn[s] \in {"gone", "reset"}

\* select() of a set with a closed descriptor fails and leaves the set alone.
BadSet(set) == \E s \in set : conn[s] = "closed"

\* What a read() of s may leave in a buffer that held "before": a line, those
\* read with it being lost; what was there, when it fails for a closed descriptor
\* or after a RST; the end of the stream.  Otherwise it blocks.
Outcomes(s, before) ==
    {[got |-> inbox[s][1], left |-> SubSeq(inbox[s], k + 1, Len(inbox[s]))]
       : k \in DOMAIN inbox[s]}
    \cup {[got |-> g, left |-> <<>>] : g \in
            IF inbox[s] # <<>> THEN {}
            ELSE CASE conn[s] = "closed" -> {before}
                   [] conn[s] = "reset"  -> {before, "end"}
                   [] conn[s] = "gone"   -> {"end"}
                   [] OTHER              -> {}}

\* send() to the sockets among these: the first after the client ended provokes
\* a RST, at once or later, and the next one is the end of the process.  One to
\* a client that does not read waits: the whole step does.  (The greeting of
\* accept() does not: nothing was sent to that client before.)
Fatal(to) == \E s \in to \cap Socks : conn[s] = "reset"

Send(to) ==
    /\ ~ Fatal(to) /\ \A s \in to \cap Socks : conn[s] # "stuck"
    /\ \E told \in SUBSET {s \in to \cap Socks : conn[s] = "gone"} :
          conn' = [s \in Socks |-> IF s \in told THEN "reset" ELSE conn[s]]

SendKills(to) ==
    /\ Fatal(to)
    /\ pc' = "sigpipe"
    /\ UNCHANGED conn

In(array) == {array[k] : k \in DOMAIN array} \ {0}

-------------------------------------------------------------------------------
(* main() *)

\* The set to watch is copied from client_socket[] ...
Build ==
    /\ pc = "build"
    /\ readfds' = In(client_socket)
    /\ pc' = "select"
    /\ UNCHANGED <<i, sd, buffer, sharedVars, netVars, threadVars, boundVars, historyVars>>

\* ... and select() waits, without a timeout, for one of these or a connection.
\* When it fails, the listening socket and all the others still look ready.
Select ==
    /\ pc = "select"
    /\ LET ready == {s \in readfds : Readable(s)}
       IN  /\ BadSet(readfds) \/ ready # {} \/ pending > 0
           /\ readfds' = IF BadSet(readfds) THEN readfds ELSE ready
           /\ pc' = IF BadSet(readfds) \/ pending > 0 THEN "accept" ELSE "pass"
    /\ i' = 0
    /\ UNCHANGED <<sd, buffer, sharedVars, netVars, threadVars, boundVars, historyVars>>

\* accept() returns the lowest free descriptor.
Accept ==
    /\ pc = "accept" /\ pending > 0
    /\ pending' = pending - 1
    /\ \E s \in Socks :
          /\ conn[s] = "closed" /\ \A r \in Socks : r < s => conn[r] # "closed"
          /\ conn' = [conn EXCEPT ![s] = "open"]
          /\ sd' = s
          /\ lost' = lost \ {s} /\ secret' = secret \ {s}
    /\ pc' = "scan" /\ i' = 0
    /\ UNCHANGED <<readfds, buffer, sharedVars, inbox, threadVars, boundVars>>

\* Looking for an empty position, one at a time ...
Scan ==
    /\ pc = "scan"
    /\ \/ /\ i \in Slots /\ client_socket[i] = 0
          /\ pc' = "store" /\ UNCHANGED <<i, lost>>
       \/ /\ i \in Slots /\ client_socket[i] # 0
          /\ i' = i + 1 /\ UNCHANGED <<pc, lost>>
       \/ /\ i = MaxClients
          /\ pc' = "pass" /\ i' = 0 /\ lost' = lost \cup {sd}
    /\ UNCHANGED <<sd, readfds, buffer, sharedVars, netVars, threadVars, boundVars, secret>>

\* ... and storing the new socket in the one found.
Store ==
    /\ pc = "store"
    /\ client_socket' = [client_socket EXCEPT ![i] = sd]
    /\ lost' = lost \cup ({client_socket[i]} \ {0})
    /\ pc' = "pass" /\ i' = 0
    /\ UNCHANGED <<sd, readfds, buffer, private_sockets, p, thread_1, netVars,
                   threadVars, boundVars, secret>>

\* The pass over client_socket[], one entry at a time.
Pass ==
    /\ pc = "pass"
    /\ \/ /\ i \in Slots /\ client_socket[i] \in readfds
          /\ sd' = client_socket[i] /\ pc' = "read" /\ UNCHANGED i
       \/ /\ i \in Slots /\ client_socket[i] \notin readfds
          /\ i' = i + 1 /\ UNCHANGED <<sd, pc>>
       \/ /\ i \notin Slots
          /\ pc' = "build" /\ UNCHANGED <<i, sd>>
    /\ UNCHANGED <<readfds, buffer, sharedVars, netVars, threadVars, boundVars, historyVars>>

\* The end of the stream: the socket is closed and its entry cleared.
ReadEnd ==
    /\ pc = "read"
    /\ \E r \in Outcomes(sd, buffer) : r.got = "end"
    /\ conn' = [conn EXCEPT ![sd] = "closed"]
    /\ client_socket' = [client_socket EXCEPT ![i] = 0]
    /\ lost' = lost \cup ({client_socket[i]} \ {0, sd})
    /\ pc' = "pass" /\ i' = i + 1
    /\ UNCHANGED <<sd, readfds, buffer, private_sockets, p, thread_1, pending, inbox,
                   threadVars, boundVars, secret>>

\* A line, or what the buffer held before when read() failed.
ReadLine ==
    /\ pc = "read"
    /\ \E r \in Outcomes(sd, buffer) :
          /\ r.got # "end"
          /\ buffer' = r.got
          /\ inbox' = [inbox EXCEPT ![sd] = r.left]
          /\ pc' = IF r.got = "join" THEN "join" ELSE "echo"
          /\ secret' = IF r.got = "join" THEN secret \cup {sd} ELSE secret
    /\ UNCHANGED <<i, sd, readfds, sharedVars, conn, pending, threadVars, boundVars, lost>>

\* Wrong: p is not used.
JoinOverFirst ==
    /\ pc = "join" /\ p < MaxJoins
    /\ private_sockets' = [private_sockets EXCEPT ![0] = client_socket[i]]
    /\ p' = p + 1 /\ pc' = "clear"
    /\ UNCHANGED <<i, sd, readfds, buffer, client_socket, thread_1, netVars,
                   threadVars, boundVars, historyVars>>

\* "join": the entry is copied to the next place of the private array.  p never
\* goes back: the third and the fourth join of the program's life write behind
\* the array.  What lies there is, as gcc lays main() out, of no more use, and
\* main() goes on with a client that no thread will find; a build that watches
\* the array ends.
Join ==
    /\ pc = "join" /\ p < MaxJoins
    /\ \/ /\ p \in Places
          /\ private_sockets' = [private_sockets EXCEPT ![p] = client_socket[i]]
          /\ p' = p + 1 /\ pc' = "clear" /\ UNCHANGED lost
       \/ /\ p \notin Places
          /\ p' = p + 1 /\ pc' = "clear" /\ lost' = lost \cup {sd}
          /\ UNCHANGED private_sockets
       \/ /\ p \notin Places
          /\ pc' = "overrun" /\ UNCHANGED <<private_sockets, p, lost>>
    /\ UNCHANGED <<i, sd, readfds, buffer, client_socket, thread_1, netVars,
                   threadVars, boundVars, secret>>

\* Wrong: the entry stays, or a thread is created once there are two to talk.
ClearNothing ==
    /\ pc = "clear"
    /\ Send({sd}) /\ pc' = "pass" /\ i' = i + 1
    /\ thread_1' = p
    /\ tpc' = [tpc EXCEPT ![p] = "start"]
    /\ UNCHANGED <<sd, readfds, buffer, client_socket, private_sockets, p, pending, inbox,
                   ti, tsd, tp, readfds_private, tbuffer, cancelled, boundVars, historyVars>>
ClearForTwo ==
    /\ pc = "clear"
    /\ client_socket' = [client_socket EXCEPT ![i] = 0]
    /\ Send({sd}) /\ pc' = "pass" /\ i' = i + 1
    /\ IF p = 2 THEN thread_1' = p /\ tpc' = [tpc EXCEPT ![p] = "start"]
                ELSE UNCHANGED <<thread_1, tpc>>
    /\ UNCHANGED <<sd, readfds, buffer, private_sockets, p, pending, inbox, ti, tsd, tp,
                   readfds_private, tbuffer, cancelled, boundVars, historyVars>>

\* The entry is cleared, the line sent back, and a thread created.
Clear ==
    /\ pc = "clear"
    /\ client_socket' = [client_socket EXCEPT ![i] = 0]
    /\ lost' = lost \cup ({client_socket[i]} \ {0, sd})
    /\ \/ Send({sd}) /\ pc' = "pass"
       \/ SendKills({sd})
    /\ i' = i + 1
    /\ thread_1' = p
    /\ tpc' = [tpc EXCEPT ![p] = "start"]
    /\ UNCHANGED <<sd, readfds, buffer, private_sockets, p, pending, inbox, ti, tsd, tp,
                   readfds_private, tbuffer, cancelled, boundVars, secret>>

\* Anything else goes to everyone.  The loop uses i as the pass does, which
\* ends with it.
Echo ==
    /\ pc = "echo"
    /\ \/ Send(In(client_socket)) /\ pc' = "build"
       \/ SendKills(In(client_socket))
    /\ UNCHANGED <<i, sd, readfds, buffer, sharedVars, pending, inbox, threadVars,
                   boundVars, historyVars>>

MainStep ==
    \/ Build \/ Select \/ Accept \/ Scan \/ Store \/ Pass
    \/ ReadEnd \/ ReadLine \/ Join \/ Clear \/ Echo

-------------------------------------------------------------------------------
(* private_chat(), one instance per join *)

\* The set is built once; every select() takes from it what is not ready.
Start(t) ==
    /\ tpc[t] = "start"
    /\ readfds_private' = [readfds_private EXCEPT ![t] = In(private_sockets)]
    /\ tpc' = [tpc EXCEPT ![t] = "select"]
    /\ UNCHANGED <<ti, tsd, tp, tbuffer, cancelled, sharedVars, netVars, mainVars,
                   boundVars, historyVars>>

SelectPrivate(t) ==
    /\ tpc[t] = "select" /\ t \notin cancelled
    /\ LET set   == readfds_private[t]
           ready == {s \in set : Readable(s)}
       IN  /\ BadSet(set) \/ ready # {}
           /\ readfds_private' =
                [readfds_private EXCEPT ![t] = IF BadSet(set) THEN set ELSE ready]
    /\ ti' = [ti EXCEPT ![t] = 0]
    /\ tpc' = [tpc EXCEPT ![t] = "pass"]
    /\ UNCHANGED <<tsd, tp, tbuffer, cancelled, sharedVars, netVars, mainVars,
                   boundVars, historyVars>>

PassPrivate(t) ==
    /\ tpc[t] = "pass"
    /\ \/ /\ ti[t] \in Places /\ private_sockets[ti[t]] \in readfds_private[t]
          /\ tsd' = [tsd EXCEPT ![t] = private_sockets[ti[t]]]
          /\ tpc' = [tpc EXCEPT ![t] = "read"] /\ UNCHANGED ti
       \/ /\ ti[t] \in Places /\ private_sockets[ti[t]] \notin readfds_private[t]
          /\ ti' = [ti EXCEPT ![t] = @ + 1] /\ UNCHANGED <<tsd, tpc>>
       \/ /\ ti[t] \notin Places
          /\ tpc' = [tpc EXCEPT ![t] = "select"] /\ UNCHANGED <<ti, tsd>>
    /\ UNCHANGED <<tp, readfds_private, tbuffer, cancelled, sharedVars, netVars, mainVars,
                   boundVars, historyVars>>

\* The end of the stream leaves an empty line, which is "sent" like others.  A
\* read() that fails leaves what was there; the zero that the code then writes is
\* in front of the buffer, in memory that is not followed.
ReadPrivate(t) ==
    /\ tpc[t] = "read" /\ t \notin cancelled
    /\ \E r \in Outcomes(tsd[t], tbuffer[t]) :
          /\ tbuffer' = [tbuffer EXCEPT ![t] = r.got]
          /\ inbox' = [inbox EXCEPT ![tsd[t]] = r.left]
          /\ tpc' = [tpc EXCEPT ![t] = IF r.got = "leave" THEN "scan" ELSE "echo"]
          /\ secret' = IF r.got = "leave" THEN secret \ {tsd[t]} ELSE secret
    /\ tp' = [tp EXCEPT ![t] = 0]
    /\ UNCHANGED <<ti, tsd, readfds_private, cancelled, sharedVars, conn, pending, mainVars,
                   boundVars, lost>>

\* "leave": looking for an empty position in client_socket[] ...
ScanPrivate(t) ==
    /\ tpc[t] = "scan"
    /\ \/ /\ tp[t] \in Slots /\ client_socket[tp[t]] = 0
          /\ tpc' = [tpc EXCEPT ![t] = "store"] /\ UNCHANGED <<tp, lost>>
       \/ /\ tp[t] \in Slots /\ client_socket[tp[t]] # 0
          /\ tp' = [tp EXCEPT ![t] = @ + 1] /\ UNCHANGED <<tpc, lost>>
       \/ /\ tp[t] \notin Slots
          /\ tpc' = [tpc EXCEPT ![t] = "reply"]
          /\ lost' = lost \cup {tsd[t]} /\ UNCHANGED tp
    /\ UNCHANGED <<ti, tsd, readfds_private, tbuffer, cancelled, sharedVars, netVars, mainVars,
                   boundVars, secret>>

\* ... and storing the private socket in the one found.
StorePrivate(t) ==
    /\ tpc[t] = "store"
    /\ client_socket' = [client_socket EXCEPT ![tp[t]] = private_sockets[ti[t]]]
    /\ lost' = lost \cup ({client_socket[tp[t]]} \ {0})
    /\ tpc' = [tpc EXCEPT ![t] = "reply"]
    /\ UNCHANGED <<private_sockets, p, thread_1, ti, tsd, tp, readfds_private, tbuffer,
                   cancelled, netVars, mainVars, boundVars, secret>>

\* Wrong: the place is given back to the next join, whichever it was.
ReplyGivesBack(t) ==
    /\ tpc[t] = "reply" /\ t \notin cancelled
    /\ Send({tsd[t]})
    /\ private_sockets' = [private_sockets EXCEPT ![ti[t]] = 0]
    /\ p' = p - 1
    /\ tpc' = [tpc EXCEPT ![t] = "check"]
    /\ UNCHANGED <<client_socket, thread_1, ti, tsd, tp, readfds_private, tbuffer,
                   cancelled, pending, inbox, mainVars, boundVars, historyVars>>

\* The line is sent back and the place cleared, which p does not learn.
ReplyPrivate(t) ==
    /\ tpc[t] = "reply" /\ t \notin cancelled
    /\ \/ Send({tsd[t]}) /\ UNCHANGED pc
       \/ SendKills({tsd[t]})
    /\ private_sockets' = [private_sockets EXCEPT ![ti[t]] = 0]
    /\ tpc' = [tpc EXCEPT ![t] = "check"]
    /\ UNCHANGED <<client_socket, p, thread_1, ti, tsd, tp, readfds_private, tbuffer,
                   cancelled, pending, inbox, i, sd, readfds, buffer, boundVars, historyVars>>

\* Is anyone left in private?
Check(t) ==
    /\ tpc[t] = "check"
    /\ \/ /\ In(private_sockets) # {}
          /\ tpc' = [tpc EXCEPT ![t] = "pass"]
          /\ ti' = [ti EXCEPT ![t] = @ + 1]
       \/ /\ In(private_sockets) = {}
          /\ tpc' = [tpc EXCEPT ![t] = "cancel"] /\ UNCHANGED ti
    /\ UNCHANGED <<tsd, tp, readfds_private, tbuffer, cancelled, sharedVars, netVars, mainVars,
                   boundVars, historyVars>>

\* The thread created last is cancelled, and this one returns.
Cancel(t) ==
    /\ tpc[t] = "cancel"
    /\ cancelled' = cancelled \cup {thread_1}
    /\ tpc' = [tpc EXCEPT ![t] = "done"]
    /\ UNCHANGED <<ti, tsd, tp, readfds_private, tbuffer, sharedVars, netVars, mainVars,
                   boundVars, historyVars>>

EchoPrivate(t) ==
    /\ tpc[t] = "echo" /\ t \notin cancelled
    /\ \/ tbuffer[t] # "end" /\ Send(In(private_sockets)) /\ UNCHANGED pc
       \/ tbuffer[t] = "end" /\ ~ Fatal(In(private_sockets)) /\ UNCHANGED <<conn, pc>>
       \/ SendKills(In(private_sockets))
    /\ tpc' = [tpc EXCEPT ![t] = "select"]
    /\ UNCHANGED <<ti, tsd, tp, readfds_private, tbuffer, cancelled, sharedVars, pending,
                   inbox, i, sd, readfds, buffer, boundVars, historyVars>>

ThreadStep(t) ==
    \/ Start(t) \/ SelectPrivate(t) \/ PassPrivate(t) \/ ReadPrivate(t)
    \/ ScanPrivate(t) \/ StorePrivate(t) \/ ReplyPrivate(t)
    \/ Check(t) \/ Cancel(t) \/ EchoPrivate(t)

-------------------------------------------------------------------------------

Next ==
    /\ Up
    /\ \/ Connect \/ MainStep
       \/ \E s \in Socks : Type(s) \/ Interrupt(s) \/ Stall(s)
       \/ \E t \in Threads : ThreadStep(t)

Spec == Init /\ [][Next]_vars

\* main() and every thread that is not blocked or cancelled goes on.
FairSpec ==
    /\ Spec
    /\ WF_vars(Up /\ MainStep)
    /\ \A t \in Threads : WF_vars(Up /\ ThreadStep(t))

-------------------------------------------------------------------------------

\* The variables that main() and its threads share keep their types, and p never
\* falls behind the thread created last: each join has a place and a thread of its
\* own, be it a place behind the array.
TypeOK ==
    /\ client_socket \in [Slots -> Socks \cup {0}]
    /\ private_sockets \in [Places -> Socks \cup {0}]
    /\ p \in Nat /\ thread_1 \in 0 .. p /\ thread_1 \in Threads \cup {0}
    /\ conn \in [Socks -> {"closed", "open", "stuck", "gone", "reset"}]
    /\ pending \in Nat
    /\ inbox \in [Socks -> Seq(Lines)]
    /\ readfds \subseteq Socks
    /\ buffer \in Lines
    /\ readfds_private \in [Threads -> SUBSET Socks]
    /\ tbuffer \in [Threads -> Lines \cup {"end"}]
    /\ cancelled \subseteq Threads
    /\ lost \subseteq Socks /\ secret \subseteq Socks

\* A connected client is in one of the two arrays, or on its way to the first,
\* unless it found the array full, its entry was written over, or it was the third
\* to join or a later one: no order of the steps of main() and the threads makes
\* one vanish in another way.
NothingElseVanishes ==
    Up => \A s \in Socks \ lost :
        conn[s] # "closed" =>
            \/ s \in In(client_socket) \cup In(private_sockets)
            \/ pc \in {"scan", "store"} /\ sd = s

\* Until the third join of the program's life, what a client says between its
\* "join" and its "leave" is never read, and so never sent to everyone, by main().
PrivateStaysPrivate ==
    [][\A s \in secret : ReadLine /\ sd = s /\ p <= 2 => inbox'[s] = inbox[s]]_vars

\* As long as only one client ever joined, main() never waits for a client to say
\* something, nor for one to connect: it calls read() and accept() only when there
\* is something to return, as the thread never takes a line that main() was told
\* of.  In send() main() may well wait: for any client that does not read.
MainReadsAtOnce ==
    p <= 1 =>
        /\ pc = "read" => Readable(sd)
        /\ pc = "accept" => pending > 0

\* Under FairSpec: a client alone in private that says "leave" comes back,
\* unless its place was taken, it reads no more, or the program ended.
LeaveReturns ==
    \A s \in Socks :
        s \in In(private_sockets) /\ inbox[s] = <<"leave">>
            ~> \/ s \in In(client_socket) \cup lost \/ p > 1
               \/ conn[s] = "stuck" \/ ~ Up

\* A comment of the code, server.c:145: "if position is empty".
StoresIntoEmpty ==
    [][\A k \in Slots : client_socket'[k] \in Socks /\ client_socket'[k] # client_socket[k]
                            => client_socket[k] = 0]_vars
===============================================================================
