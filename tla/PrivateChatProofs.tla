--------------------------- MODULE PrivateChatProofs ---------------------------
(***************************************************************************)
(* Theorems about the first prototype, for any number of clients, of lines *)
(* and of positions in client_socket[]: what main() and its threads may    *)
(* and may not do to each other's sockets without a lock.                  *)
(***************************************************************************)
EXTENDS PrivateChat, TLAPS

-------------------------------------------------------------------------------
(* Types *)

MainAt ==
    {"build", "select", "accept", "scan", "store", "pass", "read", "join", "clear", "echo",
     "sigpipe", "overrun"}

ThreadAt ==
    {"none", "start", "select", "pass", "read", "scan", "store", "reply", "check", "cancel",
     "echo", "done"}

LocalsOK ==
    /\ pc \in MainAt /\ tpc \in [Threads -> ThreadAt]
    /\ i \in 0 .. MaxClients /\ sd \in Socks \cup {0}
    /\ ti \in [Threads -> 0 .. 2] /\ tp \in [Threads -> 0 .. MaxClients]
    /\ tsd \in [Threads -> Socks \cup {0}]
    /\ connects \in Nat /\ typed \in Nat

\* An index is within its array, and sd is a socket, where main() uses them; the
\* places of private_sockets[] from p on have never been written.
MainOK ==
    /\ pc \in {"store", "read", "join", "clear"} => i \in Slots
    /\ pc \in {"scan", "store", "read", "join", "clear"} => sd \in Socks
    /\ pc = "clear" => p \in Threads /\ tpc[p] = "none"
    /\ \A k \in Places : k >= p => private_sockets[k] = 0

\* A thread is as old as its number says; the place whose socket it serves holds
\* that socket until it, or the other thread, clears it.
ThreadOK(t) ==
    /\ tpc[t] # "none" => t <= p /\ thread_1 # 0
    /\ tpc[t] = "check" => ti[t] \in Places
    /\ tpc[t] = "store" => tp[t] \in Slots
    /\ tpc[t] \in {"read", "scan", "store", "reply"} =>
            /\ ti[t] \in Places /\ ti[t] < p
            /\ tsd[t] \in Socks /\ private_sockets[ti[t]] \in {0, tsd[t]}

TypeInv == TypeOK /\ LocalsOK /\ MainOK /\ \A t \in Threads : ThreadOK(t)

\* Indices and descriptors.
LEMMA SlotsFacts ==
    /\ MaxClients \in Nat /\ MaxClients > 0
    /\ Slots = 0 .. MaxClients - 1 /\ Slots \subseteq 0 .. MaxClients
    /\ \A k \in Slots : k \in Nat /\ k + 1 \in 0 .. MaxClients
    /\ \A k \in 0 .. MaxClients : k \notin Slots => k = MaxClients
    /\ Places = {0, 1} /\ 0 \notin Socks
    /\ 1 \in Threads /\ 2 \in Threads
  BY SocksAssumption, BoundsAssumption, JoinsAssumption DEF Slots, Places, Threads

LEMMA ThreadsFacts ==
    /\ \A k \in Nat : k < MaxJoins => k + 1 \in Threads
    /\ \A t \in Threads, k \in Nat : t <= k => t <= k + 1
    /\ \A t \in Threads, k \in Nat : t <= k /\ k <= 1 => t = 1
    /\ \A t \in Threads : t <= 2 => t = 1 \/ t = 2
    /\ \A t \in Threads : t # 0
  BY JoinsAssumption DEF Threads

\* A read() leaves a line, what was in the buffer, or the end of the stream.
LEMMA OutcomesLemma ==
    ASSUME TypeOK, NEW s \in Socks, NEW before, NEW r \in Outcomes(s, before)
    PROVE  /\ r.left \in Seq(Lines)
           /\ r.got \in Lines \cup {before, "end"}
  <1>1. inbox[s] \in Seq(Lines)
    BY DEF TypeOK
  <1>2. CASE \E k \in DOMAIN inbox[s] :
                r = [got |-> inbox[s][1], left |-> SubSeq(inbox[s], k + 1, Len(inbox[s]))]
    <2>1. PICK k \in DOMAIN inbox[s] :
                r = [got |-> inbox[s][1], left |-> SubSeq(inbox[s], k + 1, Len(inbox[s]))]
      BY <1>2
    <2>2. 1 \in DOMAIN inbox[s] /\ k \in Nat /\ k >= 1
      BY <1>1
    <2> QED
      BY <1>1, <2>1
  <1>3. CASE \E g \in {before, "end"} : r = [got |-> g, left |-> <<>>]
    BY <1>3
  <1> QED
    BY <1>2, <1>3 DEF Outcomes

\* What sending may do to connections: provoke a RST from a client that ended.
Sent ==
    /\ conn' \in [Socks -> {"closed", "open", "stuck", "gone", "reset"}]
    /\ \A s \in Socks : conn'[s] = conn[s] \/ (conn[s] = "gone" /\ conn'[s] = "reset")

LEMMA SendLemma ==
    ASSUME TypeOK, NEW to, Send(to)
    PROVE  Sent
  BY DEF TypeOK, Send, Sent

LEMMA SendKillsLemma ==
    ASSUME TypeOK, NEW to, SendKills(to)
    PROVE  Sent /\ pc' = "sigpipe"
  BY DEF TypeOK, SendKills, Sent

\* The steps that send do nothing else to connections.
LEMMA SendersLemma ==
    ASSUME TypeOK,
           \/ Clear \/ Echo
           \/ \E t \in Threads : ReplyPrivate(t) \/ EchoPrivate(t)
    PROVE  Sent
  <1>1. ASSUME UNCHANGED conn PROVE Sent
    BY <1>1 DEF TypeOK, Sent
  <1> QED
    BY <1>1, SendLemma, SendKillsLemma DEF Clear, Echo, ReplyPrivate, EchoPrivate

LEMMA TypeInit == Init => TypeInv
  <1> SUFFICES ASSUME Init PROVE TypeInv
    OBVIOUS
  <1> USE SlotsFacts DEF Init, MainAt, ThreadAt, Lines
  <1>1. TypeOK
    BY DEF TypeOK
  <1>2. LocalsOK
    BY DEF LocalsOK
  <1>3. MainOK /\ \A t \in Threads : ThreadOK(t)
    BY DEF MainOK, ThreadOK
  <1> QED
    BY <1>1, <1>2, <1>3 DEF TypeInv

\* The steps of the clients keep the types.
LEMMA TypeClients ==
    ASSUME TypeInv, Connect \/ \E s \in Socks : Type(s) \/ Interrupt(s) \/ Stall(s)
    PROVE  TypeInv'
  <1> USE SlotsFacts DEF sharedVars, mainVars, threadVars, boundVars, historyVars,
     MainAt, ThreadAt
  <1>0. TypeOK /\ LocalsOK /\ MainOK /\ \A u \in Threads : ThreadOK(u)
    BY DEF TypeInv
  <1>1. CASE Connect
    <2>1. TypeOK'
      BY <1>1, <1>0 DEF Connect, TypeOK
    <2>2. LocalsOK'
      BY <1>1, <1>0 DEF Connect, LocalsOK
    <2>3. MainOK'
      BY <1>1, <1>0 DEF Connect, MainOK
    <2>4. ASSUME NEW u \in Threads PROVE ThreadOK(u)'
      <3>1. ThreadOK(u)
        BY <1>0
      <3> QED
        BY <3>1, <1>1 DEF Connect, TypeOK, LocalsOK, MainOK, ThreadOK
    <2> QED
      BY <2>1, <2>2, <2>3, <2>4 DEF TypeInv
  <1>2. ASSUME NEW s \in Socks, Type(s) PROVE TypeInv'
    <2>1. TypeOK'
      BY <1>2, <1>0 DEF Type, TypeOK
    <2>2. LocalsOK'
      BY <1>2, <1>0 DEF Type, LocalsOK
    <2>3. MainOK'
      BY <1>2, <1>0 DEF Type, MainOK
    <2>4. ASSUME NEW u \in Threads PROVE ThreadOK(u)'
      <3>1. ThreadOK(u)
        BY <1>0
      <3> QED
        BY <3>1, <1>2 DEF Type, TypeOK, LocalsOK, MainOK, ThreadOK
    <2> QED
      BY <2>1, <2>2, <2>3, <2>4 DEF TypeInv
  <1>3. ASSUME NEW s \in Socks, Interrupt(s) PROVE TypeInv'
    <2>1. TypeOK'
      BY <1>3, <1>0 DEF Interrupt, TypeOK
    <2>2. LocalsOK'
      BY <1>3, <1>0 DEF Interrupt, LocalsOK
    <2>3. MainOK'
      BY <1>3, <1>0 DEF Interrupt, MainOK
    <2>4. ASSUME NEW u \in Threads PROVE ThreadOK(u)'
      <3>1. ThreadOK(u)
        BY <1>0
      <3> QED
        BY <3>1, <1>3 DEF Interrupt, TypeOK, LocalsOK, MainOK, ThreadOK
    <2> QED
      BY <2>1, <2>2, <2>3, <2>4 DEF TypeInv
  <1>4. ASSUME NEW s \in Socks, Stall(s) PROVE TypeInv'
    <2>1. TypeOK'
      BY <1>4, <1>0 DEF Stall, TypeOK
    <2>2. LocalsOK'
      BY <1>4, <1>0 DEF Stall, LocalsOK
    <2>3. MainOK'
      BY <1>4, <1>0 DEF Stall, MainOK
    <2>4. ASSUME NEW u \in Threads PROVE ThreadOK(u)'
      <3>1. ThreadOK(u)
        BY <1>0
      <3> QED
        BY <3>1, <1>4 DEF Stall, TypeOK, LocalsOK, MainOK, ThreadOK
    <2> QED
      BY <2>1, <2>2, <2>3, <2>4 DEF TypeInv
  <1> QED
    BY <1>1, <1>2, <1>3, <1>4

\* The steps of main() keep the types.
LEMMA TypeMain ==
    ASSUME TypeInv, MainStep
    PROVE  TypeInv'
  <1> USE SlotsFacts DEF sharedVars, netVars, threadVars, boundVars, historyVars,
     MainAt, ThreadAt
  <1>0. TypeOK /\ LocalsOK /\ MainOK /\ \A u \in Threads : ThreadOK(u)
    BY DEF TypeInv
  <1>1. CASE Build
    <2>1. TypeOK'
      BY <1>1, <1>0 DEF Build, In, TypeOK
    <2>2. LocalsOK'
      BY <1>1, <1>0 DEF Build, In, LocalsOK
    <2>3. MainOK'
      BY <1>1, <1>0 DEF Build, In, MainOK
    <2>4. ASSUME NEW u \in Threads PROVE ThreadOK(u)'
      <3>1. ThreadOK(u)
        BY <1>0
      <3> QED
        BY <3>1, <1>1 DEF Build, In, TypeOK, LocalsOK, MainOK, ThreadOK
    <2> QED
      BY <2>1, <2>2, <2>3, <2>4 DEF TypeInv
  <1>2. CASE Select
    <2>1. TypeOK'
      BY <1>2, <1>0 DEF Select, TypeOK
    <2>2. LocalsOK'
      BY <1>2, <1>0 DEF Select, LocalsOK
    <2>3. MainOK'
      BY <1>2, <1>0 DEF Select, MainOK
    <2>4. ASSUME NEW u \in Threads PROVE ThreadOK(u)'
      <3>1. ThreadOK(u)
        BY <1>0
      <3> QED
        BY <3>1, <1>2 DEF Select, TypeOK, LocalsOK, MainOK, ThreadOK
    <2> QED
      BY <2>1, <2>2, <2>3, <2>4 DEF TypeInv
  <1>3. CASE Accept
    <2>1. TypeOK'
      BY <1>3, <1>0 DEF Accept, TypeOK
    <2>2. LocalsOK'
      BY <1>3, <1>0 DEF Accept, LocalsOK
    <2>3. MainOK'
      BY <1>3, <1>0 DEF Accept, MainOK
    <2>4. ASSUME NEW u \in Threads PROVE ThreadOK(u)'
      <3>1. ThreadOK(u)
        BY <1>0
      <3> QED
        BY <3>1, <1>3 DEF Accept, TypeOK, LocalsOK, MainOK, ThreadOK
    <2> QED
      BY <2>1, <2>2, <2>3, <2>4 DEF TypeInv
  <1>4. CASE Scan
    <2>1. TypeOK'
      BY <1>4, <1>0 DEF Scan, TypeOK, MainOK
    <2>2. LocalsOK'
      <3>1. i' \in 0 .. MaxClients
        BY <1>4, <1>0 DEF Scan, LocalsOK
      <3> QED
        BY <3>1, <1>4, <1>0 DEF Scan, LocalsOK
    <2>3. MainOK'
      BY <1>4, <1>0 DEF Scan, MainOK
    <2>4. ASSUME NEW u \in Threads PROVE ThreadOK(u)'
      <3>1. ThreadOK(u)
        BY <1>0
      <3> QED
        BY <3>1, <1>4 DEF Scan, TypeOK, LocalsOK, MainOK, ThreadOK
    <2> QED
      BY <2>1, <2>2, <2>3, <2>4 DEF TypeInv
  <1>5. CASE Store
    <2>1. TypeOK'
      BY <1>5, <1>0 DEF Store, TypeOK, MainOK
    <2>2. LocalsOK'
      BY <1>5, <1>0 DEF Store, LocalsOK
    <2>3. MainOK'
      BY <1>5, <1>0 DEF Store, MainOK
    <2>4. ASSUME NEW u \in Threads PROVE ThreadOK(u)'
      <3>1. ThreadOK(u)
        BY <1>0
      <3> QED
        BY <3>1, <1>5 DEF Store, TypeOK, LocalsOK, MainOK, ThreadOK
    <2> QED
      BY <2>1, <2>2, <2>3, <2>4 DEF TypeInv
  <1>6. CASE Pass
    <2>1. TypeOK'
      BY <1>6, <1>0 DEF Pass, TypeOK
    <2>2. LocalsOK'
      <3>1. pc' \in MainAt /\ i' \in 0 .. MaxClients
        BY <1>6, <1>0 DEF Pass, LocalsOK
      <3>2. sd' \in Socks \cup {0}
        BY <1>6, <1>0 DEF Pass, TypeOK, LocalsOK
      <3> QED
        BY <3>1, <3>2, <1>6, <1>0 DEF Pass, LocalsOK
    <2>3. MainOK'
      BY <1>6, <1>0 DEF Pass, MainOK, LocalsOK, TypeOK
    <2>4. ASSUME NEW u \in Threads PROVE ThreadOK(u)'
      <3>1. ThreadOK(u)
        BY <1>0
      <3> QED
        BY <3>1, <1>6 DEF Pass, TypeOK, LocalsOK, MainOK, ThreadOK
    <2> QED
      BY <2>1, <2>2, <2>3, <2>4 DEF TypeInv
  <1>7. CASE ReadEnd
    <2>1. TypeOK'
      BY <1>7, <1>0 DEF ReadEnd, TypeOK, MainOK
    <2>2. LocalsOK'
      BY <1>7, <1>0 DEF ReadEnd, LocalsOK, MainOK
    <2>3. MainOK'
      BY <1>7, <1>0 DEF ReadEnd, MainOK
    <2>4. ASSUME NEW u \in Threads PROVE ThreadOK(u)'
      <3>1. ThreadOK(u)
        BY <1>0
      <3> QED
        BY <3>1, <1>7 DEF ReadEnd, TypeOK, LocalsOK, MainOK, ThreadOK
    <2> QED
      BY <2>1, <2>2, <2>3, <2>4 DEF TypeInv
  <1>8. CASE ReadLine
    <2>1. TypeOK'
      BY <1>8, <1>0, OutcomesLemma DEF ReadLine, TypeOK, MainOK
    <2>2. LocalsOK'
      BY <1>8, <1>0, OutcomesLemma DEF ReadLine, LocalsOK
    <2>3. MainOK'
      BY <1>8, <1>0, OutcomesLemma DEF ReadLine, MainOK
    <2>4. ASSUME NEW u \in Threads PROVE ThreadOK(u)'
      <3>1. ThreadOK(u)
        BY <1>0
      <3> QED
        BY <3>1, <1>8, OutcomesLemma DEF ReadLine, TypeOK, LocalsOK, MainOK, ThreadOK
    <2> QED
      BY <2>1, <2>2, <2>3, <2>4 DEF TypeInv
  <1>9. CASE Join
    <2>1. TypeOK'
      <3>0. i \in Slots /\ sd \in Socks /\ client_socket[i] \in Socks \cup {0}
        BY <1>9, <1>0 DEF Join, TypeOK, MainOK
      <3>1. private_sockets' \in [Places -> Socks \cup {0}]
        BY <3>0, <1>9, <1>0 DEF Join, TypeOK
      <3>2. p' \in Nat /\ thread_1' \in 0 .. p'
        BY <1>9, <1>0 DEF Join, TypeOK
      <3>3. lost' \subseteq Socks
        BY <3>0, <1>9, <1>0 DEF Join, TypeOK
      <3> QED
        BY <3>1, <3>2, <3>3, <1>9, <1>0 DEF Join, TypeOK
    <2>2. LocalsOK'
      BY <1>9, <1>0 DEF Join, LocalsOK
    <2>0. p \in Nat /\ p' \in {p, p + 1} /\ private_sockets \in [Places -> Socks \cup {0}]
      BY <1>9, <1>0 DEF Join, TypeOK
    <2>3. MainOK'
      <3>1. i \in Slots /\ sd \in Socks /\ p + 1 \in Threads
        BY <1>9, <1>0, <2>0, ThreadsFacts DEF Join, MainOK
      <3>2. tpc[p + 1] = "none"
        <4>1. tpc[p + 1] # "none" => p + 1 <= p
          BY <3>1, <1>0 DEF ThreadOK
        <4> QED
          BY <4>1, <2>0
      <3>3. \A k \in Places : k >= p' => private_sockets'[k] = 0
        <4> SUFFICES ASSUME NEW k \in Places, k >= p' PROVE private_sockets'[k] = 0
          OBVIOUS
        <4>1. CASE p \in Places /\ private_sockets' = [private_sockets EXCEPT ![p] = client_socket[i]]
                   /\ p' = p + 1
          BY <4>1, <2>0, <1>0 DEF MainOK
        <4>2. CASE UNCHANGED private_sockets
          BY <4>2, <2>0, <1>0 DEF MainOK
        <4> QED
          BY <4>1, <4>2, <1>9 DEF Join
      <3> QED
        BY <3>1, <3>2, <3>3, <1>9 DEF Join, MainOK
    <2>4. ASSUME NEW u \in Threads PROVE ThreadOK(u)'
      <3>1. ThreadOK(u)
        BY <1>0
      <3>2. u <= p => u <= p'
        BY <2>0, ThreadsFacts
      <3>3. UNCHANGED <<tpc, thread_1, ti, tp, tsd>>
        BY <1>9 DEF Join
      <3>4. ASSUME ti[u] \in Places, ti[u] < p
            PROVE  ti[u] < p' /\ private_sockets'[ti[u]] = private_sockets[ti[u]]
        BY <3>4, <1>9, <2>0 DEF Join
      <3> QED
        BY <3>1, <3>2, <3>3, <3>4 DEF ThreadOK
    <2> QED
      BY <2>1, <2>2, <2>3, <2>4 DEF TypeInv
  <1>10. CASE Clear
    <2>0. Sent /\ p \in Threads /\ i \in Slots /\ sd \in Socks
      BY <1>10, <1>0, SendersLemma DEF Clear, MainOK
    <2>1. TypeOK'
      <3>1. client_socket' \in [Slots -> Socks \cup {0}] /\ lost' \subseteq Socks
        BY <1>10, <1>0, <2>0 DEF Clear, TypeOK
      <3>2. p' \in Nat /\ thread_1' \in 0 .. p' /\ thread_1' \in Threads \cup {0}
        BY <1>10, <1>0, <2>0 DEF Clear, TypeOK
      <3> QED
        BY <3>1, <3>2, <1>10, <1>0, <2>0 DEF Clear, Sent, TypeOK
    <2>2. LocalsOK'
      BY <1>10, <1>0, SendersLemma, ThreadsFacts DEF Clear, Sent, SendKills, TypeOK,
         LocalsOK, MainOK
    <2>3. MainOK'
      BY <1>10, <1>0, SendersLemma, ThreadsFacts DEF Clear, Sent, SendKills, TypeOK,
         LocalsOK, MainOK
    <2>4. ASSUME NEW u \in Threads PROVE ThreadOK(u)'
      <3>1. ThreadOK(u)
        BY <1>0
      <3> QED
        BY <3>1, <2>0, <1>10, <1>0, ThreadsFacts DEF Clear, TypeOK, LocalsOK, ThreadOK
    <2> QED
      BY <2>1, <2>2, <2>3, <2>4 DEF TypeInv
  <1>11. CASE Echo
    <2>1. TypeOK'
      BY <1>11, <1>0, SendersLemma DEF Echo, Sent, SendKills, TypeOK
    <2>2. LocalsOK'
      BY <1>11, <1>0, SendersLemma DEF Echo, Sent, SendKills, LocalsOK
    <2>3. MainOK'
      BY <1>11, <1>0, SendersLemma DEF Echo, Sent, SendKills, MainOK
    <2>4. ASSUME NEW u \in Threads PROVE ThreadOK(u)'
      <3>1. ThreadOK(u)
        BY <1>0
      <3> QED
        BY <3>1, <1>11, SendersLemma DEF Echo, Sent, SendKills, TypeOK, LocalsOK,
           MainOK, ThreadOK
    <2> QED
      BY <2>1, <2>2, <2>3, <2>4 DEF TypeInv
  <1> QED
    BY <1>1, <1>2, <1>3, <1>4, <1>5, <1>6, <1>7, <1>8, <1>9, <1>10, <1>11 DEF MainStep

\* The steps of a thread keep the types.
LEMMA TypeThread ==
    ASSUME TypeInv, NEW t \in Threads, ThreadStep(t)
    PROVE  TypeInv'
  <1> USE SlotsFacts DEF sharedVars, netVars, mainVars, boundVars, historyVars,
     MainAt, ThreadAt
  <1>0. TypeOK /\ LocalsOK /\ MainOK /\ \A u \in Threads : ThreadOK(u)
    BY DEF TypeInv
  <1>t. TypeOK /\ LocalsOK /\ MainOK /\ ThreadOK(t)
    BY <1>0
  <1>1. CASE Start(t)
    <2>1. TypeOK'
      BY <1>1, <1>t DEF Start, In, ThreadOK, TypeOK
    <2>2. LocalsOK'
      BY <1>1, <1>t DEF Start, In, ThreadOK, LocalsOK
    <2>3. MainOK'
      BY <1>1, <1>t DEF Start, In, ThreadOK, MainOK
    <2>4. ASSUME NEW u \in Threads PROVE ThreadOK(u)'
      <3>1. ThreadOK(u)
        BY <1>0
      <3> QED
        BY <3>1, <1>1, <1>t DEF Start, In, TypeOK, LocalsOK, MainOK, ThreadOK
    <2> QED
      BY <2>1, <2>2, <2>3, <2>4 DEF TypeInv
  <1>2. CASE SelectPrivate(t)
    <2>1. TypeOK'
      BY <1>2, <1>t DEF SelectPrivate, ThreadOK, TypeOK
    <2>2. LocalsOK'
      BY <1>2, <1>t DEF SelectPrivate, ThreadOK, LocalsOK
    <2>3. MainOK'
      BY <1>2, <1>t DEF SelectPrivate, ThreadOK, MainOK
    <2>4. ASSUME NEW u \in Threads PROVE ThreadOK(u)'
      <3>1. ThreadOK(u)
        BY <1>0
      <3> QED
        BY <3>1, <1>2, <1>t DEF SelectPrivate, TypeOK, LocalsOK, MainOK, ThreadOK
    <2> QED
      BY <2>1, <2>2, <2>3, <2>4 DEF TypeInv
  <1>3. CASE PassPrivate(t)
    <2>1. TypeOK'
      BY <1>3, <1>t DEF PassPrivate, ThreadOK, TypeOK
    <2>2. LocalsOK'
      <3>1. ti' \in [Threads -> 0 .. 2]
        BY <1>3, <1>t DEF PassPrivate, LocalsOK
      <3>2. tsd' \in [Threads -> Socks \cup {0}]
        BY <1>3, <1>t DEF PassPrivate, TypeOK, LocalsOK
      <3>3. tpc' \in [Threads -> ThreadAt]
        BY <1>3, <1>t DEF PassPrivate, LocalsOK
      <3> QED
        BY <3>1, <3>2, <3>3, <1>3, <1>t DEF PassPrivate, LocalsOK
    <2>3. MainOK'
      BY <1>3, <1>t DEF PassPrivate, ThreadOK, MainOK, LocalsOK
    <2>4. ASSUME NEW u \in Threads PROVE ThreadOK(u)'
      <3>1. ThreadOK(u)
        BY <1>0
      <3> QED
        <4>1. CASE u # t
          BY <4>1, <3>1, <1>3, <1>t DEF PassPrivate, LocalsOK, ThreadOK
        <4>2. CASE u = t /\ tpc' = [tpc EXCEPT ![t] = "read"]
          <5>1. ti[t] \in Places /\ tsd'[t] = private_sockets[ti[t]] /\ tsd'[t] \in Socks
            BY <4>2, <1>3, <1>t DEF PassPrivate, TypeOK, LocalsOK
          <5>2. ti[t] < p
            BY <5>1, <1>t DEF TypeOK, MainOK
          <5> QED
            BY <5>1, <5>2, <4>2, <3>1, <1>3, <1>t DEF PassPrivate, LocalsOK, ThreadOK
        <4>3. CASE u = t /\ tpc'[t] \in {"pass", "select"}
          BY <4>3, <3>1, <1>3, <1>t DEF PassPrivate, LocalsOK, ThreadOK
        <4> QED
          BY <4>1, <4>2, <4>3, <1>3, <1>t DEF PassPrivate, LocalsOK
    <2> QED
      BY <2>1, <2>2, <2>3, <2>4 DEF TypeInv
  <1>4. CASE ReadPrivate(t)
    <2>1. TypeOK'
      <3>1. tsd[t] \in Socks
        BY <1>4, <1>t DEF ReadPrivate, ThreadOK
      <3>2. PICK r \in Outcomes(tsd[t], tbuffer[t]) :
              /\ tbuffer' = [tbuffer EXCEPT ![t] = r.got]
              /\ inbox' = [inbox EXCEPT ![tsd[t]] = r.left]
              /\ secret' = IF r.got = "leave" THEN secret \ {tsd[t]} ELSE secret
        BY <1>4 DEF ReadPrivate
      <3>3. r.left \in Seq(Lines) /\ r.got \in Lines \cup {tbuffer[t], "end"}
        BY <3>1, <3>2, <1>t, OutcomesLemma
      <3> QED
        BY <3>1, <3>2, <3>3, <1>4, <1>t DEF ReadPrivate, TypeOK
    <2>2. LocalsOK'
      BY <1>4, <1>t, OutcomesLemma DEF ReadPrivate, ThreadOK, LocalsOK
    <2>3. MainOK'
      BY <1>4, <1>t, OutcomesLemma DEF ReadPrivate, ThreadOK, MainOK
    <2>4. ASSUME NEW u \in Threads PROVE ThreadOK(u)'
      <3>1. ThreadOK(u)
        BY <1>0
      <3> QED
        BY <3>1, <1>4, <1>t DEF ReadPrivate, LocalsOK, ThreadOK
    <2> QED
      BY <2>1, <2>2, <2>3, <2>4 DEF TypeInv
  <1>5. CASE ScanPrivate(t)
    <2>1. TypeOK'
      BY <1>5, <1>t DEF ScanPrivate, ThreadOK, TypeOK
    <2>2. LocalsOK'
      <3>1. tp' \in [Threads -> 0 .. MaxClients]
        BY <1>5, <1>t DEF ScanPrivate, LocalsOK
      <3>2. tpc' \in [Threads -> ThreadAt]
        BY <1>5, <1>t DEF ScanPrivate, LocalsOK
      <3> QED
        BY <3>1, <3>2, <1>5, <1>t DEF ScanPrivate, LocalsOK
    <2>3. MainOK'
      BY <1>5, <1>t DEF ScanPrivate, ThreadOK, MainOK, LocalsOK
    <2>4. ASSUME NEW u \in Threads PROVE ThreadOK(u)'
      <3>1. ThreadOK(u)
        BY <1>0
      <3> QED
        BY <3>1, <1>5, <1>t DEF ScanPrivate, LocalsOK, ThreadOK
    <2> QED
      BY <2>1, <2>2, <2>3, <2>4 DEF TypeInv
  <1>6. CASE StorePrivate(t)
    <2>1. TypeOK'
      BY <1>6, <1>t DEF StorePrivate, ThreadOK, TypeOK
    <2>2. LocalsOK'
      BY <1>6, <1>t DEF StorePrivate, ThreadOK, LocalsOK
    <2>3. MainOK'
      BY <1>6, <1>t DEF StorePrivate, ThreadOK, MainOK
    <2>4. ASSUME NEW u \in Threads PROVE ThreadOK(u)'
      <3>1. ThreadOK(u)
        BY <1>0
      <3> QED
        BY <3>1, <1>6, <1>t DEF StorePrivate, TypeOK, LocalsOK, MainOK, ThreadOK
    <2> QED
      BY <2>1, <2>2, <2>3, <2>4 DEF TypeInv
  <1>7. CASE ReplyPrivate(t)
    <2>0. Sent
      BY <1>0, <1>7, SendersLemma
    <2>1. TypeOK'
      BY <1>7, <1>t, <2>0 DEF ReplyPrivate, ThreadOK, Sent, SendKills, TypeOK,
         LocalsOK, MainOK
    <2>2. LocalsOK'
      BY <1>7, <1>t, <2>0 DEF ReplyPrivate, ThreadOK, Sent, SendKills, TypeOK,
         LocalsOK, MainOK
    <2>3. MainOK'
      BY <1>7, <1>t, <2>0 DEF ReplyPrivate, ThreadOK, Sent, SendKills, TypeOK,
         LocalsOK, MainOK
    <2>4. ASSUME NEW u \in Threads PROVE ThreadOK(u)'
      <3>1. ThreadOK(u)
        BY <1>0
      <3> QED
        BY <3>1, <1>7, <1>t, <2>0 DEF ReplyPrivate, Sent, SendKills, TypeOK, LocalsOK,
           MainOK, ThreadOK
    <2> QED
      BY <2>1, <2>2, <2>3, <2>4 DEF TypeInv
  <1>8. CASE Check(t)
    <2>1. TypeOK'
      BY <1>8, <1>t DEF Check, ThreadOK, TypeOK
    <2>2. LocalsOK'
      <3>1. ti' \in [Threads -> 0 .. 2]
        BY <1>8, <1>t DEF Check, ThreadOK, LocalsOK
      <3>2. tpc' \in [Threads -> ThreadAt]
        BY <1>8, <1>t DEF Check, LocalsOK
      <3> QED
        BY <3>1, <3>2, <1>8, <1>t DEF Check, LocalsOK
    <2>3. MainOK'
      BY <1>8, <1>t DEF Check, ThreadOK, MainOK, LocalsOK
    <2>4. ASSUME NEW u \in Threads PROVE ThreadOK(u)'
      <3>1. ThreadOK(u)
        BY <1>0
      <3> QED
        BY <3>1, <1>8, <1>t DEF Check, LocalsOK, ThreadOK
    <2> QED
      BY <2>1, <2>2, <2>3, <2>4 DEF TypeInv
  <1>9. CASE Cancel(t)
    <2>1. TypeOK'
      BY <1>9, <1>t DEF Cancel, ThreadOK, TypeOK
    <2>2. LocalsOK'
      BY <1>9, <1>t DEF Cancel, ThreadOK, LocalsOK
    <2>3. MainOK'
      BY <1>9, <1>t DEF Cancel, ThreadOK, MainOK
    <2>4. ASSUME NEW u \in Threads PROVE ThreadOK(u)'
      <3>1. ThreadOK(u)
        BY <1>0
      <3> QED
        BY <3>1, <1>9, <1>t DEF Cancel, TypeOK, LocalsOK, MainOK, ThreadOK
    <2> QED
      BY <2>1, <2>2, <2>3, <2>4 DEF TypeInv
  <1>10. CASE EchoPrivate(t)
    <2>0. Sent
      BY <1>0, <1>10, SendersLemma
    <2>1. TypeOK'
      BY <1>10, <1>t, <2>0 DEF EchoPrivate, ThreadOK, Sent, SendKills, TypeOK,
         LocalsOK, MainOK
    <2>2. LocalsOK'
      BY <1>10, <1>t, <2>0 DEF EchoPrivate, ThreadOK, Sent, SendKills, TypeOK,
         LocalsOK, MainOK
    <2>3. MainOK'
      BY <1>10, <1>t, <2>0 DEF EchoPrivate, ThreadOK, Sent, SendKills, TypeOK,
         LocalsOK, MainOK
    <2>4. ASSUME NEW u \in Threads PROVE ThreadOK(u)'
      <3>1. ThreadOK(u)
        BY <1>0
      <3> QED
        BY <3>1, <1>10, <1>t, <2>0 DEF EchoPrivate, Sent, SendKills, TypeOK, LocalsOK,
           MainOK, ThreadOK
    <2> QED
      BY <2>1, <2>2, <2>3, <2>4 DEF TypeInv
  <1> QED
    BY <1>1, <1>2, <1>3, <1>4, <1>5, <1>6, <1>7, <1>8, <1>9, <1>10 DEF ThreadStep

-------------------------------------------------------------------------------
(* One thread.  While there is only one, it and main() do not touch the same *)
(* socket: the one in private_sockets[0] is away from client_socket[] until  *)
(* the thread stores it there, and is then left to main().                   *)

Single == tpc[2] = "none"

\* The thread has brought the socket of the first place back.
Returned == tpc[1] = "reply" /\ ti[1] = 0

Away == tpc[1] # "none" /\ private_sockets[0] # 0 /\ ~ Returned

\* What the indices and sockets in the hands of the two are, up to the moment at
\* which a second thread is created.
SoleThread ==
    Single =>
        /\ p >= 2 => p = 2 /\ pc \in {"clear", "sigpipe"}
        /\ tpc[1] \in {"read", "scan", "store"} => private_sockets[ti[1]] # 0
        /\ pc \in {"read", "join", "clear"} => client_socket[i] # 0
        /\ Away /\ pc \in {"scan", "store", "read", "join", "clear"} =>
               private_sockets[0] # sd
        /\ pc = "clear" /\ tpc[1] = "store" /\ ti[1] = 1 => tp[1] # i

\* The following hold until the second join.

NoneClosed == \A k \in Slots : client_socket[k] # 0 => conn[client_socket[k]] # "closed"

Distinct ==
    \A k, l \in Slots : client_socket[k] = client_socket[l] /\ client_socket[k] # 0 => k = l

\* A socket just accepted is new to main().
Accepted ==
    pc \in {"scan", "store"} =>
        conn[sd] # "closed" /\ sd \notin readfds /\ \A k \in Slots : client_socket[k] # sd

\* No call of select() fails.
Watching ==
    /\ pc \in {"select", "accept"} => \A s \in readfds : conn[s] # "closed"
    /\ pc = "accept" => pending > 0

\* The position k is still to be visited in this pass.
ToVisit(k) ==
    \/ pc \in {"accept", "scan", "store"}
    \/ pc = "pass" /\ k >= i
    \/ pc \in {"read", "join", "clear"} /\ k > i

\* What select() reported and is still to be visited has something to read.
Ahead ==
    \A k \in Slots :
        ToVisit(k) /\ client_socket[k] \in readfds => Readable(client_socket[k])

\* So has the socket being visited, which is in no other position.
Current ==
    /\ pc = "read" => Readable(sd)
    /\ pc \in {"read", "join", "clear"} =>
        /\ conn[sd] # "closed"
        /\ \A k \in Slots : client_socket[k] = sd => k = i
        /\ tpc[1] = "none" => client_socket[i] = sd
        /\ pc = "clear" => private_sockets[0] = sd

Calm == p <= 1 => NoneClosed /\ Distinct /\ Accepted /\ Watching /\ Ahead /\ Current

NotListed ==
    /\ conn[private_sockets[0]] # "closed"
    /\ \A k \in Slots : client_socket[k] # private_sockets[0]

\* If the socket that is away was reported by the select() of this very pass, the
\* thread will store it behind the pass, which therefore does not meet it again:
\* the position that the join left empty is behind, and the thread takes the
\* first empty one.
ComesBackBehind ==
    private_sockets[0] \in readfds =>
        /\ pc \notin {"select", "accept", "scan", "store"}
        /\ pc \in {"pass", "read", "join", "clear"} =>
              IF tpc[1] = "store" THEN tp[1] < i
              ELSE \E k \in Slots : /\ k < i /\ client_socket[k] = 0
                                    /\ tpc[1] = "scan" => tp[1] <= k

Back == p <= 1 /\ Away => NotListed /\ ComesBackBehind

CoreInv == SoleThread /\ Calm /\ Back

LEMMA CoreInit == Init => CoreInv
  BY SlotsFacts DEF Init, CoreInv, SoleThread, Calm, Back, Away, NoneClosed, Distinct,
     Accepted, Watching, Ahead, Current

\* What is readable stays so while nothing reads it.
LEMMA ReadableKept ==
    ASSUME TypeOK, NEW s \in Socks, Readable(s),
           \/ UNCHANGED inbox /\ (UNCHANGED conn \/ Sent)
           \/ Connect
           \/ \E u \in Socks : Type(u) \/ Interrupt(u) \/ Stall(u)
    PROVE  Readable(s)'
  <1>1. CASE UNCHANGED inbox /\ (UNCHANGED conn \/ Sent)
    BY <1>1 DEF Readable, Sent
  <1>2. CASE Connect
    BY <1>2 DEF Connect, Readable
  <1>3. ASSUME NEW u \in Socks, Type(u) PROVE Readable(s)'
    <2>1. PICK line \in Lines : inbox' = [inbox EXCEPT ![u] = Append(@, line)]
      BY <1>3 DEF Type
    <2>2. inbox[s] \in Seq(Lines) /\ inbox'[s] \in {inbox[s], Append(inbox[s], line)}
      BY <2>1 DEF TypeOK
    <2>3. inbox[s] # <<>> => inbox'[s] # <<>>
      BY <2>2
    <2> QED
      BY <1>3, <2>3, SMTT(30) DEF Type, Readable
  <1>4. ASSUME NEW u \in Socks, Interrupt(u) PROVE Readable(s)'
    BY <1>4 DEF Interrupt, Readable
  <1>5. ASSUME NEW u \in Socks, Stall(u) PROVE Readable(s)'
    BY <1>5 DEF Stall, Readable
  <1> QED
    BY <1>1, <1>2, <1>3, <1>4, <1>5

\* A step that leaves the arrays and main() alone, and neither reads nor closes,
\* disturbs nothing of what holds until the second join.
LEMMA CalmKept ==
    ASSUME TypeInv, TypeInv', Calm,
           UNCHANGED <<client_socket, private_sockets, p, i, sd, readfds>>,
           UNCHANGED pc \/ pc' = "sigpipe", pending' >= pending,
           tpc'[1] = "none" <=> tpc[1] = "none",
           \A s \in Socks : /\ conn'[s] = "closed" <=> conn[s] = "closed"
                            /\ Readable(s) => Readable(s)'
    PROVE  Calm'
  <1> USE SlotsFacts DEF TypeInv, TypeOK, LocalsOK, MainOK
  <1> SUFFICES ASSUME p <= 1, pc' = pc \/ pc' = "sigpipe",
                      NoneClosed, Distinct, Accepted, Watching, Ahead, Current
               PROVE  /\ NoneClosed' /\ Distinct' /\ Accepted'
                      /\ Watching' /\ Ahead' /\ Current'
    BY DEF Calm
  <1>1. NoneClosed' /\ Distinct'
    BY DEF NoneClosed, Distinct
  <1>2. Accepted' /\ Watching'
    BY SMTT(30) DEF Accepted, Watching
  <1>3. Ahead'
    BY SMTT(30) DEF Ahead, ToVisit
  <1>4. Current'
    BY DEF Current
  <1> QED
    BY <1>1, <1>2, <1>3, <1>4

\* The steps of the clients keep CoreInv.
LEMMA CoreClients ==
    ASSUME TypeInv, TypeInv', CoreInv,
           Connect \/ \E s \in Socks : Type(s) \/ Interrupt(s) \/ Stall(s)
    PROVE  CoreInv'
  <1>i. TypeOK /\ LocalsOK /\ MainOK /\ \A u \in Threads : ThreadOK(u)
    BY DEF TypeInv
  <1> USE SlotsFacts, <1>i DEF CoreInv, TypeOK, LocalsOK, MainOK, sharedVars,
        mainVars, threadVars, historyVars
  <1>1. CASE Connect
    <2>1. SoleThread'
      BY <1>1 DEF Connect, SoleThread, Single, Away, Returned
    <2>2. Calm'
      <3>1. \A r \in Socks : conn'[r] = "closed" <=> conn[r] = "closed"
        BY <1>1 DEF Connect
      <3>2. \A r \in Socks : Readable(r) => Readable(r)'
        BY ReadableKept
      <3> QED
        BY <3>2, <1>1, CalmKept DEF Connect
    <2>3. Back'
      <3> SUFFICES ASSUME p' <= 1, Away' PROVE NotListed' /\ ComesBackBehind'
        BY DEF Back
      <3>0. p <= 1 /\ Calm /\ Back /\ SoleThread
        BY <1>1 DEF Connect
      <3> QED
        BY <1>1 DEF Connect, NotListed, ComesBackBehind, Back, Away, Returned
    <2> QED
      BY <2>1, <2>2, <2>3
  <1>2. ASSUME NEW s \in Socks, Type(s) PROVE CoreInv'
    <2>1. SoleThread'
      BY <1>2 DEF Type, SoleThread, Single, Away, Returned
    <2>2. Calm'
      <3>1. \A r \in Socks : conn'[r] = "closed" <=> conn[r] = "closed"
        BY <1>2 DEF Type
      <3>2. \A r \in Socks : Readable(r) => Readable(r)'
        BY ReadableKept
      <3> QED
        BY <3>2, <1>2, CalmKept DEF Type
    <2>3. Back'
      <3> SUFFICES ASSUME p' <= 1, Away' PROVE NotListed' /\ ComesBackBehind'
        BY DEF Back
      <3>0. p <= 1 /\ Calm /\ Back /\ SoleThread
        BY <1>2 DEF Type
      <3> QED
        BY <1>2 DEF Type, NotListed, ComesBackBehind, Back, Away, Returned
    <2> QED
      BY <2>1, <2>2, <2>3
  <1>3. ASSUME NEW s \in Socks, Interrupt(s) PROVE CoreInv'
    <2>1. SoleThread'
      BY <1>3 DEF Interrupt, SoleThread, Single, Away, Returned
    <2>2. Calm'
      <3>1. \A r \in Socks : conn'[r] = "closed" <=> conn[r] = "closed"
        BY <1>3 DEF Interrupt
      <3>2. \A r \in Socks : Readable(r) => Readable(r)'
        BY ReadableKept
      <3> QED
        BY <3>1, <3>2, <1>3, CalmKept DEF Interrupt
    <2>3. Back'
      <3> SUFFICES ASSUME p' <= 1, Away' PROVE NotListed' /\ ComesBackBehind'
        BY DEF Back
      <3>0. p <= 1 /\ Calm /\ Back /\ SoleThread
        BY <1>3 DEF Interrupt
      <3> QED
        BY <1>3 DEF Interrupt, NotListed, ComesBackBehind, Back, Away, Returned
    <2> QED
      BY <2>1, <2>2, <2>3
  <1>4. ASSUME NEW s \in Socks, Stall(s) PROVE CoreInv'
    <2>1. SoleThread'
      BY <1>4 DEF Stall, SoleThread, Single, Away, Returned
    <2>2. Calm'
      <3>1. \A r \in Socks : conn'[r] = "closed" <=> conn[r] = "closed"
        BY <1>4 DEF Stall
      <3>2. \A r \in Socks : Readable(r) => Readable(r)'
        BY ReadableKept
      <3> QED
        BY <3>1, <3>2, <1>4, CalmKept DEF Stall
    <2>3. Back'
      <3> SUFFICES ASSUME p' <= 1, Away' PROVE NotListed' /\ ComesBackBehind'
        BY DEF Back
      <3>0. p <= 1 /\ Calm /\ Back /\ SoleThread
        BY <1>4 DEF Stall
      <3> QED
        BY <1>4 DEF Stall, NotListed, ComesBackBehind, Back, Away, Returned
    <2> QED
      BY <2>1, <2>2, <2>3
  <1> QED
    BY <1>1, <1>2, <1>3, <1>4

\* The steps of main() keep CoreInv.
LEMMA CoreMain ==
    ASSUME TypeInv, TypeInv', CoreInv, MainStep
    PROVE  CoreInv'
  <1>i. TypeOK /\ LocalsOK /\ MainOK /\ \A u \in Threads : ThreadOK(u)
    BY DEF TypeInv
  <1> USE SlotsFacts, <1>i DEF CoreInv, TypeOK, LocalsOK, MainOK, sharedVars,
        netVars, threadVars, boundVars, historyVars
  <1>o. /\ p <= 1 => Single
        /\ p = 0 => tpc[1] = "none"
    BY DEF ThreadOK, Single
  <1>1. CASE Build
    <2>1. SoleThread'
      BY <1>1 DEF Build, SoleThread, Single
    <2>2. Calm'
      <3> SUFFICES ASSUME p' <= 1
                   PROVE  /\ NoneClosed' /\ Distinct' /\ Accepted'
                          /\ Watching' /\ Ahead' /\ Current'
        BY DEF Calm
      <3>0. p <= 1 /\ NoneClosed /\ Distinct /\ Accepted /\ Watching /\ Ahead /\ Current
        BY <1>1 DEF Calm, Build
      <3>1. NoneClosed' /\ Distinct' /\ Accepted' /\ Watching'
        BY <3>0, <1>1 DEF Build, In, NoneClosed, Distinct, Accepted, Watching
      <3>2. Ahead' /\ Current'
        BY <1>1 DEF Build, Ahead, Current, ToVisit
      <3> QED
        BY <3>1, <3>2
    <2>3. Back'
      <3> SUFFICES ASSUME p' <= 1, Away' PROVE NotListed' /\ ComesBackBehind'
        BY DEF Back
      <3>0. p <= 1 /\ Calm /\ Back /\ SoleThread
        BY <1>1 DEF Build
      <3> QED
        BY <1>1 DEF Build, NotListed, ComesBackBehind, Back, Away, Returned, In
    <2> QED
      BY <2>1, <2>2, <2>3
  <1>2. CASE Select
    <2>1. SoleThread'
      BY <1>2 DEF Select, SoleThread, Single
    <2>2. Calm'
      <3> SUFFICES ASSUME p' <= 1
                   PROVE  /\ NoneClosed' /\ Distinct' /\ Accepted'
                          /\ Watching' /\ Ahead' /\ Current'
        BY DEF Calm
      <3>0. p <= 1 /\ NoneClosed /\ Distinct /\ Accepted /\ Watching /\ Ahead /\ Current
        BY <1>2 DEF Calm, Select
      <3>1. NoneClosed' /\ Distinct' /\ Accepted' /\ Watching'
        BY <3>0, <1>2 DEF Select, BadSet, NoneClosed, Distinct, Accepted, Watching
      <3>2. Ahead' /\ Current'
        <4>1. readfds' = {s \in readfds : Readable(s)}
          BY <3>0, <1>2 DEF Select, BadSet, Watching
        <4>2. \A s \in readfds' : Readable(s)'
          BY <4>1, <1>2, ReadableKept DEF Select
        <4> QED
          BY <4>2, <1>2 DEF Select, Ahead, Current
      <3> QED
        BY <3>1, <3>2
    <2>3. Back'
      <3> SUFFICES ASSUME p' <= 1, Away' PROVE NotListed' /\ ComesBackBehind'
        BY DEF Back
      <3>0. p <= 1 /\ Calm /\ Back /\ SoleThread
        BY <1>2 DEF Select
      <3> QED
        BY <1>2 DEF Select, NotListed, ComesBackBehind, Back, Away, Returned
    <2> QED
      BY <2>1, <2>2, <2>3
  <1>3. CASE Accept
    <2>1. SoleThread'
      BY <1>3 DEF Accept, SoleThread, Single, Away, Returned, Back, NotListed
    <2>2. Calm'
      <3> SUFFICES ASSUME p' <= 1
                   PROVE  /\ NoneClosed' /\ Distinct' /\ Accepted'
                          /\ Watching' /\ Ahead' /\ Current'
        BY DEF Calm
      <3>0. p <= 1 /\ NoneClosed /\ Distinct /\ Accepted /\ Watching /\ Ahead /\ Current
        BY <1>3 DEF Calm, Accept
      <3>1. NoneClosed' /\ Distinct' /\ Accepted' /\ Watching'
        BY <3>0, <1>3 DEF Accept, NoneClosed, Distinct, Accepted, Watching
      <3>2. Ahead' /\ Current'
        BY <3>0, <1>3 DEF Accept, Ahead, Current, ToVisit, Readable, NoneClosed
      <3> QED
        BY <3>1, <3>2
    <2>3. Back'
      <3> SUFFICES ASSUME p' <= 1, Away' PROVE NotListed' /\ ComesBackBehind'
        BY DEF Back
      <3>0. p <= 1 /\ Calm /\ Back /\ SoleThread
        BY <1>3 DEF Accept
      <3> QED
        BY <1>3 DEF Accept, NotListed, ComesBackBehind, Back, Away, Returned
    <2> QED
      BY <2>1, <2>2, <2>3
  <1>4. CASE Scan
    <2>1. SoleThread'
      BY <1>4 DEF Scan, SoleThread, Single, Away, Returned
    <2>2. Calm'
      <3> SUFFICES ASSUME p' <= 1
                   PROVE  /\ NoneClosed' /\ Distinct' /\ Accepted'
                          /\ Watching' /\ Ahead' /\ Current'
        BY DEF Calm
      <3>0. p <= 1 /\ NoneClosed /\ Distinct /\ Accepted /\ Watching /\ Ahead /\ Current
        BY <1>4 DEF Calm, Scan
      <3>1. NoneClosed' /\ Distinct' /\ Accepted' /\ Watching'
        BY <3>0, <1>4 DEF Scan, NoneClosed, Distinct, Accepted, Watching
      <3>2. Ahead' /\ Current'
        BY <3>0, <1>4, ReadableKept DEF Scan, Ahead, Current, ToVisit
      <3> QED
        BY <3>1, <3>2
    <2>3. Back'
      <3> SUFFICES ASSUME p' <= 1, Away' PROVE NotListed' /\ ComesBackBehind'
        BY DEF Back
      <3>0. p <= 1 /\ Calm /\ Back /\ SoleThread
        BY <1>4 DEF Scan
      <3> QED
        BY <1>4 DEF Scan, NotListed, ComesBackBehind, Back, Away, Returned
    <2> QED
      BY <2>1, <2>2, <2>3
  <1>5. CASE Store
    <2>1. SoleThread'
      BY <1>5 DEF Store, SoleThread, Single
    <2>2. Calm'
      <3> SUFFICES ASSUME p' <= 1
                   PROVE  /\ NoneClosed' /\ Distinct' /\ Accepted'
                          /\ Watching' /\ Ahead' /\ Current'
        BY DEF Calm
      <3>0. p <= 1 /\ NoneClosed /\ Distinct /\ Accepted /\ Watching /\ Ahead /\ Current
        BY <1>5 DEF Calm, Store
      <3>1. NoneClosed' /\ Distinct' /\ Accepted' /\ Watching'
        <4>1. /\ client_socket' = [client_socket EXCEPT ![i] = sd]
              /\ i \in Slots /\ sd \in Socks
          BY <1>5 DEF Store
        <4>2. conn[sd] # "closed" /\ \A k \in Slots : client_socket[k] # sd
          BY <3>0, <1>5 DEF Store, Accepted
        <4> QED
          BY <3>0, <4>1, <1>5 DEF Store, NoneClosed, Distinct, Accepted, Watching
      <3>2. Ahead' /\ Current'
        BY <3>0, <1>5, ReadableKept DEF Store, Ahead, Current, ToVisit, Accepted
      <3> QED
        BY <3>1, <3>2
    <2>3. Back'
      <3> SUFFICES ASSUME p' <= 1, Away' PROVE NotListed' /\ ComesBackBehind'
        BY DEF Back
      <3>0. p <= 1 /\ Calm /\ Back /\ SoleThread
        BY <1>5 DEF Store
      <3> QED
        BY <1>5, <1>o DEF Store, NotListed, ComesBackBehind, Back, SoleThread, Away, Returned
    <2> QED
      BY <2>1, <2>2, <2>3
  <1>6. CASE Pass
    <2>1. SoleThread'
      BY <1>6 DEF Pass, SoleThread, Single, Away, Returned, Back, NotListed
    <2>2. Calm'
      <3> SUFFICES ASSUME p' <= 1
                   PROVE  /\ NoneClosed' /\ Distinct' /\ Accepted'
                          /\ Watching' /\ Ahead' /\ Current'
        BY DEF Calm
      <3>0. p <= 1 /\ NoneClosed /\ Distinct /\ Accepted /\ Watching /\ Ahead /\ Current
        BY <1>6 DEF Calm, Pass
      <3>1. NoneClosed' /\ Distinct' /\ Accepted' /\ Watching'
        BY <3>0, <1>6 DEF Pass, NoneClosed, Distinct, Accepted, Watching
      <3>2. Ahead'
        BY <3>0, <1>6 DEF Pass, Ahead, ToVisit, Readable
      <3>3. Current'
        <4>1. CASE pc' = "read"
          <5>1. i \in Slots /\ sd' = client_socket[i] /\ client_socket[i] \in readfds
            BY <4>1, <1>6 DEF Pass
          <5>2. UNCHANGED <<i, client_socket, conn, inbox, tpc>>
            BY <4>1, <1>6 DEF Pass
          <5>3. Readable(sd')
            BY <5>1, <3>0, <1>6 DEF Pass, Ahead, ToVisit
          <5>4. conn[sd'] # "closed" /\ \A k \in Slots : client_socket[k] = sd' => k = i
            BY <5>1, <3>0 DEF NoneClosed, Distinct, TypeOK
          <5> QED
            BY <4>1, <5>1, <5>2, <5>3, <5>4 DEF Current, Readable
        <4>2. CASE pc' # "read"
          BY <4>2, <1>6 DEF Pass, Current
        <4> QED
          BY <4>1, <4>2
      <3> QED
        BY <3>1, <3>2, <3>3
    <2>3. Back'
      <3> SUFFICES ASSUME p' <= 1, Away' PROVE NotListed' /\ ComesBackBehind'
        BY DEF Back
      <3>0. p <= 1 /\ Calm /\ Back /\ SoleThread
        BY <1>6 DEF Pass
      <3> QED
        BY <1>6 DEF Pass, NotListed, ComesBackBehind, Back, Away, Returned
    <2> QED
      BY <2>1, <2>2, <2>3
  <1>7. CASE ReadEnd
    <2>1. SoleThread'
      BY <1>7 DEF ReadEnd, SoleThread, Single
    <2>2. Calm'
      <3> SUFFICES ASSUME p' <= 1
                   PROVE  /\ NoneClosed' /\ Distinct' /\ Accepted'
                          /\ Watching' /\ Ahead' /\ Current'
        BY DEF Calm
      <3>0. p <= 1 /\ NoneClosed /\ Distinct /\ Accepted /\ Watching /\ Ahead /\ Current
        BY <1>7 DEF Calm, ReadEnd
      <3>1. NoneClosed' /\ Distinct' /\ Accepted' /\ Watching'
        BY <3>0, <1>7 DEF ReadEnd, NoneClosed, Distinct, Accepted, Watching, Current,
           Single
      <3>2. Ahead' /\ Current'
        BY <3>0, <1>7 DEF ReadEnd, Ahead, Current, ToVisit, Readable
      <3> QED
        BY <3>1, <3>2
    <2>3. Back'
      <3> SUFFICES ASSUME p' <= 1, Away' PROVE NotListed' /\ ComesBackBehind'
        BY DEF Back
      <3>0. p <= 1 /\ Calm /\ Back /\ SoleThread
        BY <1>7 DEF ReadEnd
      <3> QED
        BY <1>7, <1>o DEF ReadEnd, NotListed, ComesBackBehind, Back, SoleThread, Away,
           Returned
    <2> QED
      BY <2>1, <2>2, <2>3
  <1>8. CASE ReadLine
    <2>1. SoleThread'
      BY <1>8 DEF ReadLine, SoleThread, Single, Away, Returned
    <2>2. Calm'
      <3> SUFFICES ASSUME p' <= 1
                   PROVE  /\ NoneClosed' /\ Distinct' /\ Accepted'
                          /\ Watching' /\ Ahead' /\ Current'
        BY DEF Calm
      <3>0. p <= 1 /\ NoneClosed /\ Distinct /\ Accepted /\ Watching /\ Ahead /\ Current
        BY <1>8 DEF Calm, ReadLine
      <3>1. NoneClosed' /\ Distinct' /\ Accepted' /\ Watching'
        BY <3>0, <1>8 DEF ReadLine, NoneClosed, Distinct, Accepted, Watching
      <3>2. Ahead' /\ Current'
        BY <3>0, <1>8, ReadableKept DEF ReadLine, Ahead, Current, ToVisit, Readable
      <3> QED
        BY <3>1, <3>2
    <2>3. Back'
      <3> SUFFICES ASSUME p' <= 1, Away' PROVE NotListed' /\ ComesBackBehind'
        BY DEF Back
      <3>0. p <= 1 /\ Calm /\ Back /\ SoleThread
        BY <1>8 DEF ReadLine
      <3> QED
        BY <1>8 DEF ReadLine, NotListed, ComesBackBehind, Back, Away, Returned
    <2> QED
      BY <2>1, <2>2, <2>3
  <1>9. CASE Join
    <2>1. SoleThread'
      <3> SUFFICES ASSUME Single' PROVE SoleThread'
        BY DEF SoleThread
      <3>1. Single /\ p \in Places /\ i \in Slots
        BY <1>9 DEF Join, SoleThread, Single
      <3>2. /\ p' = p + 1 /\ pc' = "clear"
            /\ private_sockets' = [private_sockets EXCEPT ![p] = client_socket[i]]
            /\ UNCHANGED <<client_socket, sd, i, tpc, ti, tp>>
        BY <3>1, <1>9 DEF Join
      <3>3. client_socket[i] # 0
        BY <3>1, <1>9 DEF Join, SoleThread
      <3>4. tpc[1] \in {"read", "scan", "store"} =>
                /\ ti[1] \in Places /\ ti[1] < p /\ private_sockets'[ti[1]] # 0
        BY <3>1, <3>2 DEF SoleThread, ThreadOK
      <3>5. Away' => private_sockets'[0] # sd
        <4>1. Away' => p = 1
          BY <3>1, <3>2, <1>o DEF Away
        <4>2. p = 1 => private_sockets'[0] = private_sockets[0]
          BY <3>2
        <4> QED
          BY <4>1, <4>2, <3>1, <3>2, <1>9 DEF Away, Returned, SoleThread, Join
      <3> QED
        BY <3>1, <3>2, <3>3, <3>4, <3>5 DEF SoleThread
    <2>2. Calm'
      <3> SUFFICES ASSUME p' <= 1
                   PROVE  /\ NoneClosed' /\ Distinct' /\ Accepted'
                          /\ Watching' /\ Ahead' /\ Current'
        BY DEF Calm
      <3>0. p <= 1 /\ NoneClosed /\ Distinct /\ Accepted /\ Watching /\ Ahead /\ Current
        BY <1>9 DEF Calm, Join
      <3>1. NoneClosed' /\ Distinct' /\ Accepted' /\ Watching'
        BY <3>0, <1>9 DEF Join, NoneClosed, Distinct, Accepted, Watching
      <3>2. Ahead' /\ Current'
        <4>1. /\ p' = p + 1 /\ pc' = "clear"
              /\ private_sockets' = [private_sockets EXCEPT ![p] = client_socket[i]]
              /\ UNCHANGED <<client_socket, sd, i, tpc, readfds, conn, inbox>>
          BY <3>0, <1>9 DEF Join
        <4>2. p = 0 /\ client_socket[i] = sd
          BY <3>0, <4>1, <1>9, <1>o DEF Join, Current
        <4>3. Ahead'
          BY <3>0, <4>1, <1>9 DEF Join, Ahead, ToVisit, Readable
        <4> QED
          BY <3>0, <4>1, <4>2, <4>3, <1>9 DEF Join, Current
      <3> QED
        BY <3>1, <3>2
    <2>3. Back'
      <3> SUFFICES ASSUME p' <= 1, Away' PROVE NotListed' /\ ComesBackBehind'
        BY DEF Back
      <3>0. p <= 1 /\ Calm /\ Back /\ SoleThread
        BY <1>9 DEF Join
      <3> QED
        BY <1>9, <1>o DEF Join, Away
    <2> QED
      BY <2>1, <2>2, <2>3
  <1>10. CASE Clear
    <2>0. Sent
      BY <1>10, SendersLemma
    <2>1. SoleThread'
      BY <1>10 DEF Clear, SendKills, SoleThread, Single
    <2>2. Calm'
      <3> SUFFICES ASSUME p' <= 1
                   PROVE  /\ NoneClosed' /\ Distinct' /\ Accepted'
                          /\ Watching' /\ Ahead' /\ Current'
        BY DEF Calm
      <3>0. p <= 1 /\ NoneClosed /\ Distinct /\ Accepted /\ Watching /\ Ahead /\ Current
        BY <1>10 DEF Calm, Clear
      <3>1. NoneClosed' /\ Distinct' /\ Accepted' /\ Watching'
        BY <3>0, <2>0, <1>10 DEF Clear, Sent, SendKills, NoneClosed, Distinct, Accepted,
           Watching, Current, Back, Returned
      <3>2. Ahead' /\ Current'
        <4>1. /\ pc' \in {"pass", "sigpipe"} /\ i' = i + 1
              /\ client_socket' = [client_socket EXCEPT ![i] = 0]
              /\ UNCHANGED <<readfds, inbox>>
          BY <1>10 DEF Clear, SendKills
        <4>2. ASSUME NEW k \in Slots, ToVisit(k)', client_socket'[k] \in readfds
              PROVE  Readable(client_socket[k])'
          <5>1. k \in Slots /\ k > i /\ client_socket'[k] = client_socket[k]
            BY <4>1, <4>2, <1>10 DEF ToVisit, Clear
          <5>2. ToVisit(k) /\ client_socket[k] \in readfds /\ client_socket[k] \in Socks
            BY <4>2, <5>1, <1>10 DEF ToVisit, Clear
          <5>3. Readable(client_socket[k])
            BY <3>0, <5>2 DEF Ahead
          <5> QED
            BY <5>1, <5>2, <5>3, <4>1, <2>0 DEF Readable, Sent
        <4>3. Ahead'
          BY <4>1, <4>2 DEF Ahead
        <4> QED
          BY <4>1, <4>3 DEF Current
      <3> QED
        BY <3>1, <3>2
    <2>3. Back'
      <3> SUFFICES ASSUME p' <= 1, Away' PROVE NotListed' /\ ComesBackBehind'
        BY DEF Back
      <3>0. p <= 1 /\ Calm /\ Back /\ SoleThread
        BY <1>10 DEF Clear
      <3> QED
        BY <2>0, <1>10 DEF Clear, Sent, SendKills, NotListed, ComesBackBehind, Calm,
           Current
    <2> QED
      BY <2>1, <2>2, <2>3
  <1>11. CASE Echo
    <2>0. Sent
      BY <1>11, SendersLemma
    <2>1. SoleThread'
      BY <1>11 DEF Echo, SendKills, SoleThread, Single
    <2>2. Calm'
      <3> SUFFICES ASSUME p' <= 1
                   PROVE  /\ NoneClosed' /\ Distinct' /\ Accepted'
                          /\ Watching' /\ Ahead' /\ Current'
        BY DEF Calm
      <3>0. p <= 1 /\ NoneClosed /\ Distinct /\ Accepted /\ Watching /\ Ahead /\ Current
        BY <1>11 DEF Calm, Echo
      <3>1. NoneClosed' /\ Distinct' /\ Accepted' /\ Watching'
        BY <3>0, <2>0, <1>11 DEF Echo, Sent, SendKills, NoneClosed, Distinct, Accepted,
           Watching, SoleThread
      <3>2. Ahead' /\ Current'
        BY <1>11 DEF Echo, SendKills, Ahead, Current, ToVisit
      <3> QED
        BY <3>1, <3>2
    <2>3. Back'
      <3> SUFFICES ASSUME p' <= 1, Away' PROVE NotListed' /\ ComesBackBehind'
        BY DEF Back
      <3>0. p <= 1 /\ Calm /\ Back /\ SoleThread
        BY <1>11 DEF Echo
      <3> QED
        BY <2>0, <1>11 DEF Echo, Sent, SendKills, NotListed, ComesBackBehind, Back, Away,
           Returned
    <2> QED
      BY <2>1, <2>2, <2>3
  <1> QED
    BY <1>1, <1>2, <1>3, <1>4, <1>5, <1>6, <1>7, <1>8, <1>9, <1>10, <1>11 DEF MainStep

\* The steps of a thread keep CoreInv.
LEMMA CoreThread ==
    ASSUME TypeInv, TypeInv', CoreInv, NEW t \in Threads, ThreadStep(t)
    PROVE  CoreInv'
  <1>i. TypeOK /\ LocalsOK /\ MainOK /\ \A u \in Threads : ThreadOK(u)
    BY DEF TypeInv
  <1> USE SlotsFacts, <1>i DEF CoreInv, TypeOK, LocalsOK, MainOK, sharedVars,
        netVars, mainVars, boundVars, historyVars
  <1>0. /\ p <= 1 => t = 1
        /\ Single => t = 1
    <2>1. tpc[t] # "none"
      BY DEF ThreadStep, Start, SelectPrivate, PassPrivate, ReadPrivate, ScanPrivate,
         StorePrivate, ReplyPrivate, Check, Cancel, EchoPrivate
    <2>2. t <= p /\ p \in Nat
      BY <2>1 DEF ThreadOK
    <2>3. p <= 1 => t = 1
      BY <2>2, ThreadsFacts
    <2>4. Single => p <= 2 /\ t # 2
      BY <2>1 DEF SoleThread, Single
    <2>5. Single => t <= 2
      BY <2>2, <2>4, SMT
    <2> QED
      BY <2>3, <2>4, <2>5, ThreadsFacts
  <1> USE <1>0
  <1>o. /\ p <= 1 => Single
        /\ p <= 1 /\ tpc[t] \in {"read", "scan", "store", "reply"} =>
              ti[t] = 0 /\ tsd[t] \in Socks /\ private_sockets[0] \in {0, tsd[t]}
        /\ p <= 1 /\ tpc[t] \in {"read", "scan", "store"} => Away /\ private_sockets[0] = tsd[t]
        /\ tpc[t] = "store" => tp[t] \in Slots
    <2>1. p <= 1 => Single
      BY DEF ThreadOK, Single
    <2>2. /\ tpc[t] \in {"read", "scan", "store", "reply"} =>
              /\ ti[t] \in Places /\ ti[t] < p
              /\ tsd[t] \in Socks /\ private_sockets[ti[t]] \in {0, tsd[t]}
          /\ tpc[t] = "store" => tp[t] \in Slots
      BY DEF ThreadOK
    <2>3. p <= 1 /\ tpc[t] \in {"read", "scan", "store", "reply"} => ti[t] = 0
      BY <2>2
    <2> QED
      BY <2>1, <2>2, <2>3 DEF SoleThread, Away, Returned
  <1>1. CASE Start(t)
    <2>1. SoleThread'
      BY <1>1 DEF Start, SoleThread, Single, Away, Returned
    <2>2. Calm'
      <3>1. \A r \in Socks : conn'[r] = "closed" <=> conn[r] = "closed"
        BY <1>1 DEF Start
      <3>2. \A r \in Socks : Readable(r) => Readable(r)'
        BY <1>1, ReadableKept DEF Start
      <3> QED
        BY <3>1, <3>2, <1>1, CalmKept, SMTT(30) DEF Start
    <2>3. Back'
      <3> SUFFICES ASSUME p' <= 1, Away' PROVE NotListed' /\ ComesBackBehind'
        BY DEF Back
      <3>0. p <= 1 /\ Calm /\ Back /\ SoleThread
        BY <1>1 DEF Start
      <3> QED
        BY <1>1 DEF Start, NotListed, ComesBackBehind, Back, Away, Returned
    <2> QED
      BY <2>1, <2>2, <2>3
  <1>2. CASE SelectPrivate(t)
    <2>1. SoleThread'
      BY <1>2 DEF SelectPrivate, SoleThread, Single, Away, Returned
    <2>2. Calm'
      <3>1. \A r \in Socks : conn'[r] = "closed" <=> conn[r] = "closed"
        BY <1>2 DEF SelectPrivate
      <3>2. \A r \in Socks : Readable(r) => Readable(r)'
        BY <1>2, ReadableKept DEF SelectPrivate
      <3> QED
        BY <3>2, <1>2, CalmKept, SMTT(30) DEF SelectPrivate
    <2>3. Back'
      <3> SUFFICES ASSUME p' <= 1, Away' PROVE NotListed' /\ ComesBackBehind'
        BY DEF Back
      <3>0. p <= 1 /\ Calm /\ Back /\ SoleThread
        BY <1>2 DEF SelectPrivate
      <3> QED
        BY <1>2 DEF SelectPrivate, NotListed, ComesBackBehind, Back, Away, Returned
    <2> QED
      BY <2>1, <2>2, <2>3
  <1>3. CASE PassPrivate(t)
    <2>1. SoleThread'
      BY <1>3 DEF PassPrivate, SoleThread, Single, Away, Returned
    <2>2. Calm'
      <3>1. \A r \in Socks : conn'[r] = "closed" <=> conn[r] = "closed"
        BY <1>3 DEF PassPrivate
      <3>2. \A r \in Socks : Readable(r) => Readable(r)'
        BY <1>3, ReadableKept DEF PassPrivate
      <3> QED
        BY <3>2, <1>3, CalmKept DEF PassPrivate
    <2>3. Back'
      <3> SUFFICES ASSUME p' <= 1, Away' PROVE NotListed' /\ ComesBackBehind'
        BY DEF Back
      <3>0. p <= 1 /\ Calm /\ Back /\ SoleThread
        BY <1>3 DEF PassPrivate
      <3> QED
        BY <1>3 DEF PassPrivate, NotListed, ComesBackBehind, Back, Away, Returned
    <2> QED
      BY <2>1, <2>2, <2>3
  <1>4. CASE ReadPrivate(t)
    <2>1. SoleThread'
      BY <1>4 DEF ReadPrivate, SoleThread, Single, Away, Returned
    <2>2. Calm'
      <3> SUFFICES ASSUME p' <= 1
                   PROVE  /\ NoneClosed' /\ Distinct' /\ Accepted'
                          /\ Watching' /\ Ahead' /\ Current'
        BY DEF Calm
      <3>0. p <= 1 /\ NoneClosed /\ Distinct /\ Accepted /\ Watching /\ Ahead /\ Current
        BY <1>4 DEF Calm, ReadPrivate
      <3>1. NoneClosed' /\ Distinct' /\ Accepted' /\ Watching'
        BY <3>0, <1>4 DEF ReadPrivate, NoneClosed, Distinct, Accepted, Watching, NotListed
      <3>2. Ahead' /\ Current'
        <4>1. /\ t = 1 /\ Away /\ tsd[t] = private_sockets[0] /\ tsd[t] \in Socks
              /\ NotListed
          BY <3>0, <1>4, <1>o DEF ReadPrivate, Back
        <4>2. \A r \in Socks \ {tsd[t]} : Readable(r) => Readable(r)'
          BY <4>1, <1>4 DEF ReadPrivate, Readable
        <4>3. Ahead'
          BY <3>0, <4>1, <4>2, <1>4 DEF ReadPrivate, Ahead, ToVisit, NotListed
        <4>4. pc = "read" => sd \in Socks \ {tsd[t]}
          BY <3>0, <4>1, <1>o DEF SoleThread
        <4>5. Current'
          BY <3>0, <4>1, <4>2, <4>4, <1>4 DEF ReadPrivate, Current
        <4> QED
          BY <4>3, <4>5
      <3> QED
        BY <3>1, <3>2
    <2>3. Back'
      <3> SUFFICES ASSUME p' <= 1, Away' PROVE NotListed' /\ ComesBackBehind'
        BY DEF Back
      <3>0. p <= 1 /\ Calm /\ Back /\ SoleThread
        BY <1>4 DEF ReadPrivate
      <3> QED
        BY <1>4 DEF ReadPrivate, NotListed, ComesBackBehind, Back, Away, Returned
    <2> QED
      BY <2>1, <2>2, <2>3
  <1>5. CASE ScanPrivate(t)
    <2>1. SoleThread'
      BY <1>5 DEF ScanPrivate, SoleThread, Single, Away, Returned
    <2>2. Calm'
      <3>1. \A r \in Socks : conn'[r] = "closed" <=> conn[r] = "closed"
        BY <1>5 DEF ScanPrivate
      <3>2. \A r \in Socks : Readable(r) => Readable(r)'
        BY <1>5, ReadableKept DEF ScanPrivate
      <3> QED
        BY <3>2, <1>5, CalmKept DEF ScanPrivate
    <2>3. Back'
      <3> SUFFICES ASSUME p' <= 1, Away' PROVE NotListed' /\ ComesBackBehind'
        BY DEF Back
      <3>0. p <= 1 /\ Calm /\ Back /\ SoleThread
        BY <1>5 DEF ScanPrivate
      <3> QED
        BY <1>5 DEF ScanPrivate, NotListed, ComesBackBehind, Back, Away, Returned
    <2> QED
      BY <2>1, <2>2, <2>3
  <1>6. CASE StorePrivate(t)
    <2>1. SoleThread'
      BY <1>6 DEF StorePrivate, SoleThread, Single, Away, Returned
    <2>2. Calm'
      <3> SUFFICES ASSUME p' <= 1
                   PROVE  /\ NoneClosed' /\ Distinct' /\ Accepted'
                          /\ Watching' /\ Ahead' /\ Current'
        BY DEF Calm
      <3>0. p <= 1 /\ NoneClosed /\ Distinct /\ Accepted /\ Watching /\ Ahead /\ Current
        BY <1>6 DEF Calm, StorePrivate
      <3>1. NoneClosed' /\ Distinct' /\ Accepted' /\ Watching'
        <4>1. /\ client_socket' = [client_socket EXCEPT ![tp[t]] = private_sockets[0]]
              /\ tp[t] \in Slots /\ private_sockets[0] \in Socks /\ Away /\ NotListed
              /\ UNCHANGED <<conn, pc, sd, readfds, pending>>
              /\ pc \in {"scan", "store"} => private_sockets[0] # sd
          BY <3>0, <1>6, <1>o DEF StorePrivate, Back, SoleThread
        <4>2. NoneClosed' /\ Distinct'
          BY <3>0, <4>1 DEF NoneClosed, Distinct, NotListed
        <4>3. Accepted' /\ Watching'
          BY <3>0, <4>1 DEF Accepted, Watching
        <4> QED
          BY <4>2, <4>3
      <3>2. Ahead' /\ Current'
        <4>1. /\ client_socket' = [client_socket EXCEPT ![tp[t]] = private_sockets[0]]
              /\ t = 1 /\ tpc[1] = "store" /\ tpc'[1] = "reply"
              /\ tp[t] \in Slots /\ private_sockets[0] \in Socks /\ Away /\ ComesBackBehind
              /\ UNCHANGED <<conn, inbox, pc, i, sd, readfds, private_sockets>>
          BY <3>0, <1>6, <1>o DEF StorePrivate, Back
        <4>2. ASSUME NEW k \in Slots, ToVisit(k), client_socket'[k] \in readfds
              PROVE  Readable(client_socket'[k])
          <5>1. CASE k # tp[t]
            BY <3>0, <4>1, <4>2, <5>1 DEF Ahead
          <5>2. CASE k = tp[t]
            <6>1. private_sockets[0] \in readfds
              BY <4>1, <4>2, <5>2
            <6> QED
              BY <4>1, <4>2, <5>2, <6>1 DEF ComesBackBehind, ToVisit
          <5> QED
            BY <5>1, <5>2
        <4>3. Ahead'
          BY <4>1, <4>2 DEF Ahead, ToVisit, Readable
        <4>4. pc \in {"read", "join", "clear"} => sd # private_sockets[0]
          BY <4>1, <3>0, <1>o DEF SoleThread
        <4>5. Current'
          BY <3>0, <4>1, <4>4 DEF Current, Readable
        <4> QED
          BY <4>3, <4>5
      <3> QED
        BY <3>1, <3>2
    <2>3. Back'
      <3> SUFFICES ASSUME p' <= 1, Away' PROVE NotListed' /\ ComesBackBehind'
        BY DEF Back
      <3>0. p <= 1 /\ Calm /\ Back /\ SoleThread
        BY <1>6 DEF StorePrivate
      <3> QED
        BY <3>0, <1>6, <1>o DEF StorePrivate, Away, Returned
    <2> QED
      BY <2>1, <2>2, <2>3
  <1>7. CASE ReplyPrivate(t)
    <2>0. Sent
      BY <1>7, SendersLemma
    <2>1. SoleThread'
      BY <1>7 DEF ReplyPrivate, SendKills, SoleThread, Single, Away, Returned
    <2>2. Calm'
      <3> SUFFICES ASSUME p' <= 1
                   PROVE  /\ NoneClosed' /\ Distinct' /\ Accepted'
                          /\ Watching' /\ Ahead' /\ Current'
        BY DEF Calm
      <3>0. p <= 1 /\ NoneClosed /\ Distinct /\ Accepted /\ Watching /\ Ahead /\ Current
        BY <1>7 DEF Calm, ReplyPrivate
      <3>1. NoneClosed' /\ Distinct' /\ Accepted' /\ Watching'
        BY <3>0, <2>0, <1>7 DEF ReplyPrivate, Sent, SendKills, NoneClosed, Distinct,
           Accepted, Watching, Back, Away
      <3>2. Ahead' /\ Current'
        BY <3>0, <2>0, <1>7 DEF ReplyPrivate, Sent, SendKills, Ahead, Current, ToVisit,
           Readable, Distinct, NoneClosed
      <3> QED
        BY <3>1, <3>2
    <2>3. Back'
      <3> SUFFICES ASSUME p' <= 1, Away' PROVE NotListed' /\ ComesBackBehind'
        BY DEF Back
      <3>0. p <= 1 /\ Calm /\ Back /\ SoleThread
        BY <1>7 DEF ReplyPrivate
      <3> QED
        BY <3>0, <1>7, <1>o DEF ReplyPrivate, Away
    <2> QED
      BY <2>1, <2>2, <2>3
  <1>8. CASE Check(t)
    <2>1. SoleThread'
      BY <1>8 DEF Check, SoleThread, Single, Away, Returned
    <2>2. Calm'
      <3>1. \A r \in Socks : conn'[r] = "closed" <=> conn[r] = "closed"
        BY <1>8 DEF Check
      <3>2. \A r \in Socks : Readable(r) => Readable(r)'
        BY <1>8, ReadableKept DEF Check
      <3> QED
        BY <3>2, <1>8, CalmKept DEF Check
    <2>3. Back'
      <3> SUFFICES ASSUME p' <= 1, Away' PROVE NotListed' /\ ComesBackBehind'
        BY DEF Back
      <3>0. p <= 1 /\ Calm /\ Back /\ SoleThread
        BY <1>8 DEF Check
      <3> QED
        BY <1>8 DEF Check, NotListed, ComesBackBehind, Back, Away, Returned
    <2> QED
      BY <2>1, <2>2, <2>3
  <1>9. CASE Cancel(t)
    <2>1. SoleThread'
      BY <1>9 DEF Cancel, SoleThread, Single, Away, Returned
    <2>2. Calm'
      <3>1. \A r \in Socks : conn'[r] = "closed" <=> conn[r] = "closed"
        BY <1>9 DEF Cancel
      <3>2. \A r \in Socks : Readable(r) => Readable(r)'
        BY <1>9, ReadableKept DEF Cancel
      <3> QED
        BY <3>2, <1>9, CalmKept DEF Cancel
    <2>3. Back'
      <3> SUFFICES ASSUME p' <= 1, Away' PROVE NotListed' /\ ComesBackBehind'
        BY DEF Back
      <3>0. p <= 1 /\ Calm /\ Back /\ SoleThread
        BY <1>9 DEF Cancel
      <3> QED
        BY <1>9 DEF Cancel, NotListed, ComesBackBehind, Back, Away, Returned
    <2> QED
      BY <2>1, <2>2, <2>3
  <1>10. CASE EchoPrivate(t)
    <2>0. Sent
      BY <1>10, SendersLemma
    <2>1. SoleThread'
      BY <1>10 DEF EchoPrivate, SendKills, SoleThread, Single, Away, Returned
    <2>2. Calm'
      <3>1. \A r \in Socks : conn'[r] = "closed" <=> conn[r] = "closed"
        BY <2>0 DEF Sent
      <3>2. \A r \in Socks : Readable(r) => Readable(r)'
        BY <2>0, <1>10, ReadableKept DEF EchoPrivate
      <3> QED
        BY <3>1, <3>2, <1>10, CalmKept DEF EchoPrivate, SendKills
    <2>3. Back'
      <3> SUFFICES ASSUME p' <= 1, Away' PROVE NotListed' /\ ComesBackBehind'
        BY DEF Back
      <3>0. p <= 1 /\ Calm /\ Back /\ SoleThread
        BY <1>10 DEF EchoPrivate
      <3> QED
        BY <2>0, <1>10 DEF EchoPrivate, Sent, SendKills, NotListed, ComesBackBehind, Back,
           Away, Returned
    <2> QED
      BY <2>1, <2>2, <2>3
  <1> QED
    BY <1>1, <1>2, <1>3, <1>4, <1>5, <1>6, <1>7, <1>8, <1>9, <1>10 DEF ThreadStep

-------------------------------------------------------------------------------
(* No client vanishes. *)

\* A thread is about to clear the place q.
Vacating(q) == \E t \in Threads : tpc[t] = "reply" /\ ti[t] = q

InPrivate(s) == \E q \in Places : private_sockets[q] = s /\ ~ Vacating(q)

Kept(s) ==
    \/ conn[s] = "closed" \/ s \in lost
    \/ \E k \in Slots : client_socket[k] = s
    \/ pc \in {"scan", "store"} /\ sd = s

\* NothingElseVanishes, with the places that a thread is about to clear left out:
\* by then the socket has been stored.
Held == Up => \A s \in Socks : Kept(s) \/ InPrivate(s)

\* main() is about to clear the position i: the socket it holds for it is, by
\* now, somewhere else, or found no place.
Clearing ==
    pc = "clear" =>
        /\ p > 2 => sd \in lost
        /\ \/ conn[sd] = "closed" \/ sd \in lost \/ InPrivate(sd)
           \/ \E k \in Slots \ {i} : client_socket[k] = sd

HeldInv == Held /\ Clearing

LEMMA HeldInit == Init => HeldInv
  BY DEF Init, HeldInv, Held, Kept, Clearing

\* A step that closes nothing and leaves what main() and the threads hold alone,
\* without one more thread about to clear its place.
LEMMA HeldKept ==
    ASSUME TypeInv, HeldInv, Up,
           UNCHANGED <<client_socket, private_sockets, p, lost, sd, i>>,
           \/ UNCHANGED pc
           \/ pc \notin {"scan", "store"} /\ pc' \notin {"scan", "store", "clear"},
           \A q \in Places : Vacating(q)' => Vacating(q),
           \A s \in Socks : conn[s] = "closed" => conn'[s] = "closed"
    PROVE  HeldInv'
  <1> USE DEF HeldInv, TypeInv, TypeOK, MainOK
  <1>1. \A s \in Socks : Kept(s) => Kept(s)'
    BY DEF Kept
  <1>2. \A s \in Socks : InPrivate(s) => InPrivate(s)'
    BY DEF InPrivate
  <1>3. Held'
    BY <1>1, <1>2 DEF Held
  <1>4. Clearing'
    BY <1>2 DEF Clearing
  <1> QED
    BY <1>3, <1>4

\* The steps of the clients keep HeldInv.
LEMMA HeldClients ==
    ASSUME TypeInv, TypeInv', SoleThread, HeldInv, Up,
           Connect \/ \E s \in Socks : Type(s) \/ Interrupt(s) \/ Stall(s)
    PROVE  HeldInv'
  <1>i. TypeOK /\ LocalsOK /\ MainOK /\ \A u \in Threads : ThreadOK(u)
    BY DEF TypeInv
  <1> USE SlotsFacts, <1>i DEF HeldInv, Up, TypeOK, LocalsOK, MainOK, sharedVars,
        mainVars, threadVars, historyVars
  <1>1. CASE Connect
    BY <1>1 DEF Connect, Held, Kept, InPrivate, Vacating, Clearing, Returned
  <1>2. ASSUME NEW s \in Socks, Type(s) PROVE HeldInv'
    BY <1>2 DEF Type, Held, Kept, InPrivate, Vacating, Clearing
  <1>3. ASSUME NEW s \in Socks, Interrupt(s) PROVE HeldInv'
    <2>1. \A q \in Places : Vacating(q)' => Vacating(q)
      BY <1>3 DEF Interrupt, Vacating
    <2> QED
      BY <2>1, <1>3, HeldKept DEF Interrupt
  <1>4. ASSUME NEW s \in Socks, Stall(s) PROVE HeldInv'
    <2>1. \A q \in Places : Vacating(q)' => Vacating(q)
      BY <1>4 DEF Stall, Vacating
    <2> QED
      BY <2>1, <1>4, HeldKept DEF Stall
  <1> QED
    BY <1>1, <1>2, <1>3, <1>4

\* The steps of main() keep HeldInv.
LEMMA HeldMain ==
    ASSUME TypeInv, TypeInv', SoleThread, HeldInv, Up, MainStep
    PROVE  HeldInv'
  <1>i. TypeOK /\ LocalsOK /\ MainOK /\ \A u \in Threads : ThreadOK(u)
    BY DEF TypeInv
  <1> USE SlotsFacts, <1>i DEF HeldInv, Up, TypeOK, LocalsOK, MainOK, sharedVars,
        netVars, threadVars, boundVars, historyVars
  <1>1. CASE Build
    BY <1>1 DEF Build, Held, Kept, InPrivate, Vacating, Clearing
  <1>2. CASE Select
    BY <1>2 DEF Select, Held, Kept, InPrivate, Vacating, Clearing
  <1>3. CASE Accept
    BY <1>3 DEF Accept, Held, Kept, InPrivate, Vacating, Clearing
  <1>4. CASE Scan
    BY <1>4 DEF Scan, Held, Kept, InPrivate, Vacating, Clearing
  <1>5. CASE Store
    BY <1>5 DEF Store, Held, Kept, InPrivate, Vacating, Clearing
  <1>6. CASE Pass
    BY <1>6 DEF Pass, Held, Kept, InPrivate, Vacating, Clearing
  <1>7. CASE ReadEnd
    BY <1>7 DEF ReadEnd, Held, Kept, InPrivate, Vacating, Clearing
  <1>8. CASE ReadLine
    BY <1>8 DEF ReadLine, Held, Kept, InPrivate, Vacating, Clearing
  <1>9. CASE Join
    <2>1. \A s \in Socks : Kept(s) => Kept(s)'
      BY <1>9 DEF Join, Kept
    <2>2. \A s \in Socks : InPrivate(s) => InPrivate(s)'
      BY <1>9 DEF Join, InPrivate, Vacating
    <2>3. Held'
      BY <2>1, <2>2 DEF Held
    <2>4. ASSUME p \notin Places PROVE Clearing'
      <3>1. pc' = "clear" => sd' \in lost'
        BY <2>4, <1>9 DEF Join
      <3> QED
        BY <3>1 DEF Clearing
    <2>5. ASSUME p \in Places PROVE Clearing'
      <3>0. PICK q \in Places : q = p
        BY <2>5
      <3>1. /\ p' = q + 1 /\ p' <= 2 /\ pc = "join"
            /\ private_sockets' = [private_sockets EXCEPT ![q] = client_socket[i]]
            /\ UNCHANGED <<client_socket, conn, lost, sd, i, tpc, ti>>
        BY <2>5, <3>0, <1>9 DEF Join
      <3>2. ~ Vacating(q)'
        <4>1. \A t \in Threads : tpc[t] = "reply" => ti[t] < q /\ ti[t] \in Places
          BY <3>0 DEF ThreadOK
        <4> QED
          BY <3>1, <4>1 DEF Vacating
      <3>4. i \in Slots /\ sd \in Socks
        BY <3>1
      <3>5. CASE client_socket[i] = sd
        <4>1. private_sockets'[q] = sd
          BY <3>1, <3>5
        <4>2. InPrivate(sd)'
          BY <3>1, <3>2, <4>1 DEF InPrivate
        <4> QED
          BY <3>1, <4>2 DEF Clearing
      <3>6. CASE client_socket[i] # sd
        <4>1. Kept(sd) \/ InPrivate(sd)
          BY <3>1, <3>4 DEF Held
        <4>2. InPrivate(sd) => InPrivate(sd)'
          BY <2>2, <3>1, <3>4
        <4>3. CASE Kept(sd)
          BY <3>1, <3>6, <4>3 DEF Clearing, Kept
        <4> QED
          BY <3>1, <4>1, <4>2, <4>3 DEF Clearing
      <3> QED
        BY <3>5, <3>6
    <2> QED
      BY <2>3, <2>4, <2>5
  <1>10. CASE Clear
    <2>1. Sent
      BY <1>10, SendersLemma
    <2>2. \A s \in Socks : InPrivate(s) => InPrivate(s)'
      BY <1>10 DEF Clear, InPrivate, Vacating
    <2>3. ASSUME NEW s \in Socks, s # sd, Kept(s) PROVE Kept(s)'
      BY <2>1, <2>3, <1>10 DEF Clear, Sent, Kept
    <2>4. Kept(sd)' \/ InPrivate(sd)'
      BY <2>1, <2>2, <1>10 DEF Clear, Sent, Clearing, Kept
    <2>5. Held'
      BY <2>2, <2>3, <2>4, <1>10 DEF Clear, Held
    <2> QED
      BY <2>5, <1>10 DEF Clear, SendKills, Clearing
  <1>11. CASE Echo
    <2>1. Sent
      BY <1>11, SendersLemma
    <2>2. \A q \in Places : Vacating(q)' => Vacating(q)
      BY <1>11 DEF Echo, Vacating
    <2> QED
      BY <2>1, <2>2, <1>11, HeldKept DEF Echo, Sent, SendKills
  <1> QED
    BY <1>1, <1>2, <1>3, <1>4, <1>5, <1>6, <1>7, <1>8, <1>9, <1>10, <1>11 DEF MainStep

\* The steps of a thread keep HeldInv.
LEMMA HeldThread ==
    ASSUME TypeInv, TypeInv', SoleThread, HeldInv, Up, NEW t \in Threads, ThreadStep(t)
    PROVE  HeldInv'
  <1>i. TypeOK /\ LocalsOK /\ MainOK /\ \A u \in Threads : ThreadOK(u)
    BY DEF TypeInv
  <1> USE SlotsFacts, <1>i DEF HeldInv, Up, TypeOK, LocalsOK, MainOK, sharedVars,
        netVars, mainVars, boundVars, historyVars
  <1>1. CASE Start(t)
    <2>1. \A q \in Places : Vacating(q)' => Vacating(q)
      BY <1>1 DEF Start, Vacating
    <2> QED
      BY <2>1, <1>1, HeldKept DEF Start
  <1>2. CASE SelectPrivate(t)
    <2>1. \A q \in Places : Vacating(q)' => Vacating(q)
      BY <1>2 DEF SelectPrivate, Vacating
    <2> QED
      BY <2>1, <1>2, HeldKept DEF SelectPrivate
  <1>3. CASE PassPrivate(t)
    <2>1. \A q \in Places : Vacating(q)' => Vacating(q)
      BY <1>3 DEF PassPrivate, Vacating
    <2> QED
      BY <2>1, <1>3, HeldKept DEF PassPrivate
  <1>4. CASE ReadPrivate(t)
    BY <1>4, SMTT(30) DEF ReadPrivate, Held, Kept, InPrivate, Vacating, Clearing,
      SoleThread, Single, Away, Returned
  <1>5. CASE ScanPrivate(t)
    <2>1. \A s \in Socks : Kept(s) => Kept(s)'
      BY <1>5 DEF ScanPrivate, Kept
    <2>2. ASSUME NEW s \in Socks, InPrivate(s) PROVE Kept(s)' \/ InPrivate(s)'
      <3>1. PICK q \in Places : private_sockets[q] = s /\ ~ Vacating(q)
        BY <2>2 DEF InPrivate
      <3>2. CASE ~ Vacating(q)'
        BY <3>1, <3>2, <1>5 DEF ScanPrivate, InPrivate
      <3>3. CASE Vacating(q)'
        <4>1. tpc'[t] = "reply" /\ ti[t] = q
          BY <3>1, <3>3, <1>5, SMTT(30) DEF ScanPrivate, Vacating
        <4>2. s = tsd[t] /\ s \in lost'
          BY <3>1, <4>1, <1>5 DEF ScanPrivate, ThreadOK
        <4> QED
          BY <4>2 DEF Kept
      <3> QED
        BY <3>2, <3>3
    <2>3. Held'
      BY <2>1, <2>2 DEF Held
    <2>4. ASSUME pc = "clear" PROVE Clearing'
      <3>1. CASE InPrivate(sd)
        <4>1. PICK q \in Places : private_sockets[q] = sd /\ ~ Vacating(q)
          BY <3>1 DEF InPrivate
        <4>2. Vacating(q)' => sd \in lost'
          BY <4>1, <2>4, <1>5 DEF ScanPrivate, Vacating, ThreadOK
        <4> QED
          BY <4>1, <4>2, <1>5 DEF ScanPrivate, InPrivate, Clearing
      <3> QED
        BY <3>1, <1>5 DEF ScanPrivate, Clearing
    <2> QED
      BY <2>3, <2>4, <1>5 DEF ScanPrivate, Clearing
  <1>6. CASE StorePrivate(t)
    <2>1. /\ tp[t] \in Slots /\ ti[t] \in Places /\ t <= p
          /\ client_socket' = [client_socket EXCEPT ![tp[t]] = private_sockets[ti[t]]]
          /\ lost' = lost \cup ({client_socket[tp[t]]} \ {0})
          /\ UNCHANGED <<private_sockets, conn, pc, i, sd, p, ti>>
          /\ tpc[t] = "store" /\ tpc' = [tpc EXCEPT ![t] = "reply"]
      BY <1>6 DEF StorePrivate, ThreadOK
    <2>2. ASSUME NEW s \in Socks, Kept(s) PROVE Kept(s)'
      <3>1. CASE client_socket[tp[t]] = s
        BY <2>1, <3>1 DEF Kept
      <3>2. CASE client_socket[tp[t]] # s
        BY <2>1, <2>2, <3>2 DEF Kept
      <3> QED
        BY <3>1, <3>2
    <2>3. ASSUME NEW q \in Places, q # ti[t], ~ Vacating(q) PROVE ~ Vacating(q)'
      BY <2>1, <2>3 DEF Vacating
    <2>4. ASSUME NEW s \in Socks, InPrivate(s) PROVE Kept(s)' \/ InPrivate(s)'
      <3>1. PICK q \in Places : private_sockets[q] = s /\ ~ Vacating(q)
        BY <2>4 DEF InPrivate
      <3>2. CASE q = ti[t]
        BY <2>1, <3>1, <3>2 DEF Kept
      <3>3. CASE q # ti[t]
        BY <2>1, <2>3, <3>1, <3>3 DEF InPrivate
      <3> QED
        BY <3>2, <3>3
    <2>5. Held'
      BY <2>1, <2>2, <2>4 DEF Held
    <2>6. ASSUME pc = "clear", p <= 2 PROVE Clearing'
      <3>1. p = 2 /\ t = 1 /\ Single
        BY <2>1, <2>6, ThreadsFacts DEF Single
      <3>2. private_sockets[0] # sd /\ (ti[t] = 1 => tp[t] # i)
        BY <2>1, <2>6, <3>1 DEF SoleThread, Away, Returned
      <3>3. CASE InPrivate(sd)
        <4>1. PICK q \in Places : private_sockets[q] = sd /\ ~ Vacating(q)
          BY <3>3 DEF InPrivate
        <4>2. CASE q = ti[t]
          BY <2>1, <2>6, <3>2, <4>1, <4>2 DEF Clearing
        <4>3. CASE q # ti[t]
          BY <2>1, <2>3, <2>6, <4>1, <4>3 DEF Clearing, InPrivate
        <4> QED
          BY <4>2, <4>3
      <3>4. CASE \E k \in Slots \ {i} : client_socket[k] = sd
        <4>1. CASE client_socket[tp[t]] = sd
          BY <2>1, <2>6, <4>1 DEF Clearing
        <4>2. CASE client_socket[tp[t]] # sd
          BY <2>1, <2>6, <3>4, <4>2 DEF Clearing
        <4> QED
          BY <4>1, <4>2
      <3> QED
        BY <2>1, <2>6, <3>3, <3>4 DEF Clearing
    <2>7. ASSUME pc # "clear" \/ p > 2 PROVE Clearing'
      <3>1. pc = "clear" => sd \in lost /\ sd' \in lost'
        BY <2>1, <2>7 DEF Clearing
      <3> QED
        BY <2>1, <3>1 DEF Clearing
    <2> QED
      BY <2>5, <2>6, <2>7
  <1>7. CASE ReplyPrivate(t)
    <2>1. Sent
      BY <1>7, SendersLemma
    <2>2. \A s \in Socks : InPrivate(s) => InPrivate(s)'
      BY <1>7 DEF ReplyPrivate, InPrivate, Vacating
    <2>3. \A s \in Socks : Kept(s) => (pc' = "sigpipe" \/ Kept(s)')
      BY <2>1, <1>7 DEF ReplyPrivate, SendKills, Sent, Kept
    <2>4. Held'
      BY <2>2, <2>3 DEF Held
    <2>5. Clearing'
      BY <2>1, <2>2, <1>7 DEF ReplyPrivate, SendKills, Sent, Clearing
    <2> QED
      BY <2>4, <2>5
  <1>8. CASE Check(t)
    <2>1. \A q \in Places : Vacating(q)' => Vacating(q)
      BY <1>8 DEF Check, Vacating
    <2> QED
      BY <2>1, <1>8, HeldKept DEF Check
  <1>9. CASE Cancel(t)
    <2>1. \A q \in Places : Vacating(q)' => Vacating(q)
      BY <1>9 DEF Cancel, Vacating
    <2> QED
      BY <2>1, <1>9, HeldKept DEF Cancel
  <1>10. CASE EchoPrivate(t)
    <2>1. Sent
      BY <1>10, SendersLemma
    <2>2. \A q \in Places : Vacating(q)' => Vacating(q)
      BY <1>10 DEF EchoPrivate, Vacating
    <2>3. /\ UNCHANGED <<client_socket, private_sockets, p, lost, sd, i>>
          /\ UNCHANGED pc \/ pc' = "sigpipe"
      BY <1>10 DEF EchoPrivate, SendKills
    <2>4. CASE UNCHANGED pc
      BY <2>1, <2>2, <2>3, <2>4, HeldKept DEF Sent
    <2>5. CASE pc' = "sigpipe"
      BY <2>5 DEF Held, Clearing
    <2> QED
      BY <2>3, <2>4, <2>5
  <1> QED
    BY <1>1, <1>2, <1>3, <1>4, <1>5, <1>6, <1>7, <1>8, <1>9, <1>10 DEF ThreadStep

-------------------------------------------------------------------------------
(* What is said in private, before the third join. *)

\* The third "join", which writes behind the array.
Last == pc = "join" /\ p = 2

\* A client in private is in client_socket[] only while its join is handled.
Unlisted ==
    \A s \in secret, k \in Slots : client_socket[k] = s =>
        pc \in {"join", "clear"} /\ sd = s /\ (k = i \/ Last)

\* A thread that is bringing a socket back has read its "leave".
NotTaken ==
    \A t \in Threads :
        tpc[t] \in {"scan", "store"} => tsd[t] \notin secret \/ (Last /\ tsd[t] = sd)

NotRead == pc \in {"scan", "store", "read"} => sd \notin secret

SecretInv == Up /\ p <= 2 => Unlisted /\ NotTaken /\ NotRead

LEMMA SecretInit == Init => SecretInv
  BY DEF Init, SecretInv, Unlisted, NotTaken, NotRead

\* The steps of the clients keep SecretInv.
LEMMA SecretClients ==
    ASSUME TypeInv, TypeInv', CoreInv, SecretInv, Up,
           Connect \/ \E s \in Socks : Type(s) \/ Interrupt(s) \/ Stall(s)
    PROVE  SecretInv'
  <1>i. TypeOK /\ LocalsOK /\ MainOK /\ \A u \in Threads : ThreadOK(u)
    BY DEF TypeInv
  <1> USE SlotsFacts, <1>i DEF SecretInv, Up, TypeOK, LocalsOK, MainOK, sharedVars,
        mainVars, threadVars, historyVars
  <1>1. CASE Connect
    BY <1>1 DEF Connect, Unlisted, NotTaken, NotRead, Last
  <1>2. ASSUME NEW s \in Socks, Type(s) PROVE SecretInv'
    BY <1>2 DEF Type, Unlisted, NotTaken, NotRead, Last
  <1>3. ASSUME NEW s \in Socks, Interrupt(s) PROVE SecretInv'
    BY <1>3 DEF Interrupt, Unlisted, NotTaken, NotRead, Last
  <1>4. ASSUME NEW s \in Socks, Stall(s) PROVE SecretInv'
    BY <1>4 DEF Stall, Unlisted, NotTaken, NotRead, Last
  <1> QED
    BY <1>1, <1>2, <1>3, <1>4

\* The steps of main() keep SecretInv.
LEMMA SecretMain ==
    ASSUME TypeInv, TypeInv', CoreInv, SecretInv, Up, MainStep
    PROVE  SecretInv'
  <1>i. TypeOK /\ LocalsOK /\ MainOK /\ \A u \in Threads : ThreadOK(u)
    BY DEF TypeInv
  <1> USE SlotsFacts, <1>i DEF SecretInv, Up, TypeOK, LocalsOK, MainOK, sharedVars,
        netVars, threadVars, boundVars, historyVars
  <1>1. CASE Build
    BY <1>1 DEF Build, Unlisted, NotTaken, NotRead, Last
  <1>2. CASE Select
    BY <1>2 DEF Select, Unlisted, NotTaken, NotRead, Last
  <1>3. CASE Accept
    BY <1>3 DEF Accept, Unlisted, NotTaken, NotRead, Last
  <1>4. CASE Scan
    BY <1>4 DEF Scan, Unlisted, NotTaken, NotRead
  <1>5. CASE Store
    BY <1>5 DEF Store, Unlisted, NotTaken, NotRead
  <1>6. CASE Pass
    BY <1>6 DEF Pass, Unlisted, NotTaken, NotRead, Last
  <1>7. CASE ReadEnd
    BY <1>7, SMTT(30) DEF ReadEnd, Unlisted, NotTaken, NotRead, Last, CoreInv, Calm,
      Current, Back,
       NotListed, SoleThread, Single, Away, Returned
  <1>8. CASE ReadLine
    <2> SUFFICES ASSUME p <= 2 PROVE Unlisted' /\ NotTaken' /\ NotRead'
      BY <1>8 DEF ReadLine
    <2>1. /\ pc = "read" /\ sd \in Socks /\ pc' \in {"join", "echo"}
          /\ secret' \in {secret, secret \cup {sd}}
          /\ pc' # "join" => secret' = secret
          /\ UNCHANGED <<client_socket, i, sd, p, tpc, tsd>>
      BY <1>8 DEF ReadLine
    <2>2. Unlisted /\ NotTaken /\ p \in {0, 1, 2}
      BY <2>1
    <2>3. NotRead'
      BY <2>1 DEF NotRead
    <2>4. Unlisted'
      <3>1. p <= 1 => \A k \in Slots : client_socket[k] = sd => k = i
        BY <2>1 DEF CoreInv, Calm, Current
      <3> QED
        BY <2>1, <2>2, <3>1 DEF Unlisted, Last
    <2>5. ASSUME NEW t \in Threads, tpc[t] \in {"scan", "store"}, p <= 1
          PROVE  tsd[t] # sd
      <3>1. t <= p /\ ti[t] < p /\ ti[t] \in Places /\ private_sockets[ti[t]] \in {0, tsd[t]}
        BY <2>5 DEF ThreadOK
      <3>2. t = 1 /\ ti[t] = 0
        BY <2>2, <2>5, <3>1, ThreadsFacts
      <3>3. Single
        BY <2>5 DEF ThreadOK, Single
      <3> QED
        BY <2>1, <2>5, <3>1, <3>2, <3>3 DEF CoreInv, SoleThread, Away, Returned
    <2>6. NotTaken'
      BY <2>1, <2>2, <2>5 DEF NotTaken, Last
    <2> QED
      BY <2>3, <2>4, <2>6
  <1>9. CASE Join
    BY <1>9 DEF Join, Unlisted, NotTaken, NotRead, Last
  <1>10. CASE Clear
    BY <1>10 DEF Clear, SendKills, Unlisted, NotTaken, NotRead, Last
  <1>11. CASE Echo
    BY <1>11 DEF Echo, SendKills, Unlisted, NotTaken, NotRead, Last
  <1> QED
    BY <1>1, <1>2, <1>3, <1>4, <1>5, <1>6, <1>7, <1>8, <1>9, <1>10, <1>11 DEF MainStep

\* The steps of a thread keep SecretInv.
LEMMA SecretThread ==
    ASSUME TypeInv, TypeInv', CoreInv, SecretInv, Up, NEW t \in Threads, ThreadStep(t)
    PROVE  SecretInv'
  <1>i. TypeOK /\ LocalsOK /\ MainOK /\ \A u \in Threads : ThreadOK(u)
    BY DEF TypeInv
  <1> USE SlotsFacts, <1>i DEF SecretInv, Up, TypeOK, LocalsOK, MainOK, sharedVars,
        netVars, mainVars, boundVars, historyVars
  <1>1. CASE Start(t)
    BY <1>1 DEF Start, Unlisted, NotTaken, NotRead, Last
  <1>2. CASE SelectPrivate(t)
    BY <1>2 DEF SelectPrivate, Unlisted, NotTaken, NotRead, Last
  <1>3. CASE PassPrivate(t)
    BY <1>3 DEF PassPrivate, Unlisted, NotTaken, NotRead, Last
  <1>4. CASE ReadPrivate(t)
    BY <1>4 DEF ReadPrivate, Unlisted, NotTaken, NotRead, Last
  <1>5. CASE ScanPrivate(t)
    BY <1>5 DEF ScanPrivate, Unlisted, NotTaken, NotRead, Last
  <1>6. CASE StorePrivate(t)
    <2> SUFFICES ASSUME p <= 2 PROVE Unlisted' /\ NotTaken' /\ NotRead'
      BY <1>6 DEF StorePrivate
    <2>1. /\ tp[t] \in Slots /\ private_sockets[ti[t]] \in {0, tsd[t]} /\ tsd[t] \in Socks
          /\ client_socket' = [client_socket EXCEPT ![tp[t]] = private_sockets[ti[t]]]
          /\ UNCHANGED <<pc, i, sd, p, tsd, secret>>
          /\ tpc[t] = "store" /\ tpc' = [tpc EXCEPT ![t] = "reply"]
      BY <1>6 DEF StorePrivate, ThreadOK
    <2>2. Unlisted /\ NotTaken /\ NotRead
      BY <2>1
    <2>3. Unlisted'
      BY <2>1, <2>2 DEF Unlisted, NotTaken, Last
    <2>4. NotTaken' /\ NotRead'
      BY <2>1, <2>2 DEF NotTaken, NotRead, Last
    <2> QED
      BY <2>3, <2>4
  <1>7. CASE ReplyPrivate(t)
    BY <1>7 DEF ReplyPrivate, SendKills, Unlisted, NotTaken, NotRead, Last
  <1>8. CASE Check(t)
    BY <1>8 DEF Check, Unlisted, NotTaken, NotRead, Last
  <1>9. CASE Cancel(t)
    BY <1>9 DEF Cancel, Unlisted, NotTaken, NotRead, Last
  <1>10. CASE EchoPrivate(t)
    BY <1>10 DEF EchoPrivate, SendKills, Unlisted, NotTaken, NotRead, Last
  <1> QED
    BY <1>1, <1>2, <1>3, <1>4, <1>5, <1>6, <1>7, <1>8, <1>9, <1>10 DEF ThreadStep

-------------------------------------------------------------------------------
(* The theorems *)

\* Every step keeps the types.
LEMMA TypeNext == TypeInv /\ [Next]_vars => TypeInv'
  <1> SUFFICES ASSUME TypeInv, [Next]_vars PROVE TypeInv'
    OBVIOUS
  <1>1. CASE Next
    BY <1>1, TypeClients, TypeMain, TypeThread DEF Next
  <1>2. CASE UNCHANGED vars
    BY <1>2 DEF vars, sharedVars, netVars, mainVars, threadVars, boundVars, TypeInv,
       TypeOK, LocalsOK, MainOK, ThreadOK, historyVars
  <1> QED
    BY <1>1, <1>2

\* Every step keeps what holds while there is one thread.
LEMMA CoreNext == TypeInv /\ CoreInv /\ [Next]_vars => CoreInv'
  <1> SUFFICES ASSUME TypeInv, CoreInv, [Next]_vars PROVE CoreInv'
    OBVIOUS
  <1>1. TypeInv'
    BY TypeNext
  <1>2. CASE Next
    BY <1>1, <1>2, CoreClients, CoreMain, CoreThread DEF Next
  <1>3. CASE UNCHANGED vars
    BY <1>3 DEF vars, sharedVars, netVars, mainVars, threadVars, CoreInv, SoleThread, Calm,
       Back, Single, Away, Returned, NoneClosed, Distinct, Accepted, Watching, Ahead,
       Current, NotListed, ComesBackBehind, ToVisit, Readable
  <1> QED
    BY <1>2, <1>3

\* Every step keeps every client somewhere.
LEMMA HeldNext == TypeInv /\ CoreInv /\ HeldInv /\ [Next]_vars => HeldInv'
  <1> SUFFICES ASSUME TypeInv, CoreInv, HeldInv, [Next]_vars PROVE HeldInv'
    OBVIOUS
  <1>1. TypeInv' /\ SoleThread
    BY TypeNext DEF CoreInv
  <1>2. CASE Next
    BY <1>1, <1>2, HeldClients, HeldMain, HeldThread DEF Next
  <1>3. CASE UNCHANGED vars
    BY <1>3 DEF vars, sharedVars, netVars, mainVars, threadVars, historyVars, HeldInv,
       Held, Kept, InPrivate, Vacating, Clearing, Up
  <1> QED
    BY <1>2, <1>3

\* Every step keeps private sockets out of the public array.
LEMMA SecretNext == TypeInv /\ CoreInv /\ SecretInv /\ [Next]_vars => SecretInv'
  <1> SUFFICES ASSUME TypeInv, CoreInv, SecretInv, [Next]_vars PROVE SecretInv'
    OBVIOUS
  <1>1. TypeInv'
    BY TypeNext
  <1>2. CASE Next
    BY <1>1, <1>2, SecretClients, SecretMain, SecretThread DEF Next
  <1>3. CASE UNCHANGED vars
    BY <1>3 DEF vars, sharedVars, mainVars, threadVars, historyVars, SecretInv, Unlisted,
       NotTaken, NotRead, Last, Up
  <1> QED
    BY <1>2, <1>3

LEMMA PrivateInductive == Spec => [](TypeInv /\ CoreInv /\ HeldInv /\ SecretInv)
  <1>1. Init => TypeInv /\ CoreInv /\ HeldInv /\ SecretInv
    BY TypeInit, CoreInit, HeldInit, SecretInit
  <1>2. TypeInv /\ CoreInv /\ HeldInv /\ SecretInv /\ [Next]_vars
            => (TypeInv /\ CoreInv /\ HeldInv /\ SecretInv)'
    BY TypeNext, CoreNext, HeldNext, SecretNext
  <1> QED
    BY <1>1, <1>2, PTL DEF Spec

\* What main() and its threads share keeps its type, and p does not fall behind
\* the threads, however many join: also when places behind private_sockets[] are
\* written (src/server.c:179-184).
THEOREM PrivateTypeCorrect == Spec => []TypeOK
  <1>1. TypeInv => TypeOK
    BY DEF TypeInv
  <1> QED
    BY PrivateInductive, <1>1, PTL

\* While only one client ever joined, main() calls accept() and read() only when
\* there is something to return, although the thread moves its socket between the
\* arrays behind the select() of main().
THEOREM ReadsAtOnceCorrect == Spec => []MainReadsAtOnce
  <1>1. CoreInv => MainReadsAtOnce
    BY DEF CoreInv, Calm, Current, Watching, MainReadsAtOnce
  <1> QED
    BY PrivateInductive, <1>1, PTL

\* Whatever main() and its threads do to the arrays, in whatever order, a client
\* that is connected is in one of them, or has been recorded as lost.
THEOREM NothingVanishesCorrect == Spec => []NothingElseVanishes
  <1>1. TypeInv /\ HeldInv => NothingElseVanishes
    BY SlotsFacts DEF TypeInv, TypeOK, HeldInv, Held, Kept, InPrivate, NothingElseVanishes,
       In
  <1> QED
    BY PrivateInductive, <1>1, PTL

\* What is said between "join" and "leave" is never read by main(), until the third
\* join of the program's life.
THEOREM SecretCorrect == Spec => PrivateStaysPrivate
  <1>1. SecretInv /\ [Next]_vars =>
            [\A s \in secret : ReadLine /\ sd = s /\ p <= 2 => inbox'[s] = inbox[s]]_vars
    BY DEF SecretInv, NotRead, ReadLine, Up
  <1> QED
    BY PrivateInductive, <1>1, PTL DEF Spec, PrivateStaysPrivate
===============================================================================
