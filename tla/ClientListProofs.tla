--------------------------- MODULE ClientListProofs ---------------------------
(***************************************************************************)
(* What the operators of ClientList return, for every list; and what they, *)
(* and the replies left by a handler, are in the eyes of ChatRooms.        *)
(***************************************************************************)
EXTENDS RoomView, TLAPS, WellFoundedInduction

\* Every non-empty set of natural numbers has a least element.
LEMMA LeastElement ==
    ASSUME NEW T \in SUBSET Nat, T # {}
    PROVE  \E x \in T : \A y \in T : ~ (y < x)
<1>1. PICK x \in T : \A y \in T : ~ (<<y, x>> \in OpToRel(<, Nat))
  BY NatLessThanWellFounded, WFMin, Zenon
<1>2. \A u, v \in Nat : u < v => <<u, v>> \in OpToRel(<, Nat)
  BY Zenon DEF OpToRel
<1>. QED
  BY <1>1, <1>2, Zenon

\* Induction, with a set in place of the predicate.
LEMMA SetInduction ==
    ASSUME NEW P \in SUBSET Nat, 0 \in P, \A n \in P : n + 1 \in P
    PROVE  Nat \subseteq P
<1>. DEFINE T == Nat \ P
<1>. SUFFICES ASSUME T # {} PROVE FALSE
  OBVIOUS
<1>1. PICK x \in T : \A y \in T : ~ (y < x)
  BY LeastElement, Zenon
<1>2. x \in Nat /\ x # 0
  BY <1>1
<1>3. x - 1 \in Nat /\ x - 1 < x
  BY <1>2
<1>4. x - 1 \in P
  BY <1>1, <1>3
<1>5. (x - 1) + 1 \in P
  BY <1>4
<1>. QED
  BY <1>1, <1>2, <1>5

-------------------------------------------------------------------------------
(* Keep *)

\* The equation the recursive function inside Keep satisfies.
KeepBody(list, S, kept) ==
    [i \in 0 .. Len(list) |->
        IF i = 0 THEN <<>>
        ELSE IF list[i] \in S THEN Append(kept[i - 1], list[i])
        ELSE kept[i - 1]]

LEMMA KeepUnfold ==
    ASSUME NEW list, NEW S
    PROVE  Keep(list, S) = (CHOOSE kept : kept = KeepBody(list, S, kept))[Len(list)]
BY Zenon DEF Keep, KeepBody

\* A function that satisfies the equation exists.
LEMMA KeepExists ==
    ASSUME NEW T, NEW list \in Seq(T), NEW S
    PROVE  \E kept : kept = KeepBody(list, S, kept)
<1>. DEFINE Grow(prev, i) == IF list[i] \in S THEN Append(prev, list[i]) ELSE prev
            Good(n, f) == f[0] = <<>> /\ \A i \in 1 .. n : f[i] = Grow(f[i - 1], i)
            P == {n \in Nat : n <= Len(list) => \E f \in [0 .. n -> Seq(T)] : Good(n, f)}
<1>1. 0 \in P
  <2>. DEFINE g == [i \in 0 .. 0 |-> <<>>]
  <2>1. g \in [0 .. 0 -> Seq(T)] /\ Good(0, g)
    OBVIOUS
  <2>. QED
    BY <2>1, Zenon
<1>2. ASSUME NEW n \in P PROVE n + 1 \in P
  <2>1. n \in Nat /\ n + 1 \in Nat
    OBVIOUS
  <2>. SUFFICES ASSUME n + 1 <= Len(list)
                PROVE  \E f \in [0 .. n + 1 -> Seq(T)] : Good(n + 1, f)
    BY <2>1, Zenon
  <2>2. PICK f \in [0 .. n -> Seq(T)] : Good(n, f)
    <3>1. n <= Len(list)
      BY <2>1
    <3>. QED
      BY <3>1, Zenon
  <2>. DEFINE g == [i \in 0 .. n + 1 |-> IF i = n + 1 THEN Grow(f[n], n + 1) ELSE f[i]]
  <2>3. list[n + 1] \in T /\ f[n] \in Seq(T)
    OBVIOUS
  <2>4. Grow(f[n], n + 1) \in Seq(T)
    BY <2>3
  <2>5. g \in [0 .. n + 1 -> Seq(T)]
    BY <2>4
  <2>6. g[0] = <<>>
    BY <2>2
  <2>7. ASSUME NEW i \in 1 .. n + 1 PROVE g[i] = Grow(g[i - 1], i)
    <3>. HIDE DEF P, Good, Grow
    <3>1. i \in 1 .. n => g[i] = f[i] /\ g[i - 1] = f[i - 1]
      <4>1. i \in 1 .. n => /\ i # n + 1 /\ i \in 0 .. n + 1
                            /\ i - 1 # n + 1 /\ i - 1 \in 0 .. n + 1
        BY <2>1
      <4>. QED
        BY <4>1
    <3>2. i = n + 1 => g[i] = Grow(f[n], i) /\ g[i - 1] = f[n]
      BY <2>1
    <3>3. i \in 1 .. n => f[i] = Grow(f[i - 1], i)
      BY <2>2, Zenon DEF Good
    <3>4. i \in 1 .. n \/ i = n + 1
      BY <2>1
    <3>. HIDE DEF g
    <3>. QED
      BY <3>1, <3>2, <3>3, <3>4
  <2>. QED
    BY <2>5, <2>6, <2>7
<1>3. P \in SUBSET Nat /\ Len(list) \in Nat
  OBVIOUS
<1>. HIDE DEF P
<1>4. Len(list) \in P
  BY <1>1, <1>2, <1>3, SetInduction
<1>5. PICK f \in [0 .. Len(list) -> Seq(T)] : Good(Len(list), f)
  BY <1>4 DEF P
<1>6. ASSUME NEW i \in 0 .. Len(list) PROVE f[i] = KeepBody(list, S, f)[i]
  <2>1. CASE i = 0
    BY <1>5, <2>1 DEF KeepBody
  <2>2. CASE i \in 1 .. Len(list)
    BY <1>5, <2>2 DEF KeepBody
  <2>. QED
    BY <2>1, <2>2
<1>7. f = [i \in 0 .. Len(list) |-> f[i]]
  OBVIOUS
<1>8. KeepBody(list, S, f) = [i \in 0 .. Len(list) |-> KeepBody(list, S, f)[i]]
  BY Zenon DEF KeepBody
<1>. QED
  BY <1>6, <1>7, <1>8, Zenon

\* Keep by stages: kept[i] is what is kept of the first i elements.
Stages(list, S, kept) ==
    /\ kept[0] = <<>> /\ Keep(list, S) = kept[Len(list)]
    /\ \A i \in 1 .. Len(list) :
          kept[i] = IF list[i] \in S THEN Append(kept[i - 1], list[i]) ELSE kept[i - 1]

LEMMA KeepStages ==
    ASSUME NEW T, NEW list \in Seq(T), NEW S
    PROVE  \E kept : Stages(list, S, kept)
<1>. DEFINE kept == CHOOSE f : f = KeepBody(list, S, f)
<1>1. kept = KeepBody(list, S, kept)
  BY KeepExists, Zenon
<1>2. Keep(list, S) = kept[Len(list)]
  BY KeepUnfold, Zenon
<1>. HIDE DEF kept
<1>3. kept[0] = <<>>
  BY <1>1 DEF KeepBody
<1>4. ASSUME NEW i \in 1 .. Len(list)
      PROVE  kept[i] = IF list[i] \in S THEN Append(kept[i - 1], list[i]) ELSE kept[i - 1]
  <2>1. i \in 0 .. Len(list) /\ i # 0
    OBVIOUS
  <2>2. kept[i] = KeepBody(list, S, kept)[i]
    BY <1>1, Zenon
  <2>3. KeepBody(list, S, kept)[i]
          = IF list[i] \in S THEN Append(kept[i - 1], list[i]) ELSE kept[i - 1]
    BY <2>1 DEF KeepBody
  <2>. QED
    BY <2>2, <2>3
<1>. QED
  BY <1>2, <1>3, <1>4, Zenon DEF Stages

\* Keep returns a sequence of the same elements, and it contains an element
\* exactly when the list does and S does.
LEMMA KeepLemma ==
    ASSUME NEW T, NEW list \in Seq(T), NEW S
    PROVE  /\ Keep(list, S) \in Seq(T)
           /\ \A e : (\E i \in DOMAIN Keep(list, S) : Keep(list, S)[i] = e)
                       <=> e \in S /\ \E i \in DOMAIN list : list[i] = e
<1>1. PICK kept : Stages(list, S, kept)
  BY KeepStages
<1>2. kept[0] = <<>>
  BY <1>1 DEF Stages
<1>3. \A i \in 1 .. Len(list) :
        kept[i] = IF list[i] \in S THEN Append(kept[i - 1], list[i]) ELSE kept[i - 1]
  BY <1>1, Zenon DEF Stages
<1>. DEFINE Has(s, e) == \E i \in DOMAIN s : s[i] = e
            Good(n) == /\ kept[n] \in Seq(T)
                       /\ \A e : Has(kept[n], e)
                                   <=> e \in S /\ \E i \in 1 .. n : list[i] = e
            P == {n \in Nat : n <= Len(list) => Good(n)}
<1>4. 0 \in P
  <2>1. kept[0] \in Seq(T) /\ \A e : ~ Has(kept[0], e)
    BY <1>2
  <2>2. \A e : ~ \E i \in 1 .. 0 : list[i] = e
    OBVIOUS
  <2>. QED
    BY <2>1, <2>2
<1>5. ASSUME NEW n \in P PROVE n + 1 \in P
  <2>1. n \in Nat /\ n + 1 \in Nat
    OBVIOUS
  <2>. SUFFICES ASSUME n + 1 <= Len(list) PROVE Good(n + 1)
    BY <2>1, Zenon
  <2>2. Good(n)
    <3>1. n <= Len(list)
      BY <2>1
    <3>. QED
      BY <3>1, Zenon
  <2>3. n + 1 \in 1 .. Len(list) /\ (n + 1) - 1 = n /\ list[n + 1] \in T
    BY <2>1
  <2>4. kept[n + 1] = IF list[n + 1] \in S THEN Append(kept[n], list[n + 1]) ELSE kept[n]
    BY <1>3, <2>3
  <2>5. kept[n + 1] \in Seq(T)
    BY <2>2, <2>3, <2>4
  <2>6. ASSUME NEW e
        PROVE  Has(kept[n + 1], e) <=> e \in S /\ \E i \in 1 .. n + 1 : list[i] = e
    <3>1. (\E i \in 1 .. n + 1 : list[i] = e)
            <=> (\E i \in 1 .. n : list[i] = e) \/ list[n + 1] = e
      BY <2>1
    <3>2. CASE list[n + 1] \in S
      <4>. DEFINE s == kept[n]
                  t == kept[n + 1]
      <4>1. t = Append(s, list[n + 1]) /\ s \in Seq(T)
        BY <2>2, <2>4, <3>2
      <4>2. Has(t, e) <=> Has(s, e) \/ list[n + 1] = e
        <5>. HIDE DEF s, t, P, Good
        <5>1. /\ Len(t) = Len(s) + 1 /\ Len(s) \in Nat /\ DOMAIN t = 1 .. Len(s) + 1
              /\ DOMAIN s = 1 .. Len(s) /\ t[Len(s) + 1] = list[n + 1]
              /\ \A i \in 1 .. Len(s) : t[i] = s[i]
          BY <4>1, <2>3
        <5>. QED
          BY <5>1
      <4>. QED
        BY <2>2, <3>1, <3>2, <4>2
    <3>3. CASE list[n + 1] \notin S
      BY <2>2, <2>4, <3>1, <3>3
    <3>. QED
      BY <3>2, <3>3
  <2>. QED
    BY <2>5, <2>6
<1>6. P \in SUBSET Nat /\ Len(list) \in Nat /\ DOMAIN list = 1 .. Len(list)
  OBVIOUS
<1>. HIDE DEF P
<1>7. Len(list) \in P
  BY <1>4, <1>5, <1>6, SetInduction
<1>8. Good(Len(list))
  BY <1>6, <1>7 DEF P
<1>9. Keep(list, S) = kept[Len(list)]
  BY <1>1, Zenon DEF Stages
<1>. QED
  BY <1>6, <1>8, <1>9

\* The two halves of KeepLemma, in the forms that are cited.
LEMMA KeepSound ==
    ASSUME NEW T, NEW list \in Seq(T), NEW S
    PROVE  /\ Keep(list, S) \in Seq(T)
           /\ \A i \in DOMAIN Keep(list, S) :
                 Keep(list, S)[i] \in S /\ \E j \in DOMAIN list : list[j] = Keep(list, S)[i]
<1>1. \A e : (\E i \in DOMAIN Keep(list, S) : Keep(list, S)[i] = e)
               <=> e \in S /\ \E i \in DOMAIN list : list[i] = e
  BY KeepLemma
<1>2. Keep(list, S) \in Seq(T)
  BY KeepLemma
<1>. QED
  BY <1>1, <1>2

LEMMA KeepComplete ==
    ASSUME NEW T, NEW list \in Seq(T), NEW S, NEW j \in DOMAIN list, list[j] \in S
    PROVE  \E i \in DOMAIN Keep(list, S) : Keep(list, S)[i] = list[j]
<1>1. \A e : (\E i \in DOMAIN Keep(list, S) : Keep(list, S)[i] = e)
               <=> e \in S /\ \E i \in DOMAIN list : list[i] = e
  BY KeepLemma
<1>. QED
  BY <1>1

\* No value occurs twice.
Distinct(s) == \A i, j \in DOMAIN s : s[i] = s[j] => i = j

\* Filtering repeats nothing.
LEMMA KeepDistinct ==
    ASSUME NEW T, NEW list \in Seq(T), NEW S, Distinct(list)
    PROVE  Distinct(Keep(list, S))
<1>1. PICK kept : Stages(list, S, kept)
  BY KeepStages
<1>. DEFINE Good(n) == /\ kept[n] \in Seq(T) /\ Distinct(kept[n])
                       /\ \A k \in DOMAIN kept[n] : \E i \in 1 .. n : kept[n][k] = list[i]
            P == {n \in Nat : n <= Len(list) => Good(n)}
<1>2. 0 \in P
  <2>1. kept[0] = <<>>
    BY <1>1 DEF Stages
  <2>2. <<>> \in Seq(T) /\ DOMAIN <<>> = {} /\ Distinct(<<>>)
    BY DEF Distinct
  <2>3. Good(0)
    BY <2>1, <2>2
  <2>. QED
    BY <2>3, Zenon
<1>3. ASSUME NEW n \in P PROVE n + 1 \in P
  <2>1. n \in Nat /\ n + 1 \in Nat
    OBVIOUS
  <2>. SUFFICES ASSUME n + 1 <= Len(list) PROVE Good(n + 1)
    BY <2>1, Zenon
  <2>2. Good(n)
    <3>1. n <= Len(list)
      BY <2>1
    <3>. QED
      BY <3>1, Zenon
  <2>3. n + 1 \in 1 .. Len(list) /\ (n + 1) - 1 = n /\ list[n + 1] \in T
    BY <2>1
  <2>4. kept[n + 1] = IF list[n + 1] \in S THEN Append(kept[n], list[n + 1]) ELSE kept[n]
    BY <1>1, <2>3 DEF Stages
  <2>. DEFINE s == kept[n]
              t == kept[n + 1]
  <2>5. /\ s \in Seq(T) /\ Distinct(s)
        /\ \A k \in DOMAIN s : \E i \in 1 .. n : s[k] = list[i]
    BY <2>2
  <2>6. CASE list[n + 1] \notin S
    <3>1. t = s
      BY <2>4, <2>6
    <3>. HIDE DEF s, t
    <3>2. \A k \in DOMAIN t : \E i \in 1 .. n + 1 : t[k] = list[i]
      BY <2>1, <2>5, <3>1
    <3>. QED
      BY <2>5, <3>1, <3>2 DEF t
  <2>7. CASE list[n + 1] \in S
    <3>1. t = Append(s, list[n + 1])
      BY <2>4, <2>7
    <3>. HIDE DEF s, t, P, Good
    <3>2. /\ t \in Seq(T) /\ Len(s) \in Nat
          /\ DOMAIN t = 1 .. Len(s) + 1 /\ DOMAIN s = 1 .. Len(s)
          /\ t[Len(s) + 1] = list[n + 1] /\ \A k \in 1 .. Len(s) : t[k] = s[k]
      BY <2>3, <2>5, <3>1
    <3>3. ASSUME NEW k \in 1 .. Len(s) PROVE t[k] # list[n + 1] /\ \E i \in 1 .. n : t[k] = list[i]
      <4>1. PICK i \in 1 .. n : s[k] = list[i]
        BY <2>5, <3>2
      <4>2. i \in DOMAIN list /\ n + 1 \in DOMAIN list /\ i # n + 1
        BY <2>1, <2>3
      <4>3. list[i] # list[n + 1]
        BY <4>2 DEF Distinct
      <4>. QED
        BY <3>2, <4>1, <4>3
    <3>4. Distinct(t)
      <4>. SUFFICES ASSUME NEW i \in DOMAIN t, NEW j \in DOMAIN t, t[i] = t[j]
                    PROVE  i = j
        BY DEF Distinct
      <4>1. CASE i \in 1 .. Len(s) /\ j \in 1 .. Len(s)
        BY <2>5, <3>2, <4>1 DEF Distinct
      <4>2. CASE i = Len(s) + 1 /\ j \in 1 .. Len(s)
        BY <3>2, <3>3, <4>2
      <4>3. CASE i \in 1 .. Len(s) /\ j = Len(s) + 1
        BY <3>2, <3>3, <4>3
      <4>. QED
        BY <3>2, <4>1, <4>2, <4>3
    <3>5. \A k \in DOMAIN t : \E i \in 1 .. n + 1 : t[k] = list[i]
      <4>. SUFFICES ASSUME NEW k \in DOMAIN t PROVE \E i \in 1 .. n + 1 : t[k] = list[i]
        OBVIOUS
      <4>1. CASE k \in 1 .. Len(s)
        BY <2>1, <3>3, <4>1
      <4>2. CASE k = Len(s) + 1
        BY <2>1, <3>2, <4>2
      <4>. QED
        BY <3>2, <4>1, <4>2
    <3>. QED
      BY <3>2, <3>4, <3>5 DEF t, Good
  <2>. QED
    BY <2>6, <2>7
<1>4. P \in SUBSET Nat /\ Len(list) \in Nat
  OBVIOUS
<1>. HIDE DEF P
<1>5. Len(list) \in P
  BY <1>2, <1>3, <1>4, SetInduction
<1>6. Good(Len(list))
  BY <1>4, <1>5 DEF P
<1>. QED
  BY <1>1, <1>6 DEF Stages

-------------------------------------------------------------------------------
(* The operations on a list of nodes *)

\* push() adds the client of the new node and no one else.
LEMMA PushLemma ==
    ASSUME NEW list \in Seq(Nodes), NEW chan \in Chans, NEW fd \in Fds, NEW name \in Fds
    PROVE  /\ Push(list, chan, fd, name) \in Seq(Nodes)
           /\ \A g : LoggedIn(Push(list, chan, fd, name), g) <=> g = fd \/ LoggedIn(list, g)
<1>. DEFINE node == [fd |-> fd, chan |-> chan, name |-> name]
            new  == <<node>> \o list
<1>1. node \in Nodes /\ node.fd = fd
  BY DEF Nodes
<1>. HIDE DEF node
<1>2. new \in Seq(Nodes)
  BY <1>1
<1>3. /\ DOMAIN new = 1 .. Len(list) + 1 /\ DOMAIN list = 1 .. Len(list)
      /\ new[1] = node /\ Len(list) \in Nat
      /\ \A i \in 1 .. Len(list) : new[i + 1] = list[i]
  BY <1>1
<1>4. Push(list, chan, fd, name) = new
  BY DEF Push, node
<1>. HIDE DEF new
<1>5. ASSUME NEW g, \E i \in DOMAIN new : new[i].fd = g
      PROVE  g = fd \/ \E i \in DOMAIN list : list[i].fd = g
  <2>1. PICK i \in 1 .. Len(list) + 1 : new[i].fd = g
    BY <1>3, <1>5
  <2>2. i # 1 => i - 1 \in 1 .. Len(list) /\ (i - 1) + 1 = i
    BY <1>3
  <2>3. i # 1 => list[i - 1].fd = g
    BY <1>3, <2>1, <2>2
  <2>. QED
    BY <1>1, <1>3, <2>1, <2>2, <2>3
<1>6. ASSUME NEW g, g = fd \/ \E i \in DOMAIN list : list[i].fd = g
      PROVE  \E i \in DOMAIN new : new[i].fd = g
  <2>1. CASE g = fd
    BY <1>1, <1>3, <2>1
  <2>2. ASSUME NEW i \in DOMAIN list, list[i].fd = g PROVE \E j \in DOMAIN new : new[j].fd = g
    <3>1. i + 1 \in DOMAIN new /\ new[i + 1].fd = g
      BY <1>3, <2>2
    <3>. QED
      BY <3>1
  <2>. QED
    BY <1>6, <2>1, <2>2
<1>. QED
  BY <1>2, <1>4, <1>5, <1>6 DEF LoggedIn

\* delete_client() leaves no node it should remove, and brings no one in.
LEMMA DeleteLemma ==
    ASSUME NEW list \in Seq(Nodes), NEW chan, NEW fd
    PROVE  /\ DeleteClient(list, chan, fd) \in Seq(Nodes)
           /\ \A g : LoggedIn(DeleteClient(list, chan, fd), g) => LoggedIn(list, g)
           /\ chan = -1 => ~ LoggedIn(DeleteClient(list, chan, fd), fd)
<1>. DEFINE S   == {n \in Nodes : ~ (n.fd = fd /\ chan \in {-1, n.chan})}
            new == Keep(list, S)
<1>1. chan = -1 => \A n \in S : n.fd # fd
  OBVIOUS
<1>2. DeleteClient(list, chan, fd) = new
  BY DEF DeleteClient
<1>. HIDE DEF S
<1>3. /\ new \in Seq(Nodes)
      /\ \A i \in DOMAIN new : new[i] \in S /\ \E j \in DOMAIN list : list[j] = new[i]
  BY KeepSound
<1>. HIDE DEF new
<1>. QED
  BY <1>1, <1>2, <1>3 DEF LoggedIn

\* A message is relayed to registered clients only, and not to its sender.
LEMMA ListenersLemma ==
    ASSUME NEW list \in Seq(Nodes), NEW chan, NEW sender
    PROVE  /\ Listeners(list, chan, sender) \in Seq(Nodes)
           /\ \A i \in DOMAIN Listeners(list, chan, sender) :
                 /\ LoggedIn(list, Listeners(list, chan, sender)[i].fd)
                 /\ Listeners(list, chan, sender)[i].fd # sender
<1>. DEFINE S  == {n \in Nodes : n.chan = chan /\ n.fd # sender}
            to == Keep(list, S)
<1>1. \A n \in S : n.fd # sender
  OBVIOUS
<1>2. Listeners(list, chan, sender) = to
  BY DEF Listeners
<1>. HIDE DEF S
<1>3. /\ to \in Seq(Nodes)
      /\ \A i \in DOMAIN to : to[i] \in S /\ \E j \in DOMAIN list : list[j] = to[i]
  BY KeepSound
<1>. HIDE DEF to
<1>. QED
  BY <1>1, <1>2, <1>3 DEF LoggedIn

\* The name of a registered client is found.
LEMMA NameLemma ==
    ASSUME NEW list \in Seq(Nodes), NEW fd, LoggedIn(list, fd)
    PROVE  NameOf(list, fd) \in Fds
<1>. DEFINE S     == {n \in Nodes : n.fd = fd}
            nodes == Keep(list, S)
<1>1. PICK k \in DOMAIN list : list[k].fd = fd
  BY DEF LoggedIn
<1>2. list[k] \in S
  BY <1>1
<1>3. NameOf(list, fd) = nodes[1].name
  BY DEF NameOf
<1>. HIDE DEF S
<1>4. nodes \in Seq(Nodes)
  BY KeepSound
<1>5. \E i \in DOMAIN nodes : nodes[i] = list[k]
  BY <1>2, KeepComplete
<1>. HIDE DEF nodes
<1>6. nodes[1] \in Nodes
  BY <1>4, <1>5
<1>. QED
  BY <1>3, <1>6 DEF Nodes

\* get_uesrs_list() returns a list of users.
LEMMA UsersLemma ==
    ASSUME NEW list \in Seq(Nodes), NEW chan
    PROVE  UsersOf(list, chan) \in Seq(Users)
<1>. DEFINE S     == {n \in Nodes : n.chan = chan}
            nodes == Keep(list, S)
            users == [i \in DOMAIN nodes |-> [fd |-> nodes[i].fd, name |-> nodes[i].name]]
<1>1. UsersOf(list, chan) = users
  BY DEF UsersOf
<1>. HIDE DEF S
<1>2. nodes \in Seq(Nodes)
  BY KeepSound
<1>. HIDE DEF nodes
<1>3. Len(nodes) \in Nat /\ DOMAIN nodes = 1 .. Len(nodes)
  BY <1>2
<1>4. ASSUME NEW i \in DOMAIN nodes
      PROVE  [fd |-> nodes[i].fd, name |-> nodes[i].name] \in Users
  <2>1. nodes[i] \in Nodes
    BY <1>2
  <2>. QED
    BY <2>1 DEF Nodes, Users
<1>5. users \in [1 .. Len(nodes) -> Users]
  BY <1>3, <1>4
<1>. HIDE DEF users
<1>. QED
  BY <1>1, <1>3, <1>5

\* Creating a channel registers no one who was not registered before.
LEMMA CreateLemma ==
    ASSUME NEW list \in Seq(Nodes), NEW chan \in Chans, NEW fd \in Fds,
           NEW listed \in Seq(Int), LoggedIn(list, fd)
    PROVE  /\ CreateNodes(list, chan, fd, listed) \in Seq(Nodes)
           /\ \A g : LoggedIn(CreateNodes(list, chan, fd, listed), g) => LoggedIn(list, g)
<1>. DEFINE found  == Keep(listed, FdsOf(list))
            n      == Len(found)
            pushed == [i \in 1 .. n |-> [fd   |-> found[n + 1 - i],
                                         chan |-> chan,
                                         name |-> NameOf(list, found[n + 1 - i])]]
            own    == Push(list, chan, fd, list[1].name)
<1>1. CreateNodes(list, chan, fd, listed) = pushed \o own
  BY DEF CreateNodes
<1>2. found \in Seq(Int) /\ \A i \in DOMAIN found : found[i] \in FdsOf(list)
  BY KeepSound
<1>3. list[1].name \in Fds
  <2>1. list[1] \in Nodes
    BY DEF LoggedIn
  <2>. QED
    BY <2>1 DEF Nodes
<1>4. own \in Seq(Nodes) /\ \A g : LoggedIn(own, g) <=> g = fd \/ LoggedIn(list, g)
  BY <1>3, PushLemma
<1>. HIDE DEF found, own
<1>5. ASSUME NEW j \in DOMAIN found
      PROVE  found[j] \in Fds /\ LoggedIn(list, found[j]) /\ NameOf(list, found[j]) \in Fds
  <2>1. PICK i \in DOMAIN list : list[i].fd = found[j]
    BY <1>2 DEF FdsOf
  <2>2. list[i] \in Nodes
    OBVIOUS
  <2>3. found[j] \in Fds /\ LoggedIn(list, found[j])
    BY <2>1, <2>2 DEF LoggedIn, Nodes
  <2>. QED
    BY <2>3, NameLemma
<1>6. n \in Nat /\ DOMAIN found = 1 .. n /\ \A i \in 1 .. n : n + 1 - i \in 1 .. n
  BY <1>2
<1>. HIDE DEF n
<1>7. ASSUME NEW i \in 1 .. n
      PROVE  pushed[i] \in Nodes /\ LoggedIn(list, pushed[i].fd)
  BY <1>5, <1>6 DEF Nodes
<1>8. DOMAIN pushed = 1 .. n
  OBVIOUS
<1>9. pushed \in Seq(Nodes) /\ Len(pushed) = n
  <2>1. pushed \in [1 .. n -> Nodes]
    BY <1>7, <1>8
  <2>. HIDE DEF pushed
  <2>. QED
    BY <1>6, <2>1
<1>. HIDE DEF pushed
<1>10. pushed \o own \in Seq(Nodes)
  BY <1>4, <1>9
<1>11. ASSUME NEW i \in DOMAIN (pushed \o own)
       PROVE  \/ \E j \in DOMAIN pushed : (pushed \o own)[i] = pushed[j]
              \/ \E j \in DOMAIN own : (pushed \o own)[i] = own[j]
  <2>1. CASE i \in 1 .. n
    BY <1>4, <1>8, <1>9, <2>1
  <2>2. CASE i \notin 1 .. n
    <3>1. i - n \in DOMAIN own /\ (pushed \o own)[i] = own[i - n]
      BY <1>4, <1>6, <1>9, <2>2
    <3>. QED
      BY <3>1
  <2>. QED
    BY <2>1, <2>2
<1>12. ASSUME NEW g, LoggedIn(pushed \o own, g) PROVE LoggedIn(list, g)
  <2>1. PICK i \in DOMAIN (pushed \o own) : (pushed \o own)[i].fd = g
    BY <1>12 DEF LoggedIn
  <2>2. CASE \E j \in DOMAIN pushed : (pushed \o own)[i] = pushed[j]
    BY <1>7, <1>8, <2>1, <2>2
  <2>3. CASE \E j \in DOMAIN own : (pushed \o own)[i] = own[j]
    BY <1>4, <2>1, <2>3 DEF LoggedIn
  <2>. QED
    BY <1>11, <2>2, <2>3
<1>. QED
  BY <1>1, <1>10, <1>12

-------------------------------------------------------------------------------
(* Who is in which channel *)

\* push() adds one membership.
LEMMA PushMember ==
    ASSUME NEW list \in Seq(Nodes), NEW chan \in Chans, NEW fd \in Fds, NEW name \in Fds
    PROVE  \A g, c : Member(Push(list, chan, fd, name), g, c)
                       <=> (g = fd /\ c = chan) \/ Member(list, g, c)
<1>. DEFINE node == [fd |-> fd, chan |-> chan, name |-> name]
            new  == <<node>> \o list
<1>1. node \in Nodes /\ node.fd = fd /\ node.chan = chan
  BY DEF Nodes
<1>. HIDE DEF node
<1>2. /\ DOMAIN new = 1 .. Len(list) + 1 /\ DOMAIN list = 1 .. Len(list)
      /\ new[1] = node /\ Len(list) \in Nat
      /\ \A i \in 1 .. Len(list) : new[i + 1] = list[i]
  BY <1>1
<1>3. Push(list, chan, fd, name) = new
  BY DEF Push, node
<1>. HIDE DEF new
<1>4. ASSUME NEW g, NEW c, Member(new, g, c)
      PROVE  (g = fd /\ c = chan) \/ Member(list, g, c)
  <2>1. PICK i \in 1 .. Len(list) + 1 : new[i].fd = g /\ new[i].chan = c
    BY <1>2, <1>4 DEF Member
  <2>2. CASE i = 1
    BY <1>1, <1>2, <2>1, <2>2
  <2>3. CASE i # 1
    <3>1. i - 1 \in 1 .. Len(list) /\ (i - 1) + 1 = i
      BY <1>2, <2>3
    <3>2. list[i - 1].fd = g /\ list[i - 1].chan = c
      BY <1>2, <2>1, <3>1
    <3>. QED
      BY <1>2, <3>1, <3>2 DEF Member
  <2>. QED
    BY <2>2, <2>3
<1>5. ASSUME NEW g, NEW c, Member(list, g, c) PROVE Member(new, g, c)
  <2>1. PICK i \in 1 .. Len(list) : list[i].fd = g /\ list[i].chan = c
    BY <1>2, <1>5 DEF Member
  <2>2. i + 1 \in DOMAIN new /\ new[i + 1].fd = g /\ new[i + 1].chan = c
    BY <1>2, <2>1
  <2>. QED
    BY <2>2 DEF Member
<1>6. Member(new, fd, chan)
  <2>1. 1 \in DOMAIN new /\ new[1].fd = fd /\ new[1].chan = chan
    BY <1>1, <1>2
  <2>. QED
    BY <2>1 DEF Member
<1>. QED
  BY <1>3, <1>4, <1>5, <1>6

\* The memberships in a filtered list.
LEMMA KeepMember ==
    ASSUME NEW list \in Seq(Nodes), NEW S, NEW g, NEW c
    PROVE  Member(Keep(list, S), g, c)
             <=> \E i \in DOMAIN list : list[i] \in S /\ list[i].fd = g /\ list[i].chan = c
<1>. DEFINE new == Keep(list, S)
<1>1. \A e : (\E i \in DOMAIN new : new[i] = e) <=> e \in S /\ \E i \in DOMAIN list : list[i] = e
  BY KeepLemma
<1>. HIDE DEF new
<1>2. ASSUME NEW i \in DOMAIN new, new[i].fd = g, new[i].chan = c
      PROVE  \E j \in DOMAIN list : list[j] \in S /\ list[j].fd = g /\ list[j].chan = c
  BY <1>1, <1>2
<1>3. ASSUME NEW i \in DOMAIN list, list[i] \in S, list[i].fd = g, list[i].chan = c
      PROVE  \E j \in DOMAIN new : new[j].fd = g /\ new[j].chan = c
  BY <1>1, <1>3
<1>4. Member(new, g, c) <=> \E i \in DOMAIN new : new[i].fd = g /\ new[i].chan = c
  BY DEF Member
<1>. QED
  BY <1>2, <1>3, <1>4 DEF new

\* delete_client() ends the memberships of the client in the channel, or in all
\* of them, and no other.
LEMMA DeleteMember ==
    ASSUME NEW list \in Seq(Nodes), NEW chan, NEW fd
    PROVE  \A g, c : Member(DeleteClient(list, chan, fd), g, c)
                       <=> Member(list, g, c) /\ ~ (g = fd /\ chan \in {-1, c})
<1>. DEFINE S == {n \in Nodes : ~ (n.fd = fd /\ chan \in {-1, n.chan})}
<1>1. \A i \in DOMAIN list :
        list[i] \in S <=> ~ (list[i].fd = fd /\ chan \in {-1, list[i].chan})
  OBVIOUS
<1>2. DeleteClient(list, chan, fd) = Keep(list, S)
  BY DEF DeleteClient
<1>. HIDE DEF S
<1>3. ASSUME NEW g, NEW c
      PROVE  Member(Keep(list, S), g, c) <=> Member(list, g, c) /\ ~ (g = fd /\ chan \in {-1, c})
  <2>1. Member(Keep(list, S), g, c)
          <=> \E i \in DOMAIN list : list[i] \in S /\ list[i].fd = g /\ list[i].chan = c
    BY KeepMember
  <2>. QED
    BY <1>1, <2>1 DEF Member
<1>. QED
  BY <1>2, <1>3

\* The listeners of a channel are those who are in it, without the sender.
LEMMA ListenersMember ==
    ASSUME NEW list \in Seq(Nodes), NEW chan, NEW sender, NEW g
    PROVE  (\E i \in DOMAIN Listeners(list, chan, sender) : Listeners(list, chan, sender)[i].fd = g)
             <=> Member(list, g, chan) /\ g # sender
<1>. DEFINE S  == {n \in Nodes : n.chan = chan /\ n.fd # sender}
            to == Keep(list, S)
<1>1. \A i \in DOMAIN list : list[i] \in S <=> list[i].chan = chan /\ list[i].fd # sender
  OBVIOUS
<1>2. Listeners(list, chan, sender) = to
  BY DEF Listeners
<1>. HIDE DEF S
<1>3. \A e : (\E i \in DOMAIN to : to[i] = e) <=> e \in S /\ \E i \in DOMAIN list : list[i] = e
  BY KeepLemma
<1>. HIDE DEF to
<1>4. ASSUME NEW i \in DOMAIN to, to[i].fd = g PROVE Member(list, g, chan) /\ g # sender
  BY <1>1, <1>3, <1>4 DEF Member
<1>5. ASSUME Member(list, g, chan), g # sender PROVE \E i \in DOMAIN to : to[i].fd = g
  <2>1. PICK j \in DOMAIN list : list[j].fd = g /\ list[j].chan = chan
    BY <1>5 DEF Member
  <2>2. list[j] \in S
    BY <1>1, <1>5, <2>1
  <2>. QED
    BY <1>3, <2>1, <2>2
<1>. QED
  BY <1>2, <1>4, <1>5

\* A created channel gets its creator and those listed who were registered; the
\* other memberships stay.
LEMMA CreateMember ==
    ASSUME NEW list \in Seq(Nodes), NEW chan \in Chans, NEW fd \in Fds,
           NEW listed \in Seq(Int), LoggedIn(list, fd)
    PROVE  \E others \in SUBSET Fds :
              /\ \A g : g \in others
                           <=> LoggedIn(list, g) /\ \E i \in DOMAIN listed : listed[i] = g
              /\ \A g, c : Member(CreateNodes(list, chan, fd, listed), g, c)
                             <=> Member(list, g, c) \/ (c = chan /\ g \in others \cup {fd})
<1>. DEFINE found  == Keep(listed, FdsOf(list))
            n      == Len(found)
            pushed == [i \in 1 .. n |-> [fd   |-> found[n + 1 - i],
                                         chan |-> chan,
                                         name |-> NameOf(list, found[n + 1 - i])]]
            own    == Push(list, chan, fd, list[1].name)
            others == {found[j] : j \in DOMAIN found}
<1>1. CreateNodes(list, chan, fd, listed) = pushed \o own
  BY DEF CreateNodes
<1>2. /\ found \in Seq(Int) /\ \A i \in DOMAIN found : found[i] \in FdsOf(list)
      /\ \A g : (\E j \in DOMAIN found : found[j] = g)
                  <=> g \in FdsOf(list) /\ \E i \in DOMAIN listed : listed[i] = g
  BY KeepSound, KeepLemma
<1>3. list[1].name \in Fds
  <2>1. list[1] \in Nodes
    BY DEF LoggedIn
  <2>. QED
    BY <2>1 DEF Nodes
<1>4. /\ own \in Seq(Nodes)
      /\ \A g, c : Member(own, g, c) <=> (g = fd /\ c = chan) \/ Member(list, g, c)
  BY <1>3, PushLemma, PushMember
<1>. HIDE DEF found, own
<1>5. ASSUME NEW j \in DOMAIN found
      PROVE  found[j] \in Fds /\ LoggedIn(list, found[j])
  <2>1. PICK i \in DOMAIN list : list[i].fd = found[j]
    BY <1>2 DEF FdsOf
  <2>2. list[i] \in Nodes
    OBVIOUS
  <2>. QED
    BY <2>1, <2>2 DEF LoggedIn, Nodes
<1>6. n \in Nat /\ DOMAIN found = 1 .. n /\ \A i \in 1 .. n : n + 1 - i \in 1 .. n
  BY <1>2
<1>7. /\ others \in SUBSET Fds
      /\ \A g : g \in others
                  <=> LoggedIn(list, g) /\ \E i \in DOMAIN listed : listed[i] = g
  <2>1. \A g : g \in others <=> \E j \in DOMAIN found : found[j] = g
    OBVIOUS
  <2>2. \A g : g \in FdsOf(list) <=> LoggedIn(list, g)
    BY DEF FdsOf, LoggedIn
  <2>3. others \in SUBSET Fds
    BY <1>5
  <2>. HIDE DEF others
  <2>. QED
    BY <1>2, <2>1, <2>2, <2>3
<1>. HIDE DEF n
<1>8. /\ pushed \in [1 .. n -> {pushed[i] : i \in 1 .. n}]
      /\ \A i \in 1 .. n : pushed[i].fd = found[n + 1 - i] /\ pushed[i].chan = chan
  OBVIOUS
<1>. DEFINE new == pushed \o own
<1>9. /\ DOMAIN pushed = 1 .. n /\ Len(pushed) = n
      /\ Len(own) \in Nat /\ DOMAIN own = 1 .. Len(own)
      /\ DOMAIN new = 1 .. n + Len(own)
      /\ \A i \in 1 .. n : new[i] = pushed[i]
      /\ \A i \in 1 .. Len(own) : new[n + i] = own[i]
  <2>. DEFINE P == {pushed[i] : i \in 1 .. n}
  <2>1. pushed \in [1 .. n -> P]
    BY <1>8
  <2>. HIDE DEF pushed, P
  <2>2. pushed \in Seq(P) /\ Len(pushed) = n /\ DOMAIN pushed = 1 .. n
    BY <1>6, <2>1
  <2>3. Len(own) \in Nat /\ DOMAIN own = 1 .. Len(own)
    BY <1>4
  <2>. QED
    BY <1>4, <1>6, <2>2, <2>3
<1>. HIDE DEF pushed, new
<1>10. ASSUME NEW g, NEW c, Member(new, g, c)
       PROVE  Member(list, g, c) \/ (c = chan /\ g \in others \cup {fd})
  <2>1. PICK i \in 1 .. n + Len(own) : new[i].fd = g /\ new[i].chan = c
    BY <1>9, <1>10 DEF Member
  <2>2. CASE i \in 1 .. n
    <3>1. new[i] = pushed[i] /\ pushed[i].fd = found[n + 1 - i] /\ pushed[i].chan = chan
      BY <1>8, <1>9, <2>2
    <3>2. n + 1 - i \in 1 .. n
      BY <1>6, <2>2
    <3>3. found[n + 1 - i] \in others
      BY <1>6, <3>2
    <3>. QED
      BY <2>1, <3>1, <3>3
  <2>3. CASE i \notin 1 .. n
    <3>1. i - n \in 1 .. Len(own) /\ n + (i - n) = i
      BY <1>6, <1>9, <2>3
    <3>2. own[i - n].fd = g /\ own[i - n].chan = c
      BY <1>9, <2>1, <3>1
    <3>3. Member(own, g, c)
      BY <1>9, <3>1, <3>2 DEF Member
    <3>. QED
      BY <1>4, <3>3
  <2>. QED
    BY <2>2, <2>3
<1>11. ASSUME NEW g, NEW c, Member(own, g, c) PROVE Member(new, g, c)
  <2>1. PICK i \in 1 .. Len(own) : own[i].fd = g /\ own[i].chan = c
    BY <1>9, <1>11 DEF Member
  <2>2. n + i \in DOMAIN new /\ new[n + i].fd = g /\ new[n + i].chan = c
    BY <1>6, <1>9, <2>1
  <2>. QED
    BY <2>2 DEF Member
<1>12. ASSUME NEW g \in others PROVE Member(new, g, chan)
  <2>1. PICK j \in 1 .. n : g = found[j]
    BY <1>6
  <2>2. PICK i \in 1 .. n : n + 1 - i = j
    <3>1. n + 1 - j \in 1 .. n /\ n + 1 - (n + 1 - j) = j
      BY <1>6
    <3>. QED
      BY <3>1
  <2>3. i \in DOMAIN new /\ new[i] = pushed[i]
    <3>1. n \in Nat /\ Len(own) \in Nat
      BY <1>6, <1>9
    <3>2. i \in 1 .. n + Len(own)
      BY <3>1
    <3>. QED
      BY <1>9, <3>2, ZenonT(20)
  <2>4. pushed[i].fd = g /\ pushed[i].chan = chan
    BY <1>8, <2>1, <2>2
  <2>5. new[i].fd = g /\ new[i].chan = chan
    BY <2>3, <2>4
  <2>. QED
    BY <2>3, <2>5 DEF Member
<1>13. \A g, c : Member(new, g, c)
                   <=> Member(list, g, c) \/ (c = chan /\ g \in others \cup {fd})
  <2>. HIDE DEF others
  <2>. QED
    BY <1>4, <1>10, <1>11, <1>12
<1>14. CreateNodes(list, chan, fd, listed) = new
  BY <1>1 DEF new
<1>. HIDE DEF others
<1>. QED
  BY <1>7, <1>13, <1>14
-------------------------------------------------------------------------------
(* The list and the replies as ChatRooms sees them; both servers use this. *)

\* A membership is a descriptor and a channel; who has it has a node.
LEMMA MembershipsLemma ==
    ASSUME NEW list \in Seq(Nodes)
    PROVE  /\ Memberships(list) \in SUBSET (Fds \X Chans)
           /\ \A g, c : <<g, c>> \in Memberships(list) <=> Member(list, g, c)
<1>1. ASSUME NEW m \in Memberships(list) PROVE m \in Fds \X Chans
  <2>1. PICK i \in DOMAIN list : m = <<list[i].fd, list[i].chan>>
    BY <1>1 DEF Memberships
  <2>2. list[i] \in Nodes
    OBVIOUS
  <2>. QED
    BY <2>1, <2>2 DEF Nodes
<1>2. ASSUME NEW g, NEW c
      PROVE  <<g, c>> \in Memberships(list) <=> Member(list, g, c)
  <2>1. ASSUME <<g, c>> \in Memberships(list) PROVE Member(list, g, c)
    <3>1. PICK i \in DOMAIN list : <<g, c>> = <<list[i].fd, list[i].chan>>
      BY <2>1 DEF Memberships
    <3>. QED
      BY <3>1 DEF Member
  <2>2. ASSUME Member(list, g, c) PROVE <<g, c>> \in Memberships(list)
    BY <2>2 DEF Member, Memberships
  <2>. QED
    BY <2>1, <2>2
<1>. QED
  BY <1>1, <1>2

\* Two sets of memberships with the same pairs are equal.
LEMMA SameMemberships ==
    ASSUME NEW A \in SUBSET (Fds \X Chans), NEW B \in SUBSET (Fds \X Chans),
           \A g \in Fds, c \in Chans : <<g, c>> \in A <=> <<g, c>> \in B
    PROVE  A = B
OBVIOUS

\* Being in some channel is having a node; nobody is in any if there is none.
LEMMA PresentLemma ==
    ASSUME NEW list \in Seq(Nodes)
    PROVE  /\ \A g : (\E c \in Chans : <<g, c>> \in Memberships(list)) <=> LoggedIn(list, g)
           /\ Memberships(list) = {} <=> list = <<>>
<1>1. \A i \in DOMAIN list : list[i].fd \in Fds /\ list[i].chan \in Chans
  <2>. SUFFICES ASSUME NEW i \in DOMAIN list
                PROVE  list[i].fd \in Fds /\ list[i].chan \in Chans
    OBVIOUS
  <2>1. list[i] \in Nodes
    OBVIOUS
  <2>. QED
    BY <2>1 DEF Nodes
<1>2. \A g, c : <<g, c>> \in Memberships(list) <=> Member(list, g, c)
  BY MembershipsLemma
<1>3. \A g : (\E c \in Chans : Member(list, g, c)) <=> LoggedIn(list, g)
  BY <1>1 DEF Member, LoggedIn
<1>4. ASSUME list # <<>> PROVE Memberships(list) # {}
  <2>1. 1 \in DOMAIN list
    BY <1>4
  <2>. QED
    BY <2>1 DEF Memberships
<1>5. Memberships(<<>>) = {}
  BY DEF Memberships
<1>. QED
  BY <1>2, <1>3, <1>4, <1>5

LEMMA PushMemberships ==
    ASSUME NEW list \in Seq(Nodes), NEW chan \in Chans, NEW fd \in Fds, NEW name \in Fds
    PROVE  Memberships(Push(list, chan, fd, name)) = {<<fd, chan>>} \cup Memberships(list)
<1>. DEFINE new == Push(list, chan, fd, name)
<1>1. new \in Seq(Nodes) /\ \A g, c : Member(new, g, c) <=> (g = fd /\ c = chan) \/ Member(list, g, c)
  BY PushLemma, PushMember
<1>. HIDE DEF new
<1>2. /\ Memberships(new) \in SUBSET (Fds \X Chans) /\ Memberships(list) \in SUBSET (Fds \X Chans)
      /\ \A g, c : <<g, c>> \in Memberships(new) <=> Member(new, g, c)
      /\ \A g, c : <<g, c>> \in Memberships(list) <=> Member(list, g, c)
  BY <1>1, MembershipsLemma
<1>. DEFINE B == {<<fd, chan>>} \cup Memberships(list)
<1>3. B \in SUBSET (Fds \X Chans)
  BY <1>2
<1>4. \A g \in Fds, c \in Chans : <<g, c>> \in Memberships(new) <=> <<g, c>> \in B
  BY <1>1, <1>2
<1>. HIDE DEF B
<1>5. Memberships(new) = B
  BY <1>2, <1>3, <1>4, SameMemberships
<1>. QED
  BY <1>5 DEF B, new

\* delete_client() with -1 ends every membership of the client, with a channel
\* that one.
LEMMA DeleteMemberships ==
    ASSUME NEW list \in Seq(Nodes), NEW chan \in Chans, NEW fd
    PROVE  /\ Memberships(DeleteClient(list, -1, fd)) = {m \in Memberships(list) : m[1] # fd}
           /\ Memberships(DeleteClient(list, chan, fd)) = Memberships(list) \ {<<fd, chan>>}
<1>. DEFINE all == DeleteClient(list, -1, fd)
            one == DeleteClient(list, chan, fd)
<1>1. /\ all \in Seq(Nodes)
      /\ \A g, c : Member(all, g, c) <=> Member(list, g, c) /\ g # fd
  BY DeleteLemma, DeleteMember
<1>2. /\ one \in Seq(Nodes)
      /\ \A g, c : Member(one, g, c) <=> Member(list, g, c) /\ ~ (g = fd /\ c = chan)
  <2>1. chan # -1
    BY ChanModAssumption DEF Chans
  <2>. QED
    BY <2>1, DeleteLemma, DeleteMember
<1>. HIDE DEF all, one
<1>3. \A l \in Seq(Nodes) : /\ Memberships(l) \in SUBSET (Fds \X Chans)
                            /\ \A g, c : <<g, c>> \in Memberships(l) <=> Member(l, g, c)
  BY MembershipsLemma
<1>4. Memberships(all) = {m \in Memberships(list) : m[1] # fd}
  <2>. DEFINE B == {m \in Memberships(list) : m[1] # fd}
  <2>1. B \in SUBSET (Fds \X Chans)
    BY <1>3
  <2>2. \A g \in Fds, c \in Chans : <<g, c>> \in Memberships(all) <=> <<g, c>> \in B
    BY <1>1, <1>3
  <2>. HIDE DEF B
  <2>3. Memberships(all) = B
    BY <1>1, <1>3, <2>1, <2>2, SameMemberships
  <2>. QED
    BY <2>3 DEF B
<1>5. Memberships(one) = Memberships(list) \ {<<fd, chan>>}
  <2>. DEFINE B == Memberships(list) \ {<<fd, chan>>}
  <2>1. B \in SUBSET (Fds \X Chans)
    BY <1>3
  <2>2. \A g \in Fds, c \in Chans : <<g, c>> \in Memberships(one) <=> <<g, c>> \in B
    BY <1>2, <1>3
  <2>. HIDE DEF B
  <2>3. Memberships(one) = B
    BY <1>2, <1>3, <2>1, <2>2, SameMemberships
  <2>. QED
    BY <2>3 DEF B
<1>. QED
  BY <1>4, <1>5 DEF all, one

LEMMA CreateMemberships ==
    ASSUME NEW list \in Seq(Nodes), NEW chan \in Chans, NEW fd \in Fds,
           NEW listed \in Seq(Int), LoggedIn(list, fd)
    PROVE  LET others == {g \in {listed[i] : i \in DOMAIN listed} : LoggedIn(list, g)}
           IN  Memberships(CreateNodes(list, chan, fd, listed))
                 = Memberships(list) \cup {<<g, chan>> : g \in others \cup {fd}}
<1>. DEFINE new    == CreateNodes(list, chan, fd, listed)
            wanted == {g \in {listed[i] : i \in DOMAIN listed} : LoggedIn(list, g)}
<1>1. new \in Seq(Nodes)
  BY CreateLemma
<1>2. PICK others \in SUBSET Fds :
        /\ \A g : g \in others
                    <=> LoggedIn(list, g) /\ \E i \in DOMAIN listed : listed[i] = g
        /\ \A g, c : Member(new, g, c)
                       <=> Member(list, g, c) \/ (c = chan /\ g \in others \cup {fd})
  BY CreateMember, ZenonT(60)
<1>. HIDE DEF new
<1>3. /\ Memberships(new) \in SUBSET (Fds \X Chans) /\ Memberships(list) \in SUBSET (Fds \X Chans)
      /\ \A g, c : <<g, c>> \in Memberships(new) <=> Member(new, g, c)
      /\ \A g, c : <<g, c>> \in Memberships(list) <=> Member(list, g, c)
  BY <1>1, MembershipsLemma
<1>. DEFINE A == {<<g, chan>> : g \in others \cup {fd}}
            B == Memberships(list) \cup A
<1>4. /\ A \in SUBSET (Fds \X Chans)
      /\ \A g, c : <<g, c>> \in A <=> c = chan /\ g \in others \cup {fd}
  OBVIOUS
<1>. HIDE DEF A
<1>5. B \in SUBSET (Fds \X Chans)
  BY <1>3, <1>4
<1>6. \A g \in Fds, c \in Chans : <<g, c>> \in Memberships(new) <=> <<g, c>> \in B
  <2>. SUFFICES ASSUME NEW g \in Fds, NEW c \in Chans
                PROVE  <<g, c>> \in Memberships(new) <=> <<g, c>> \in B
    OBVIOUS
  <2>1. <<g, c>> \in B <=> <<g, c>> \in Memberships(list) \/ <<g, c>> \in A
    OBVIOUS
  <2>. HIDE DEF B
  <2>2. <<g, c>> \in A <=> c = chan /\ g \in others \cup {fd}
    BY <1>4
  <2>3. <<g, c>> \in Memberships(new)
          <=> Member(list, g, c) \/ (c = chan /\ g \in others \cup {fd})
    BY <1>2, <1>3
  <2>4. <<g, c>> \in Memberships(list) <=> Member(list, g, c)
    BY <1>3
  <2>. QED
    BY <2>1, <2>2, <2>3, <2>4
<1>. HIDE DEF B
<1>7. Memberships(new) = B
  BY <1>3, <1>5, <1>6, SameMemberships
<1>8. others = wanted
  BY <1>2
<1>. HIDE DEF wanted
<1>9. Memberships(new) = Memberships(list) \cup {<<g, chan>> : g \in wanted \cup {fd}}
  BY <1>7, <1>8 DEF A, B
<1>. QED
  BY <1>9 DEF new, wanted

-------------------------------------------------------------------------------
(* What is owed *)

\* No answer has the code of a relayed message.
LEMMA CodesDiffer ==
    SEND \notin {LOGIN, LOGOUT, GET_USERS, CREATE_CHANNEL, JOIN_CHANNEL,
                 LEAVE_CHANNEL, FAILED}
BY DEF SEND, LOGIN, LOGOUT, GET_USERS, CREATE_CHANNEL, JOIN_CHANNEL, LEAVE_CHANNEL, FAILED

\* Reply(code) carries its code.
LEMMA ReplyCode == \A code : Reply(code).code = code
BY DEF Reply

LEMMA OwedLemma ==
    /\ Owed(<<>>) = {}
    /\ \A fd, reply : reply.code # SEND
          => Owed(<<[to |-> fd, reply |-> reply]>>) = {<<fd, <<reply.code>>>>}
<1>1. Owed(<<>>) = {}
  BY DEF Owed
<1>2. ASSUME NEW fd, NEW reply, reply.code # SEND
      PROVE  Owed(<<[to |-> fd, reply |-> reply]>>) = {<<fd, <<reply.code>>>>}
  <2>. DEFINE one == [to |-> fd, reply |-> reply]
              out == <<one>>
  <2>1. one.to = fd /\ one.reply = reply
    OBVIOUS
  <2>2. DOMAIN out = {1} /\ out[1] = one
    OBVIOUS
  <2>. HIDE DEF one
  <2>3. Content(reply) = <<reply.code>>
    BY <1>2 DEF Content
  <2>. HIDE DEF out
  <2>4. Owed(out) = {<<out[1].to, Content(out[1].reply)>>}
    BY <2>2 DEF Owed
  <2>. QED
    BY <2>1, <2>2, <2>3, <2>4 DEF out, one
<1>. QED
  BY <1>1, <1>2

\* What the handler of SEND leaves to be sent, in both servers.
Relayed(list, chan, fd) ==
    [i \in DOMAIN Listeners(list, chan, fd) |->
        [to    |-> Listeners(list, chan, fd)[i].fd,
         reply |-> [code |-> SEND, chan |-> chan, from |-> fd]]]

\* The debts of a relay: to everyone in the channel but the sender.
Debts(list, chan, fd) ==
    {<<g, <<SEND, chan, fd>>>> :
        g \in {h \in Fds : <<h, chan>> \in Memberships(list)} \ {fd}}

LEMMA OwedRelay ==
    ASSUME NEW list \in Seq(Nodes), NEW chan, NEW fd
    PROVE  Owed(Relayed(list, chan, fd)) = Debts(list, chan, fd)
<1>. DEFINE out   == Relayed(list, chan, fd)
            to    == Listeners(list, chan, fd)
            reply == [code |-> SEND, chan |-> chan, from |-> fd]
            what  == <<SEND, chan, fd>>
            R     == {h \in Fds : <<h, chan>> \in Memberships(list)} \ {fd}
<1>1. Content(reply) = what
  BY DEF Content
<1>2. \A g : (\E i \in DOMAIN to : to[i].fd = g) <=> Member(list, g, chan) /\ g # fd
  BY ListenersMember
<1>3. \A g : Member(list, g, chan) => g \in Fds
  <2>. SUFFICES ASSUME NEW g, Member(list, g, chan) PROVE g \in Fds
    OBVIOUS
  <2>1. PICK i \in DOMAIN list : list[i].fd = g
    BY DEF Member
  <2>2. list[i] \in Nodes
    OBVIOUS
  <2>. QED
    BY <2>1, <2>2 DEF Nodes
<1>4. \A g : g \in R <=> Member(list, g, chan) /\ g # fd
  BY <1>3, MembershipsLemma
<1>5. /\ DOMAIN out = DOMAIN to
      /\ \A i \in DOMAIN to : out[i].to = to[i].fd /\ out[i].reply = reply
  BY DEF Relayed
<1>. HIDE DEF to, reply, R, out
<1>6. Owed(out) = {<<to[i].fd, what>> : i \in DOMAIN to}
  BY <1>1, <1>5 DEF Owed
<1>. HIDE DEF what
<1>7. {<<to[i].fd, what>> : i \in DOMAIN to} = {<<g, what>> : g \in R}
  BY <1>2, <1>4
<1>. QED
  BY <1>6, <1>7 DEF what, R, out, Debts

\* A send takes what it sends off the debts, unless the same is owed again.
LEMMA OwedTail ==
    ASSUME NEW T, NEW out \in Seq(T), out # <<>>
    PROVE  \E one \in Owed(out) : Owed(Tail(out)) \in {Owed(out), Owed(out) \ {one}}
<1>. DEFINE debt(o) == <<o.to, Content(o.reply)>>
            rest    == Tail(out)
<1>1. /\ Len(out) \in Nat /\ Len(out) > 0 /\ DOMAIN out = 1 .. Len(out)
      /\ DOMAIN rest = 1 .. Len(out) - 1
      /\ \A i \in 1 .. Len(out) - 1 : rest[i] = out[i + 1]
  OBVIOUS
<1>2. \A x : x \in Owed(out) <=> \E i \in 1 .. Len(out) : x = debt(out[i])
  BY <1>1 DEF Owed
<1>3. \A x : x \in Owed(rest) <=> \E i \in 1 .. Len(out) - 1 : x = debt(rest[i])
  BY <1>1 DEF Owed
<1>. HIDE DEF rest, debt
<1>4. debt(out[1]) \in Owed(out)
  BY <1>1, <1>2
<1>5. ASSUME NEW x \in Owed(rest) PROVE x \in Owed(out)
  <2>1. PICK i \in 1 .. Len(out) - 1 : x = debt(rest[i])
    BY <1>3, <1>5
  <2>2. i + 1 \in 1 .. Len(out) /\ rest[i] = out[i + 1]
    BY <1>1
  <2>. QED
    BY <1>2, <2>1, <2>2
<1>6. ASSUME NEW x \in Owed(out), x # debt(out[1]) PROVE x \in Owed(rest)
  <2>1. PICK i \in 1 .. Len(out) : x = debt(out[i])
    BY <1>2, <1>6
  <2>2. i - 1 \in 1 .. Len(out) - 1 /\ (i - 1) + 1 = i
    BY <1>1, <1>6, <2>1
  <2>3. rest[i - 1] = out[i]
    BY <1>1, <2>2
  <2>. QED
    BY <1>3, <2>1, <2>2, <2>3
<1>. DEFINE one == debt(out[1])
<1>. HIDE DEF one
<1>7. Owed(rest) = Owed(out) \/ Owed(rest) = Owed(out) \ {one}
  BY <1>4, <1>5, <1>6 DEF one
<1>8. one \in Owed(out)
  BY <1>4 DEF one
<1>. QED
  BY <1>7, <1>8 DEF rest
===============================================================================
