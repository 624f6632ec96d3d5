-------------------------- MODULE RouterTreeProofs --------------------------
(***************************************************************************)
(* Proofs about RouterTree, for any number of nodes, boards and requests,  *)
(* when every server has a line in the route table and its board a router. *)
(***************************************************************************)
EXTENDS RouterTree, WellFoundedInduction, SequenceTheorems, TLAPS

Routed ==
    /\ TreeAssumption /\ ServerAssumption /\ Unrouted = {}
    /\ \A s \in Server : s.rtr \in Router

\* A RouterEvent on its way.
Event == [kind : {"req", "resp"}, src : Router, dest : Server, n : Nat, hops : 0 .. 3]

\* The events of the links.
LinkState == [Router -> [Router -> Seq(Event)]]

WayTypeOK ==
    /\ localMap \subseteq Server
    /\ link \in LinkState
    /\ sent \in [Asks -> Nat]
    /\ answered \in [Asks -> Seq(Nat)]

\* An event on the connection from router x to router y is on the way from its
\* first router to its last, directly or by the one in between.
From(ev) == IF ev.kind = "req" THEN ev.src ELSE ev.dest.rtr
To(ev) == IF ev.kind = "req" THEN ev.dest.rtr ELSE ev.src
OnWay(x, y, ev) ==
    /\ <<ev.src, ev.dest>> \in Asks /\ ev.hops \in 1 .. 3
    /\ From(ev) # To(ev)
    /\ LET a == getChannel(From(ev), To(ev))
       IN  \/ x = From(ev) /\ y = a
           \/ a # To(ev) /\ x = a /\ y = To(ev)

Placed(L) == \A x, y \in Router : \A i \in 1 .. Len(L[x][y]) : OnWay(x, y, L[x][y][i])
LinksPlaced == Placed(link)

\* An event at server s is for it or from it.
At(q, kind, s) ==
    \A i \in 1 .. Len(q) : /\ q[i].kind = kind /\ q[i].dest = s
                           /\ <<q[i].src, s>> \in Asks
                           /\ kind = "resp" => q[i].hops = 0
Held(Q, kind) ==
    /\ Q \in [Server -> Seq(Event)]
    /\ \A s \in Server : At(Q[s], kind, s)
ServersPlaced == Held(pending, "req") /\ Held(toServer, "req") /\ Held(fromServer, "resp")

\* What waits is for a server that has not connected.
NoneWait == \A s \in localMap : pending[s] = <<>>

\* All that router r has asked server s, from the answers that are back to the
\* request sent last, is in line: p is such a pair.
Fwd(L, p) == OnLinks(L, p[1], p[2].rtr, "req", p[1], p[2])
Back(L, p) == OnLinks(L, p[2].rtr, p[1], "resp", p[1], p[2])
Of(q, kind, p) == Numbers(q[p[2]], kind, p[1], p[2])
Ahead(t, w, l) == (t \o w) \o l
Row(a, b, f, i) == a \o (b \o (f \o i))

Going(p) == InTransit(p[1], p[2])
Line(p) == Row(answered[p], Back(link, p), Of(fromServer, "resp", p), Going(p))
InLine == \A p \in Asks : Line(p) = [n \in 1 .. sent[p] |-> n]

WayInv == WayTypeOK /\ LinksPlaced /\ ServersPlaced /\ NoneWait

-----------------------------------------------------------------------------
\* The numbers of a queue.

\* A function that counts a part of the queue.
Part(f, m, q, kind, r, s) ==
    f = [i \in 0 .. m |->
            IF i = 0 THEN <<>>
            ELSE IF Mine(q[i], kind, r, s) THEN Append(f[i - 1], q[i].n) ELSE f[i - 1]]

\* What is true of 0 and of the next number is true of all to some bound.
LEMMA UpTo ==
    ASSUME NEW m \in Nat, NEW T, 0 \in T,
           \A i \in 0 .. m - 1 : i \in T => i + 1 \in T
    PROVE  m \in T
<1> DEFINE B == {i \in 0 .. m : i \notin T}
<1>1. SUFFICES ASSUME B # {}
               PROVE  FALSE
  BY m \in 0 .. m
<1>2. B \subseteq Nat
  OBVIOUS
<1>3. \A i \in B : i \in 0 .. m /\ i \notin T
  OBVIOUS
<1>4. \A i \in 0 .. m : i \notin T => i \in B
  OBVIOUS
<1> HIDE DEF B
<1>5. PICK i \in B : \A j \in B : ~ (<<j, i>> \in OpToRel(<, Nat))
  BY <1>1, <1>2, WFMin, NatLessThanWellFounded
<1>6. i # 0 /\ i - 1 \in 0 .. m - 1 /\ i - 1 \in Nat /\ i \in Nat
  BY <1>2, <1>3
<1>7. i - 1 \in T
  <2>1. SUFFICES ASSUME i - 1 \in B
                 PROVE  FALSE
    BY <1>4, <1>6
  <2>2. <<i - 1, i>> \in OpToRel(<, Nat)
    BY <1>6 DEF OpToRel
  <2> QED
    BY <1>5, <2>1, <2>2
<1>8. i \in T
  <2>1. (i - 1) + 1 = i
    BY <1>6
  <2> QED
    BY <1>6, <1>7, <2>1
<1> QED
  BY <1>3, <1>8

\* The recursive definition has a solution.
LEMMA PartsExist ==
    ASSUME NEW q, NEW kind, NEW r, NEW s, NEW l \in Nat
    PROVE  \E f : Part(f, l, q, kind, r, s)
<1> DEFINE T == {m \in 0 .. l : \E f : Part(f, m, q, kind, r, s)}
<1>1. 0 \in T
  <2> DEFINE f == [i \in 0 .. 0 |-> <<>>]
  <2>1. f = [i \in 0 .. 0 |->
                IF i = 0 THEN <<>>
                ELSE IF Mine(q[i], kind, r, s) THEN Append(f[i - 1], q[i].n) ELSE f[i - 1]]
    OBVIOUS
  <2> HIDE DEF f
  <2>2. Part(f, 0, q, kind, r, s)
    BY <2>1 DEF Part
  <2> QED
    BY <2>2
<1>2. ASSUME NEW m \in 0 .. l - 1, m \in T
      PROVE  m + 1 \in T
  <2>1. PICK f : Part(f, m, q, kind, r, s)
    BY <1>2
  <2> DEFINE g == [i \in 0 .. m + 1 |->
                      IF i <= m THEN f[i]
                      ELSE IF Mine(q[i], kind, r, s) THEN Append(f[i - 1], q[i].n)
                      ELSE f[i - 1]]
             h == [i \in 0 .. m + 1 |->
                      IF i = 0 THEN <<>>
                      ELSE IF Mine(q[i], kind, r, s) THEN Append(g[i - 1], q[i].n)
                      ELSE g[i - 1]]
  <2>2. \A i \in 0 .. m : g[i] = f[i]
    OBVIOUS
  <2>3. \A i \in 0 .. m : f[i] =
            IF i = 0 THEN <<>>
            ELSE IF Mine(q[i], kind, r, s) THEN Append(f[i - 1], q[i].n) ELSE f[i - 1]
    <3> DEFINE e(i) == IF i = 0 THEN <<>>
                       ELSE IF Mine(q[i], kind, r, s) THEN Append(f[i - 1], q[i].n)
                       ELSE f[i - 1]
    <3>1. f = [i \in 0 .. m |-> e(i)]
      BY <2>1 DEF Part
    <3> HIDE DEF e
    <3>2. \A i \in 0 .. m : f[i] = e(i)
      BY <3>1
    <3> QED
      BY <3>2 DEF e
  <2>4. ASSUME NEW i \in 0 .. m + 1
        PROVE  g[i] = h[i]
    <3>1. CASE i = 0
      BY <3>1, <2>3
    <3>2. CASE i # 0 /\ i <= m
      <4>1. i - 1 \in 0 .. m /\ i \in 0 .. m
        BY <3>2
      <4>2. g[i - 1] = f[i - 1] /\ g[i] = f[i]
        BY <4>1, <2>2
      <4> QED
        BY <4>1, <4>2, <3>2, <2>3
    <3>3. CASE i = m + 1
      <4>1. i - 1 \in 0 .. m /\ ~ (i <= m) /\ i # 0
        BY <3>3
      <4>2. g[i - 1] = f[i - 1]
        BY <4>1, <2>2
      <4> QED
        BY <4>1, <4>2
    <3> QED
      BY <3>1, <3>2, <3>3
  <2>5. g = h
    BY <2>4
  <2>6. Part(g, m + 1, q, kind, r, s)
    <3> HIDE DEF g
    <3> QED
      BY <2>5 DEF Part
  <2> HIDE DEF g
  <2> QED
    BY <2>6
<1> HIDE DEF T
<1>3. l \in T
  BY <1>1, <1>2, UpTo
<1> QED
  BY <1>3 DEF T

\* Numbers has the value that its definition says, at every place of the queue.
LEMMA NumbersCounts ==
    ASSUME NEW q, NEW kind, NEW r, NEW s, Len(q) \in Nat
    PROVE  \E f : /\ f[0] = <<>>
                  /\ \A i \in 1 .. Len(q) :
                        f[i] = IF Mine(q[i], kind, r, s) THEN Append(f[i - 1], q[i].n)
                               ELSE f[i - 1]
                  /\ Numbers(q, kind, r, s) = f[Len(q)]
<1> DEFINE P(f) == f = [i \in 0 .. Len(q) |->
                      IF i = 0 THEN <<>>
                      ELSE IF Mine(q[i], kind, r, s) THEN Append(f[i - 1], q[i].n)
                      ELSE f[i - 1]]
           c == CHOOSE f : P(f)
           e(i) == IF i = 0 THEN <<>>
                   ELSE IF Mine(q[i], kind, r, s) THEN Append(c[i - 1], q[i].n)
                   ELSE c[i - 1]
<1>1. P(c)
  <2>1. \E f : Part(f, Len(q), q, kind, r, s)
    BY PartsExist
  <2>2. \E f : P(f)
    BY <2>1 DEF Part
  <2> HIDE DEF P
  <2> QED
    BY <2>2
<1>2. Numbers(q, kind, r, s) = c[Len(q)]
  BY DEF Numbers
<1> HIDE DEF c
<1>3. c = [i \in 0 .. Len(q) |-> e(i)]
  BY <1>1
<1> HIDE DEF e
<1>4. \A i \in 0 .. Len(q) : c[i] = e(i)
  BY <1>3
<1>5. c[0] = <<>> /\ \A i \in 1 .. Len(q) :
            c[i] = IF Mine(q[i], kind, r, s) THEN Append(c[i - 1], q[i].n) ELSE c[i - 1]
  BY <1>4 DEF e
<1> QED
  BY <1>2, <1>5

LEMMA NumbersEmpty ==
    ASSUME NEW kind, NEW r, NEW s
    PROVE  Numbers(<<>>, kind, r, s) = <<>>
<1>1. Len(<<>>) = 0
  OBVIOUS
<1>2. PICK f : f[0] = <<>> /\ Numbers(<<>>, kind, r, s) = f[Len(<<>>)]
  BY <1>1, NumbersCounts
<1> QED
  BY <1>1, <1>2

LEMMA NumbersSeq ==
    ASSUME NEW q \in Seq(Event), NEW kind, NEW r, NEW s
    PROVE  Numbers(q, kind, r, s) \in Seq(Nat)
<1>1. Len(q) \in Nat /\ \A i \in 1 .. Len(q) : q[i] \in Event
  BY LenProperties, ElementOfSeq
<1>2. PICK f : /\ f[0] = <<>>
               /\ \A i \in 1 .. Len(q) :
                     f[i] = IF Mine(q[i], kind, r, s) THEN Append(f[i - 1], q[i].n)
                            ELSE f[i - 1]
               /\ Numbers(q, kind, r, s) = f[Len(q)]
  BY <1>1, NumbersCounts
<1> DEFINE T == {i \in 0 .. Len(q) : f[i] \in Seq(Nat)}
<1>3. 0 \in T
  <2>1. <<>> \in Seq(Nat) /\ 0 \in 0 .. Len(q)
    BY <1>1, EmptySeq
  <2> QED
    BY <1>2, <2>1
<1>4. ASSUME NEW i \in 0 .. Len(q) - 1, i \in T
      PROVE  i + 1 \in T
  <2>1. i + 1 \in 1 .. Len(q) /\ (i + 1) - 1 = i /\ i + 1 \in 0 .. Len(q)
    BY <1>1
  <2>2. f[i + 1] = IF Mine(q[i + 1], kind, r, s) THEN Append(f[i], q[i + 1].n) ELSE f[i]
    BY <1>2, <2>1
  <2>3. q[i + 1].n \in Nat
    BY <1>1, <2>1 DEF Event
  <2>4. f[i] \in Seq(Nat)
    BY <1>4
  <2>5. Append(f[i], q[i + 1].n) \in Seq(Nat)
    BY <2>3, <2>4, AppendProperties
  <2> QED
    BY <2>1, <2>2, <2>4, <2>5
<1> HIDE DEF T
<1>5. Len(q) \in T
  <2>1. \A i \in 0 .. Len(q) - 1 : i \in T => i + 1 \in T
    BY <1>4
  <2> QED
    BY <1>1, <1>3, <2>1, UpTo, Zenon
<1> QED
  BY <1>2, <1>5 DEF T

LEMMA ConsSnoc ==
    ASSUME NEW q \in Seq(Nat), NEW x \in Nat
    PROVE  /\ Cons(x, q) \in Seq(Nat) /\ Cons(x, q) = <<x>> \o q
           /\ Snoc(x, q) \in Seq(Nat) /\ Snoc(x, q) = q \o <<x>>
<1>1. <<x>> \in Seq(Nat) /\ Append(q, x) \in Seq(Nat)
  BY AppendProperties
<1>2. <<x>> \o q \in Seq(Nat)
  BY <1>1, ConcatProperties
<1>3. Append(q, x) = q \o <<x>>
  BY AppendIsConcat
<1> QED
  BY <1>1, <1>2, <1>3 DEF Cons, Snoc

LEMMA Associates == \A a, b, c \in Seq(Nat) : (a \o b) \o c = a \o (b \o c)
<1> SUFFICES ASSUME NEW a \in Seq(Nat), NEW b \in Seq(Nat), NEW c \in Seq(Nat)
             PROVE  (a \o b) \o c = a \o (b \o c)
  OBVIOUS
<1> QED
  BY ConcatAssociative

\* A number between two sequences.
LEMMA Between ==
    ASSUME NEW a \in Seq(Nat), NEW b \in Seq(Nat), NEW x \in Nat
    PROVE  /\ Snoc(x, a) \o b = a \o Cons(x, b)
           /\ a \o Snoc(x, b) = Snoc(x, a \o b)
           /\ Cons(x, a) \o b = Cons(x, a \o b)
<1> DEFINE c == <<x>>
<1>1. c \in Seq(Nat) /\ a \o b \in Seq(Nat)
  BY ConcatProperties
<1>2. /\ Cons(x, b) = c \o b /\ Cons(x, a) = c \o a /\ Snoc(x, a) = a \o c
      /\ Snoc(x, b) = b \o c /\ Snoc(x, a \o b) = (a \o b) \o c
      /\ Cons(x, a \o b) = c \o (a \o b)
  BY <1>1, ConsSnoc
<1> HIDE DEF c
<1>3. (a \o c) \o b = a \o (c \o b)
  BY <1>1, Associates
<1>4. (a \o b) \o c = a \o (b \o c)
  BY <1>1, Associates
<1>5. (c \o a) \o b = c \o (a \o b)
  BY <1>1, Associates
<1> QED
  BY <1>2, <1>3, <1>4, <1>5

LEMMA ConcatAppend ==
    ASSUME NEW a \in Seq(Nat), NEW b \in Seq(Nat), NEW x \in Nat
    PROVE  Append(a \o b, x) = a \o Append(b, x)
  BY Between DEF Snoc

LEMMA NumbersConcat ==
    ASSUME NEW q \in Seq(Event), NEW t \in Seq(Event), NEW kind, NEW r, NEW s
    PROVE  Numbers(q \o t, kind, r, s) = Numbers(q, kind, r, s) \o Numbers(t, kind, r, s)
<1> DEFINE u == q \o t
<1>1. /\ Len(q) \in Nat /\ Len(t) \in Nat /\ Len(u) = Len(q) + Len(t)
      /\ \A i \in 1 .. Len(t) : t[i] \in Event
  BY LenProperties, ElementOfSeq, ConcatProperties
<1>2. /\ \A i \in 1 .. Len(q) : u[i] = q[i]
      /\ \A j \in 1 .. Len(t) : u[Len(q) + j] = t[j]
  <2>1. \A i \in 1 .. Len(q) + Len(t) : u[i] = IF i <= Len(q) THEN q[i] ELSE t[i - Len(q)]
    BY ConcatProperties
  <2> HIDE DEF u
  <2>2. ASSUME NEW i \in 1 .. Len(q)
        PROVE  u[i] = q[i]
    BY <1>1, <2>1
  <2>3. ASSUME NEW j \in 1 .. Len(t)
        PROVE  u[Len(q) + j] = t[j]
    <3>1. /\ Len(q) + j \in 1 .. Len(q) + Len(t) /\ ~ (Len(q) + j <= Len(q))
          /\ (Len(q) + j) - Len(q) = j
      BY <1>1
    <3> QED
      BY <2>1, <3>1
  <2> QED
    BY <2>2, <2>3
<1>3. PICK f : /\ f[0] = <<>>
               /\ \A i \in 1 .. Len(q) :
                     f[i] = IF Mine(q[i], kind, r, s) THEN Append(f[i - 1], q[i].n)
                            ELSE f[i - 1]
               /\ Numbers(q, kind, r, s) = f[Len(q)]
  BY <1>1, NumbersCounts
<1>4. PICK h : /\ h[0] = <<>>
               /\ \A i \in 1 .. Len(t) :
                     h[i] = IF Mine(t[i], kind, r, s) THEN Append(h[i - 1], t[i].n)
                            ELSE h[i - 1]
               /\ Numbers(t, kind, r, s) = h[Len(t)]
  BY <1>1, NumbersCounts
<1>5. PICK g : /\ g[0] = <<>>
               /\ \A i \in 1 .. Len(u) :
                     g[i] = IF Mine(u[i], kind, r, s) THEN Append(g[i - 1], u[i].n)
                            ELSE g[i - 1]
               /\ Numbers(u, kind, r, s) = g[Len(u)]
  <2>1. Len(u) \in Nat
    BY <1>1
  <2> HIDE DEF u
  <2> QED
    BY <2>1, NumbersCounts
<1> HIDE DEF u
<1>6. f[Len(q)] \in Seq(Nat)
  BY <1>3, NumbersSeq
<1>7. g[Len(q)] = f[Len(q)]
  <2> DEFINE T == {i \in 0 .. Len(q) : g[i] = f[i]}
  <2>1. 0 \in T
    BY <1>1, <1>3, <1>5
  <2>2. ASSUME NEW i \in 0 .. Len(q) - 1, i \in T
        PROVE  i + 1 \in T
    <3>1. /\ i + 1 \in 1 .. Len(q) /\ (i + 1) - 1 = i /\ i + 1 \in 0 .. Len(q)
          /\ i + 1 \in 1 .. Len(u)
      BY <1>1
    <3>2. u[i + 1] = q[i + 1] /\ g[i] = f[i]
      BY <1>2, <2>2, <3>1
    <3>3. f[i + 1] = IF Mine(q[i + 1], kind, r, s) THEN Append(f[i], q[i + 1].n) ELSE f[i]
      BY <1>3, <3>1
    <3>4. g[i + 1] = IF Mine(u[i + 1], kind, r, s) THEN Append(g[i], u[i + 1].n) ELSE g[i]
      BY <1>5, <3>1
    <3> QED
      BY <3>1, <3>2, <3>3, <3>4
  <2> HIDE DEF T
  <2>3. Len(q) \in T
    <3>1. \A k \in 0 .. Len(q) - 1 : k \in T => k + 1 \in T
      BY <2>2
    <3> QED
      BY <1>1, <2>1, <3>1, UpTo, Zenon
  <2> QED
    BY <2>3 DEF T
<1>8. g[Len(q) + Len(t)] = f[Len(q)] \o h[Len(t)]
  <2> DEFINE T == {j \in 0 .. Len(t) : /\ g[Len(q) + j] = f[Len(q)] \o h[j]
                                       /\ h[j] \in Seq(Nat)}
  <2>1. 0 \in T
    <3>1. f[Len(q)] \o <<>> = f[Len(q)]
      BY <1>6, ConcatEmptySeq
    <3>2. Len(q) + 0 = Len(q) /\ 0 \in 0 .. Len(t) /\ h[0] \in Seq(Nat)
      BY <1>1, <1>4, EmptySeq
    <3> QED
      BY <1>4, <1>7, <3>1, <3>2
  <2>2. ASSUME NEW j \in 0 .. Len(t) - 1, j \in T
        PROVE  j + 1 \in T
    <3>1. /\ j + 1 \in 1 .. Len(t) /\ (j + 1) - 1 = j /\ j + 1 \in 0 .. Len(t)
          /\ Len(q) + (j + 1) \in 1 .. Len(u) /\ (Len(q) + (j + 1)) - 1 = Len(q) + j
      BY <1>1
    <3>2. /\ u[Len(q) + (j + 1)] = t[j + 1] /\ t[j + 1].n \in Nat
          /\ g[Len(q) + j] = f[Len(q)] \o h[j] /\ h[j] \in Seq(Nat)
      BY <1>1, <1>2, <2>2, <3>1 DEF Event
    <3>3. h[j + 1] = IF Mine(t[j + 1], kind, r, s) THEN Append(h[j], t[j + 1].n) ELSE h[j]
      BY <1>4, <3>1
    <3>4. g[Len(q) + (j + 1)] = IF Mine(t[j + 1], kind, r, s)
                                THEN Append(g[Len(q) + j], t[j + 1].n) ELSE g[Len(q) + j]
      BY <1>5, <3>1, <3>2
    <3>5. Append(f[Len(q)] \o h[j], t[j + 1].n) = f[Len(q)] \o Append(h[j], t[j + 1].n)
      <4> DEFINE a == f[Len(q)]
                 b == h[j]
                 x == t[j + 1].n
      <4>1. a \in Seq(Nat) /\ b \in Seq(Nat) /\ x \in Nat
        BY <1>6, <3>2
      <4> HIDE DEF a, b, x
      <4>2. Append(a \o b, x) = a \o Append(b, x)
        BY <4>1, ConcatAppend
      <4> QED
        BY <4>2 DEF a, b, x
    <3>6. Append(h[j], t[j + 1].n) \in Seq(Nat)
      BY <3>2, AppendProperties
    <3> QED
      BY <3>1, <3>2, <3>3, <3>4, <3>5, <3>6
  <2> HIDE DEF T
  <2>3. Len(t) \in T
    <3>1. \A k \in 0 .. Len(t) - 1 : k \in T => k + 1 \in T
      BY <2>2
    <3> QED
      BY <1>1, <2>1, <3>1, UpTo, Zenon
  <2> QED
    BY <2>3 DEF T
<1>9. Numbers(u, kind, r, s) = Numbers(q, kind, r, s) \o Numbers(t, kind, r, s)
  BY <1>1, <1>3, <1>4, <1>5, <1>8
<1> QED
  BY <1>9 DEF u

LEMMA NumbersOne ==
    ASSUME NEW ev \in Event, NEW kind, NEW r, NEW s
    PROVE  Numbers(<<ev>>, kind, r, s) = IF Mine(ev, kind, r, s) THEN <<ev.n>> ELSE <<>>
<1> DEFINE q == <<ev>>
<1>1. Len(q) = 1 /\ q[1] = ev /\ Len(q) \in Nat /\ 1 \in 1 .. 1
  OBVIOUS
<1> HIDE DEF q
<1>2. PICK f : /\ f[0] = <<>>
               /\ \A i \in 1 .. Len(q) :
                     f[i] = IF Mine(q[i], kind, r, s) THEN Append(f[i - 1], q[i].n)
                            ELSE f[i - 1]
               /\ Numbers(q, kind, r, s) = f[Len(q)]
  BY <1>1, NumbersCounts
<1>3. f[1] = IF Mine(ev, kind, r, s) THEN Append(<<>>, ev.n) ELSE <<>>
  <2>1. f[1] = IF Mine(q[1], kind, r, s) THEN Append(f[1 - 1], q[1].n) ELSE f[1 - 1]
    BY <1>1, <1>2
  <2>2. 1 - 1 = 0
    OBVIOUS
  <2> QED
    BY <1>1, <1>2, <2>1, <2>2
<1>4. Append(<<>>, ev.n) = <<ev.n>>
  OBVIOUS
<1>5. Numbers(q, kind, r, s) = IF Mine(ev, kind, r, s) THEN <<ev.n>> ELSE <<>>
  BY <1>1, <1>2, <1>3, <1>4
<1> QED
  BY <1>5 DEF q

LEMMA NumbersAppend ==
    ASSUME NEW q \in Seq(Event), NEW ev \in Event, NEW kind, NEW r, NEW s
    PROVE  Numbers(Append(q, ev), kind, r, s) =
               IF Mine(ev, kind, r, s) THEN Snoc(ev.n, Numbers(q, kind, r, s))
               ELSE Numbers(q, kind, r, s)
<1> DEFINE t == <<ev>>
           m == Numbers(q, kind, r, s)
<1>1. Append(q, ev) = q \o t /\ t \in Seq(Event)
  BY AppendIsConcat
<1>2. Numbers(t, kind, r, s) = IF Mine(ev, kind, r, s) THEN <<ev.n>> ELSE <<>>
  BY NumbersOne
<1> HIDE DEF t
<1>3. Numbers(q \o t, kind, r, s) = m \o Numbers(t, kind, r, s)
  BY <1>1, NumbersConcat
<1>4. m \in Seq(Nat) /\ ev.n \in Nat
  BY NumbersSeq DEF Event
<1> HIDE DEF m
<1>5. m \o <<>> = m /\ Snoc(ev.n, m) = m \o <<ev.n>>
  BY <1>4, ConcatEmptySeq, ConsSnoc
<1>6. Numbers(Append(q, ev), kind, r, s) = IF Mine(ev, kind, r, s) THEN Snoc(ev.n, m) ELSE m
  BY <1>1, <1>2, <1>3, <1>5
<1> QED
  BY <1>6 DEF m

LEMMA NumbersCons ==
    ASSUME NEW q \in Seq(Event), NEW ev \in Event, NEW kind, NEW r, NEW s
    PROVE  Numbers(<<ev>> \o q, kind, r, s) =
               IF Mine(ev, kind, r, s) THEN Cons(ev.n, Numbers(q, kind, r, s))
               ELSE Numbers(q, kind, r, s)
<1> DEFINE t == <<ev>>
           m == Numbers(q, kind, r, s)
<1>1. t \in Seq(Event)
  OBVIOUS
<1>2. Numbers(t, kind, r, s) = IF Mine(ev, kind, r, s) THEN <<ev.n>> ELSE <<>>
  BY NumbersOne
<1> HIDE DEF t
<1>3. Numbers(t \o q, kind, r, s) = Numbers(t, kind, r, s) \o m
  BY <1>1, NumbersConcat
<1>4. m \in Seq(Nat) /\ ev.n \in Nat
  BY NumbersSeq DEF Event
<1> HIDE DEF m
<1>5. <<>> \o m = m /\ Cons(ev.n, m) = <<ev.n>> \o m
  BY <1>4, ConcatEmptySeq, ConsSnoc
<1>6. Numbers(t \o q, kind, r, s) = IF Mine(ev, kind, r, s) THEN Cons(ev.n, m) ELSE m
  BY <1>2, <1>3, <1>5
<1> QED
  BY <1>6 DEF m, t

LEMMA NumbersTail ==
    ASSUME NEW q \in Seq(Event), q # <<>>, NEW kind, NEW r, NEW s
    PROVE  Numbers(q, kind, r, s) =
               IF Mine(Head(q), kind, r, s) THEN Cons(Head(q).n, Numbers(Tail(q), kind, r, s))
               ELSE Numbers(Tail(q), kind, r, s)
<1> DEFINE h == Head(q)
           t == Tail(q)
<1>1. h \in Event /\ t \in Seq(Event) /\ q = <<h>> \o t
  BY HeadTailProperties
<1> HIDE DEF h, t
<1>2. Numbers(<<h>> \o t, kind, r, s) =
          IF Mine(h, kind, r, s) THEN Cons(h.n, Numbers(t, kind, r, s))
          ELSE Numbers(t, kind, r, s)
  BY <1>1, NumbersCons
<1> QED
  BY <1>1, <1>2 DEF h, t

-----------------------------------------------------------------------------
\* The ways.

\* The root router sends an event straight to the router of its board, any other
\* router to the root router.
LEMMA Channel ==
    ASSUME Routed, NEW r \in Router, NEW d \in Router, r # d
    PROVE  /\ Links(r) # <<>>
           /\ getChannel(r, d) = IF r = RootId THEN d ELSE RootId
<1>1. NumNodes \in Nat \ {0} /\ NodesPerBoard \in Nat \ {0}
  BY DEF Routed, TreeAssumption
<1>2. NumNodes # 1
  <2>1. SUFFICES ASSUME NumNodes = 1
                 PROVE  FALSE
    OBVIOUS
  <2>2. RootNode = 0
    BY <1>1, <2>1 DEF RootNode
  <2>3. NumBoards = 1
    <3>1. NumNodes + NodesPerBoard - 1 = NodesPerBoard
      BY <1>1, <2>1
    <3>2. NodesPerBoard \div NodesPerBoard = 1
      BY <1>1
    <3> QED
      BY <3>1, <3>2 DEF NumBoards
  <2>4. \A b \in Leaf : ~ LeafRuns(b)
    BY <1>1, <2>2, <2>3 DEF Leaf, LeafRuns
  <2> QED
    BY <2>4 DEF Router
<1>3. CASE r # RootId
  <2>1. Links(r) = <<[to |-> RootId, nidStart |-> 0, nidStop |-> 0]>>
    BY <1>3 DEF Links
  <2>2. getChannel(r, d) = RootId
    BY <2>1 DEF getChannel
  <2> QED
    BY <1>3, <2>1, <2>2
<1>4. CASE r = RootId
  <2>1. d \in Leaf /\ LeafRuns(d)
    BY <1>4 DEF Router
  <2>2. NumBoards \in Int
    BY <1>1 DEF NumBoards
  <2>3. PICK m \in Int : m = NumBoards
    BY <2>2
  <2>4. d \in Nat /\ d < m /\ m \in Nat \ {0}
    BY <2>1, <2>3 DEF Leaf
  <2> DEFINE ls == [i \in 1 .. m |->
                     [to |-> AtBoard(i - 1), nidStart |-> i - 1, nidStop |-> i - 1]]
             fits == {i \in 2 .. m : InRange(ls[i], d)}
  <2>5. Links(r) = ls
    BY <1>2, <1>4, <2>3 DEF Links
  <2>6. Len(ls) = m
    BY <2>4
  <2>7. \A i \in 1 .. m : ls[i].to = AtBoard(i - 1) /\ (InRange(ls[i], d) <=> i = d + 1)
    BY <2>4 DEF InRange
  <2>8. AtBoard(d) = d
    BY <2>1 DEF AtBoard
  <2> HIDE DEF ls
  <2>9. ls # <<>>
    BY <2>4, <2>6
  <2>10. fits = IF d = 0 THEN {} ELSE {d + 1}
    BY <2>4, <2>7
  <2>11. getChannel(r, d) = IF fits = {} THEN ls[1].to
                            ELSE ls[CHOOSE i \in fits : \A j \in fits : i <= j].to
    BY <2>5, <2>6 DEF getChannel
  <2> HIDE DEF fits
  <2>12. CASE d = 0
    BY <1>4, <2>4, <2>5, <2>7, <2>8, <2>9, <2>10, <2>11, <2>12
  <2>13. CASE d # 0
    <3>1. d + 1 \in 1 .. m /\ (d + 1) - 1 = d /\ fits = {d + 1} /\ d + 1 <= d + 1
      BY <2>4, <2>10, <2>13
    <3>2. (CHOOSE i \in fits : \A j \in fits : i <= j) = d + 1
      BY <3>1
    <3>3. getChannel(r, d) = ls[d + 1].to
      BY <2>11, <3>1, <3>2
    <3> QED
      BY <1>4, <2>5, <2>7, <2>8, <2>9, <3>1, <3>3
  <2> QED
    BY <2>12, <2>13
<1> QED
  BY <1>3, <1>4

\* The router of a server is the one that listens at its board.
LEMMA OwnRouter ==
    ASSUME Routed, NEW s \in Server
    PROVE  /\ s.rtr \in Router /\ AtBoard(s.rtr) = s.rtr
           /\ findRoute(s) = s /\ s \notin Unrouted
<1>1. s \in RouteTable /\ s.rtr \in Router /\ s \notin Unrouted
  BY DEF Routed, ServerAssumption
<1>2. AtBoard(s.rtr) = s.rtr
  BY <1>1 DEF AtBoard, Router
<1> QED
  BY <1>1, <1>2 DEF findRoute

LEMMA AsksAre ==
    ASSUME Routed, NEW p \in Asks
    PROVE  p[1] \in Router /\ p[2] \in Server /\ p = <<p[1], p[2]>>
  BY DEF Routed, ServerAssumption

LEMMA RootIsRouter == RootId \in Router
  BY DEF Router

\* The next router of an event that is on the way: it is there, or the next one is
\* its last.
LEMMA WayEnds ==
    ASSUME Routed, NEW x \in Router, NEW y \in Router, NEW ev \in Event, OnWay(x, y, ev)
    PROVE  /\ x # y /\ From(ev) \in Router /\ To(ev) \in Router
           /\ Target(ev) = To(ev)
           /\ y # To(ev) => /\ x = From(ev) /\ y = getChannel(From(ev), To(ev))
                            /\ getChannel(y, To(ev)) = To(ev) /\ Links(y) # <<>>
                            /\ y # From(ev)
<1>1. ev.dest \in Server /\ ev.src \in Router /\ ev.kind \in {"req", "resp"}
  BY DEF Event
<1>2. From(ev) \in Router /\ To(ev) \in Router /\ Target(ev) = To(ev)
  BY <1>1, OwnRouter DEF From, To, Target
<1>3. From(ev) # To(ev)
  BY DEF OnWay
<1>4. getChannel(From(ev), To(ev)) = IF From(ev) = RootId THEN To(ev) ELSE RootId
  BY <1>2, <1>3, Channel
<1>5. x # y
  BY <1>3, <1>4 DEF OnWay
<1>6. ASSUME y # To(ev)
      PROVE  /\ x = From(ev) /\ y = getChannel(From(ev), To(ev))
             /\ getChannel(y, To(ev)) = To(ev) /\ Links(y) # <<>>
             /\ y # From(ev)
  <2>1. x = From(ev) /\ y = getChannel(From(ev), To(ev))
    BY <1>6 DEF OnWay
  <2>2. y = RootId /\ y # From(ev)
    BY <1>4, <1>5, <1>6, <2>1
  <2>3. getChannel(y, To(ev)) = To(ev) /\ Links(y) # <<>>
    BY <1>2, <1>6, <2>2, Channel
  <2> QED
    BY <2>1, <2>2, <2>3
<1> QED
  BY <1>2, <1>5, <1>6

\* Links M are links L, but that an event was sent from router x to router y, or
\* that router y took it.
Sent(L, M, x, y, ev) ==
    /\ M \in LinkState
    /\ \A v, w \in Router :
           M[v][w] = IF v = x /\ w = y THEN Append(L[x][y], ev) ELSE L[v][w]
Taken(L, M, x, y, ev) ==
    /\ M \in LinkState
    /\ L[x][y] # <<>> /\ ev = Head(L[x][y])
    /\ \A v, w \in Router :
           M[v][w] = IF v = x /\ w = y THEN Tail(L[x][y]) ELSE L[v][w]

LEMMA SentExcept ==
    ASSUME NEW L \in LinkState, NEW x \in Router, NEW y \in Router, NEW ev \in Event
    PROVE  Sent(L, [L EXCEPT ![x][y] = Append(@, ev)], x, y, ev)
<1>1. Append(L[x][y], ev) \in Seq(Event)
  BY AppendProperties DEF LinkState
<1> QED
  BY <1>1 DEF Sent, LinkState

LEMMA TakenExcept ==
    ASSUME NEW L \in LinkState, NEW x \in Router, NEW y \in Router, L[x][y] # <<>>
    PROVE  /\ Taken(L, [L EXCEPT ![x][y] = Tail(@)], x, y, Head(L[x][y]))
           /\ Head(L[x][y]) \in Event
<1>1. Tail(L[x][y]) \in Seq(Event) /\ Head(L[x][y]) \in Event
  BY HeadTailProperties DEF LinkState
<1> QED
  BY <1>1 DEF Taken, LinkState

LEMMA OnLinksSeq ==
    ASSUME Routed, NEW L \in LinkState, NEW r \in Router, NEW d \in Router,
           NEW kind, NEW src, NEW s
    PROVE  OnLinks(L, r, d, kind, src, s) \in Seq(Nat)
<1> DEFINE a == getChannel(r, d)
<1>1. CASE r = d
  BY <1>1 DEF OnLinks
<1>2. CASE r # d
  <2>1. a \in Router
    BY <1>2, Channel, RootIsRouter
  <2>2. L[r][d] \in Seq(Event) /\ L[a][d] \in Seq(Event) /\ L[r][a] \in Seq(Event)
    BY <2>1 DEF LinkState
  <2>3. /\ Numbers(L[r][d], kind, src, s) \in Seq(Nat)
        /\ Numbers(L[a][d], kind, src, s) \in Seq(Nat)
        /\ Numbers(L[r][a], kind, src, s) \in Seq(Nat)
    BY <2>2, NumbersSeq
  <2>4. Numbers(L[a][d], kind, src, s) \o Numbers(L[r][a], kind, src, s) \in Seq(Nat)
    BY <2>3, ConcatProperties
  <2> QED
    BY <1>2, <2>3, <2>4 DEF OnLinks
<1> QED
  BY <1>1, <1>2

\* An event that is sent to the first router of its way is the last on it.
LEMMA OnLinksAppend ==
    ASSUME Routed, NEW L \in LinkState, NEW r \in Router, NEW d \in Router,
           NEW kind, NEW src, NEW s,
           NEW x \in Router, NEW y \in Router, NEW ev \in Event,
           NEW M, Sent(L, M, x, y, ev),
           Mine(ev, kind, src, s) => r # d /\ x = r /\ y = getChannel(r, d)
    PROVE  /\ M \in LinkState
           /\ OnLinks(M, r, d, kind, src, s) =
                  IF Mine(ev, kind, src, s) THEN Snoc(ev.n, OnLinks(L, r, d, kind, src, s))
                  ELSE OnLinks(L, r, d, kind, src, s)
<1> DEFINE a == getChannel(r, d)
           N(q) == Numbers(q, kind, src, s)
<1>1. L[x][y] \in Seq(Event) /\ Append(L[x][y], ev) \in Seq(Event)
  BY AppendProperties DEF LinkState
<1>2. M \in LinkState
  BY DEF Sent, Taken
<1>3. \A v, w \in Router : M[v][w] = IF v = x /\ w = y THEN Append(L[x][y], ev) ELSE L[v][w]
  BY DEF Sent, Taken
<1>4. \A v, w \in Router :
          N(M[v][w]) = IF v = x /\ w = y /\ Mine(ev, kind, src, s) THEN Snoc(ev.n, N(L[v][w]))
                       ELSE N(L[v][w])
  <2> SUFFICES ASSUME NEW v \in Router, NEW w \in Router
               PROVE  N(M[v][w]) = IF v = x /\ w = y /\ Mine(ev, kind, src, s)
                                   THEN Snoc(ev.n, N(L[v][w]))
                                   ELSE N(L[v][w])
    OBVIOUS
  <2>1. N(Append(L[x][y], ev)) = IF Mine(ev, kind, src, s) THEN Snoc(ev.n, N(L[x][y]))
                                 ELSE N(L[x][y])
    <3> DEFINE q == L[x][y]
    <3>1. q \in Seq(Event)
      BY <1>1
    <3> HIDE DEF q
    <3>2. N(Append(q, ev)) = IF Mine(ev, kind, src, s) THEN Snoc(ev.n, N(q)) ELSE N(q)
      BY <3>1, NumbersAppend
    <3> QED
      BY <3>2 DEF q
  <2> HIDE DEF N
  <2> QED
    BY <1>3, <2>1
<1>5. OnLinks(M, r, d, kind, src, s) =
          IF Mine(ev, kind, src, s) THEN Snoc(ev.n, OnLinks(L, r, d, kind, src, s))
          ELSE OnLinks(L, r, d, kind, src, s)
  <2>1. CASE r = d
    BY <2>1 DEF OnLinks
  <2>2. CASE r # d
    <3>1. a \in Router /\ a # r
      BY <2>2, Channel, RootIsRouter
    <3>2. CASE a = d
      <4>1. OnLinks(M, r, d, kind, src, s) = N(M[r][d]) /\ OnLinks(L, r, d, kind, src, s) = N(L[r][d])
        BY <2>2, <3>2 DEF OnLinks
      <4> QED
        BY <1>4, <3>2, <4>1
    <3>3. CASE a # d
      <4>1. /\ OnLinks(M, r, d, kind, src, s) = N(M[a][d]) \o N(M[r][a])
            /\ OnLinks(L, r, d, kind, src, s) = N(L[a][d]) \o N(L[r][a])
        BY <2>2, <3>3 DEF OnLinks
      <4>2. CASE ~ Mine(ev, kind, src, s)
        <5>1. N(M[a][d]) = N(L[a][d]) /\ N(M[r][a]) = N(L[r][a])
          <6> HIDE DEF N
          <6> QED
            BY <1>4, <3>1, <4>2
        <5> QED
          BY <4>1, <4>2, <5>1
      <4>3. CASE Mine(ev, kind, src, s)
        <5>1. N(M[a][d]) = N(L[a][d]) /\ N(M[r][a]) = Snoc(ev.n, N(L[r][a]))
          <6>1. x = r /\ y = a /\ a # r
            BY <3>1, <4>3
          <6> HIDE DEF N, a
          <6> QED
            BY <1>4, <3>1, <4>3, <6>1
        <5>2. L[a][d] \in Seq(Event) /\ L[r][a] \in Seq(Event)
          BY <3>1 DEF LinkState
        <5>3. N(L[a][d]) \in Seq(Nat) /\ N(L[r][a]) \in Seq(Nat) /\ ev.n \in Nat
          BY <5>2, NumbersSeq DEF Event
        <5> HIDE DEF N
        <5>4. N(L[a][d]) \o Snoc(ev.n, N(L[r][a])) = Snoc(ev.n, N(L[a][d]) \o N(L[r][a]))
          BY <5>3, Between
        <5> QED
          BY <4>1, <4>3, <5>1, <5>4
      <4> QED
        BY <4>2, <4>3
    <3> QED
      BY <3>2, <3>3
  <2> QED
    BY <2>1, <2>2
<1> QED
  BY <1>2, <1>5

\* An event that is taken by the last router of its way was the first on it.
LEMMA OnLinksTail ==
    ASSUME Routed, NEW L \in LinkState, NEW r \in Router, NEW d \in Router,
           NEW kind, NEW src, NEW s,
           NEW x \in Router, NEW y \in Router,
           NEW M, NEW ev, Taken(L, M, x, y, ev),
           Mine(ev, kind, src, s) =>
               /\ r # d /\ y = d
               /\ x = IF getChannel(r, d) = d THEN r ELSE getChannel(r, d)
    PROVE  /\ M \in LinkState /\ ev \in Event
           /\ OnLinks(L, r, d, kind, src, s) =
                  IF Mine(ev, kind, src, s) THEN Cons(ev.n, OnLinks(M, r, d, kind, src, s))
                  ELSE OnLinks(M, r, d, kind, src, s)
<1> DEFINE a == getChannel(r, d)
           N(q) == Numbers(q, kind, src, s)
<1>1. L[x][y] \in Seq(Event) /\ Tail(L[x][y]) \in Seq(Event) /\ ev \in Event
  BY HeadTailProperties DEF LinkState, Taken
<1>2. M \in LinkState
  BY DEF Sent, Taken
<1>3. \A v, w \in Router : M[v][w] = IF v = x /\ w = y THEN Tail(L[x][y]) ELSE L[v][w]
  BY DEF Sent, Taken
<1>4. \A v, w \in Router :
          N(L[v][w]) = IF v = x /\ w = y /\ Mine(ev, kind, src, s) THEN Cons(ev.n, N(M[v][w]))
                       ELSE N(M[v][w])
  <2> SUFFICES ASSUME NEW v \in Router, NEW w \in Router
               PROVE  N(L[v][w]) = IF v = x /\ w = y /\ Mine(ev, kind, src, s)
                                   THEN Cons(ev.n, N(M[v][w]))
                                   ELSE N(M[v][w])
    OBVIOUS
  <2>1. N(L[x][y]) = IF Mine(ev, kind, src, s) THEN Cons(ev.n, N(Tail(L[x][y])))
                     ELSE N(Tail(L[x][y]))
    <3> DEFINE q == L[x][y]
    <3>1. q \in Seq(Event) /\ q # <<>> /\ ev = Head(q)
      BY <1>1 DEF Taken
    <3> HIDE DEF q
    <3>2. N(q) = IF Mine(Head(q), kind, src, s) THEN Cons(Head(q).n, N(Tail(q))) ELSE N(Tail(q))
      BY <3>1, NumbersTail
    <3> QED
      BY <3>1, <3>2 DEF q
  <2> HIDE DEF N
  <2> QED
    BY <1>3, <2>1
<1>5. Mine(ev, kind, src, s) => r # d /\ y = d /\ x = IF a = d THEN r ELSE a
  OBVIOUS
<1>6. OnLinks(L, r, d, kind, src, s) =
          IF Mine(ev, kind, src, s) THEN Cons(ev.n, OnLinks(M, r, d, kind, src, s))
          ELSE OnLinks(M, r, d, kind, src, s)
  <2>1. CASE r = d
    BY <1>5, <2>1 DEF OnLinks
  <2>2. CASE r # d
    <3>1. a \in Router /\ a # r
      BY <2>2, Channel, RootIsRouter
    <3>2. CASE a = d
      <4>1. OnLinks(M, r, d, kind, src, s) = N(M[r][d]) /\ OnLinks(L, r, d, kind, src, s) = N(L[r][d])
        BY <2>2, <3>2 DEF OnLinks
      <4> QED
        BY <1>4, <1>5, <3>2, <4>1
    <3>3. CASE a # d
      <4>1. /\ OnLinks(M, r, d, kind, src, s) = N(M[a][d]) \o N(M[r][a])
            /\ OnLinks(L, r, d, kind, src, s) = N(L[a][d]) \o N(L[r][a])
        BY <2>2, <3>3 DEF OnLinks
      <4>2. CASE ~ Mine(ev, kind, src, s)
        BY <1>4, <3>1, <4>1, <4>2
      <4>3. CASE Mine(ev, kind, src, s)
        <5>1. N(L[a][d]) = Cons(ev.n, N(M[a][d])) /\ N(L[r][a]) = N(M[r][a])
          BY <1>4, <1>5, <3>1, <3>3, <4>3
        <5>2. M[a][d] \in Seq(Event) /\ M[r][a] \in Seq(Event)
          BY <1>2, <3>1 DEF LinkState
        <5>3. N(M[a][d]) \in Seq(Nat) /\ N(M[r][a]) \in Seq(Nat) /\ ev.n \in Nat
          BY <1>1, <5>2, NumbersSeq DEF Event
        <5> HIDE DEF N
        <5>4. Cons(ev.n, N(M[a][d])) \o N(M[r][a]) = Cons(ev.n, N(M[a][d]) \o N(M[r][a]))
          BY <5>3, Between
        <5> QED
          BY <4>1, <4>3, <5>1, <5>4
      <4> QED
        BY <4>2, <4>3
    <3> QED
      BY <3>2, <3>3
  <2> QED
    BY <2>1, <2>2
<1> QED
  BY <1>1, <1>2, <1>6

\* An event that is sent on by the router in between keeps its place.
LEMMA OnLinksMove ==
    ASSUME Routed, NEW L \in LinkState, NEW r \in Router, NEW d \in Router,
           NEW kind, NEW src, NEW s, NEW h \in 0 .. 3,
           NEW x \in Router, NEW y \in Router, NEW z \in Router,
           NEW M, NEW ev, Taken(L, M, x, y, ev),
           NEW nx, nx = [ev EXCEPT !.hops = h],
           NEW O, Sent(M, O, y, z, nx),
           x # y,
           Mine(ev, kind, src, s) =>
               r # d /\ x = r /\ y = getChannel(r, d) /\ z = d /\ y # d
    PROVE  /\ O \in LinkState
           /\ OnLinks(O, r, d, kind, src, s) = OnLinks(L, r, d, kind, src, s)
<1> DEFINE N(q) == Numbers(q, kind, src, s)
<1>1. L[x][y] \in Seq(Event) /\ Tail(L[x][y]) \in Seq(Event) /\ ev \in Event
  BY HeadTailProperties DEF LinkState, Taken
<1>2. /\ nx \in Event /\ nx.n = ev.n /\ ev.n \in Nat
      /\ Mine(nx, kind, src, s) <=> Mine(ev, kind, src, s)
  BY <1>1 DEF Event, Mine
<1>3. M \in LinkState
  BY DEF Sent, Taken
<1>4. CASE ~ Mine(ev, kind, src, s)
  <2>1. OnLinks(L, r, d, kind, src, s) = OnLinks(M, r, d, kind, src, s)
    <3>1. Mine(ev, kind, src, s) =>
              /\ r # d /\ y = d
              /\ x = IF getChannel(r, d) = d THEN r ELSE getChannel(r, d)
      BY <1>4
    <3> HIDE DEF N
    <3>2. OnLinks(L, r, d, kind, src, s) =
                  IF Mine(ev, kind, src, s) THEN Cons(ev.n, OnLinks(M, r, d, kind, src, s))
                  ELSE OnLinks(M, r, d, kind, src, s)
      BY <3>1, OnLinksTail
    <3> QED
      BY <1>4, <3>2
  <2>2. ~ Mine(nx, kind, src, s)
    BY <1>2, <1>4
  <2>3. O \in LinkState /\ OnLinks(O, r, d, kind, src, s) = OnLinks(M, r, d, kind, src, s)
    BY <1>2, <1>3, <2>2, OnLinksAppend
  <2> QED
    BY <2>1, <2>3
<1>5. CASE Mine(ev, kind, src, s)
  <2>1. r # d /\ x = r /\ y = getChannel(r, d) /\ z = d /\ y # d
    BY <1>5
  <2>2. L[y][d] \in Seq(Event) /\ Append(L[y][d], nx) \in Seq(Event)
    BY <1>2, AppendProperties DEF LinkState
  <2>3. M[y][d] = L[y][d] /\ M[r][y] = Tail(L[r][y])
    BY <2>1 DEF Sent, Taken
  <2>4. O[y][d] = Append(L[y][d], nx) /\ O[r][y] = Tail(L[r][y]) /\ O \in LinkState
    BY <2>1, <2>3 DEF Sent, Taken
  <2>5. N(Append(L[y][d], nx)) = Snoc(ev.n, N(L[y][d]))
    <3> DEFINE q == L[y][d]
    <3>1. q \in Seq(Event) /\ Mine(nx, kind, src, s)
      BY <1>2, <1>5, <2>2
    <3> HIDE DEF q
    <3>2. N(Append(q, nx)) = Snoc(nx.n, N(q))
      BY <1>2, <3>1, NumbersAppend
    <3> QED
      BY <1>2, <3>2 DEF q
  <2>6. N(L[r][y]) = Cons(ev.n, N(Tail(L[r][y])))
    <3> DEFINE q == L[r][y]
    <3>1. q \in Seq(Event) /\ q # <<>> /\ ev = Head(q) /\ Mine(ev, kind, src, s)
      BY <1>1, <1>5, <2>1 DEF Taken
    <3> HIDE DEF q
    <3>2. N(q) = Cons(Head(q).n, N(Tail(q)))
      BY <3>1, NumbersTail
    <3> QED
      BY <3>1, <3>2 DEF q
  <2>7. N(L[y][d]) \in Seq(Nat) /\ N(Tail(L[r][y])) \in Seq(Nat)
    <3>1. N(L[y][d]) \in Seq(Nat)
      BY <2>2, NumbersSeq
    <3>2. N(Tail(L[r][y])) \in Seq(Nat)
      BY <1>1, <2>1, NumbersSeq
    <3> QED
      BY <3>1, <3>2
  <2>8. /\ OnLinks(O, r, d, kind, src, s) = N(O[y][d]) \o N(O[r][y])
        /\ OnLinks(L, r, d, kind, src, s) = N(L[y][d]) \o N(L[r][y])
    BY <2>1 DEF OnLinks
  <2> HIDE DEF N
  <2>9. Snoc(ev.n, N(L[y][d])) \o N(Tail(L[r][y])) = N(L[y][d]) \o Cons(ev.n, N(Tail(L[r][y])))
    <3> DEFINE b == N(Tail(L[r][y]))
    <3>1. b \in Seq(Nat)
      BY <2>7
    <3> HIDE DEF b
    <3>2. Snoc(ev.n, N(L[y][d])) \o b = N(L[y][d]) \o Cons(ev.n, b)
      BY <1>2, <2>7, <3>1, Between
    <3> QED
      BY <3>2 DEF b
  <2>10. O \in LinkState /\ OnLinks(O, r, d, kind, src, s) = OnLinks(L, r, d, kind, src, s)
    BY <2>4, <2>5, <2>6, <2>8, <2>9
  <2> QED
    BY <2>10
<1> QED
  BY <1>4, <1>5

-----------------------------------------------------------------------------
\* The sequences of numbers.

\* What is ahead of a server: on its connection, in the queue of its router, on
\* the links.
LEMMA AheadMoves ==
    ASSUME NEW t \in Seq(Nat), NEW w \in Seq(Nat), NEW l \in Seq(Nat), NEW x \in Nat
    PROVE  /\ Ahead(t, w, l) \in Seq(Nat)
           /\ Ahead(t, w, Snoc(x, l)) = Snoc(x, Ahead(t, w, l))
           /\ Ahead(Cons(x, t), w, l) = Cons(x, Ahead(t, w, l))
<1>1. t \o w \in Seq(Nat)
  BY ConcatProperties
<1>2. (t \o w) \o l \in Seq(Nat)
  BY <1>1, ConcatProperties
<1>3. Cons(x, t) \o w = Cons(x, t \o w)
  BY Between
<1> DEFINE u == t \o w
<1>4. u \in Seq(Nat)
  BY <1>1
<1> HIDE DEF u
<1>5. /\ u \o Snoc(x, l) = Snoc(x, u \o l)
      /\ Cons(x, u) \o l = Cons(x, u \o l)
  BY <1>4, Between
<1> QED
  BY <1>2, <1>3, <1>5 DEF Ahead, u

LEMMA AheadWaits ==
    ASSUME NEW t \in Seq(Nat), NEW w \in Seq(Nat), NEW l \in Seq(Nat), NEW x \in Nat
    PROVE  Ahead(t, Snoc(x, w), l) = Ahead(t, w, Cons(x, l))
<1> DEFINE u == t \o w
<1>1. t \o Snoc(x, w) = Snoc(x, u)
  BY Between
<1>2. u \in Seq(Nat)
  BY ConcatProperties
<1> HIDE DEF u
<1>3. Snoc(x, u) \o l = u \o Cons(x, l)
  BY <1>2, Between
<1> QED
  BY <1>1, <1>3 DEF Ahead, u

\* Without what waits in the queue, and without links.
LEMMA AheadEmpty ==
    ASSUME NEW t \in Seq(Nat), NEW w \in Seq(Nat), NEW l \in Seq(Nat), NEW x \in Nat
    PROVE  /\ Ahead(t \o w, <<>>, l) = Ahead(t, w, l)
           /\ Ahead(Snoc(x, t), <<>>, l) = Ahead(t, <<>>, Cons(x, l))
           /\ Ahead(t, Snoc(x, w), <<>>) = Snoc(x, Ahead(t, w, <<>>))
           /\ Ahead(Snoc(x, t), <<>>, <<>>) = Snoc(x, Ahead(t, <<>>, <<>>))
<1>1. t \o w \in Seq(Nat) /\ Snoc(x, t) \in Seq(Nat)
  BY ConcatProperties, ConsSnoc
<1>2. t \o <<>> = t
  BY ConcatEmptySeq
<1>3. Snoc(x, t) \o l = t \o Cons(x, l) /\ t \o Snoc(x, w) = Snoc(x, t \o w)
  BY Between
<1> DEFINE u == t \o w
           v == Snoc(x, t)
<1>4. u \in Seq(Nat) /\ v \in Seq(Nat)
  BY <1>1
<1> HIDE DEF u, v
<1>5. u \o <<>> = u /\ v \o <<>> = v
  BY <1>4, ConcatEmptySeq
<1>6. Snoc(x, u) \in Seq(Nat)
  BY <1>4, ConsSnoc
<1> DEFINE z == Snoc(x, u)
<1>7. z \in Seq(Nat)
  BY <1>6
<1> HIDE DEF z
<1>8. z \o <<>> = z
  BY <1>7, ConcatEmptySeq
<1> QED
  BY <1>2, <1>3, <1>5, <1>8 DEF Ahead, u, v, z

\* The whole row: answers, links back, the connection of the server, and the rest.
LEMMA RowMoves ==
    ASSUME NEW a \in Seq(Nat), NEW b \in Seq(Nat), NEW f \in Seq(Nat), NEW i \in Seq(Nat),
           NEW x \in Nat
    PROVE  /\ Row(a, b, f, Snoc(x, i)) = Snoc(x, Row(a, b, f, i))
           /\ Row(a, b, Snoc(x, f), i) = Row(a, b, f, Cons(x, i))
           /\ Row(a, Snoc(x, b), f, i) = Row(a, b, Cons(x, f), i)
           /\ Row(Snoc(x, a), b, f, i) = Row(a, Cons(x, b), f, i)
           /\ Row(Snoc(x, a), <<>>, f, i) = Row(a, <<>>, Cons(x, f), i)
<1> DEFINE u == f \o i
<1>1. u \in Seq(Nat)
  BY ConcatProperties
<1>2. /\ f \o Snoc(x, i) = Snoc(x, u) /\ Snoc(x, f) \o i = f \o Cons(x, i)
      /\ Cons(x, f) \o i = Cons(x, u)
  BY Between
<1>3. u = f \o i
  OBVIOUS
<1> HIDE DEF u
<1> DEFINE v == b \o u
<1>4. v \in Seq(Nat)
  BY <1>1, ConcatProperties
<1>5. b \o Snoc(x, u) = Snoc(x, v)
  BY <1>1, Between
<1>6. Snoc(x, b) \o u = b \o Cons(x, u)
  BY <1>1, Between
<1>7. Cons(x, b) \o u = Cons(x, v)
  BY <1>1, Between
<1>8. v = b \o u
  OBVIOUS
<1> HIDE DEF v
<1>9. a \o Snoc(x, v) = Snoc(x, a \o v)
  BY <1>4, Between
<1>10. Snoc(x, a) \o v = a \o Cons(x, v)
  BY <1>4, Between
<1>11. Snoc(x, a) \o u = a \o Cons(x, u)
  BY <1>1, Between
<1>12. Cons(x, u) \in Seq(Nat)
  BY <1>1, ConsSnoc
<1> DEFINE z == Cons(x, u)
<1>13. z \in Seq(Nat)
  BY <1>12
<1> HIDE DEF z
<1>14. <<>> \o u = u /\ <<>> \o z = z
  BY <1>1, <1>13, ConcatEmptySeq
<1>15. <<>> \o Cons(x, u) = Cons(x, u)
  BY <1>14 DEF z
<1>16. Row(a, b, f, Snoc(x, i)) = Snoc(x, Row(a, b, f, i))
  BY <1>2, <1>3, <1>5, <1>8, <1>9 DEF Row
<1>17. Row(a, b, Snoc(x, f), i) = Row(a, b, f, Cons(x, i))
  BY <1>2 DEF Row
<1>18. Row(a, Snoc(x, b), f, i) = Row(a, b, Cons(x, f), i)
  BY <1>2, <1>3, <1>6 DEF Row
<1>19. Row(Snoc(x, a), b, f, i) = Row(a, Cons(x, b), f, i)
  BY <1>3, <1>7, <1>8, <1>10 DEF Row
<1>20. Row(Snoc(x, a), <<>>, f, i) = Row(a, <<>>, Cons(x, f), i)
  BY <1>2, <1>3, <1>11, <1>14, <1>15 DEF Row
<1> QED
  BY <1>16, <1>17, <1>18, <1>19, <1>20

LEMMA RowSent ==
    ASSUME NEW a \in Seq(Nat), NEW b \in Seq(Nat), NEW f \in Seq(Nat), NEW i \in Seq(Nat),
           NEW x \in Nat
    PROVE  Row(a, b, f, Snoc(x, i)) = Snoc(x, Row(a, b, f, i))
  BY RowMoves

LEMMA RowTaken ==
    ASSUME NEW a \in Seq(Nat), NEW b \in Seq(Nat), NEW f \in Seq(Nat), NEW i \in Seq(Nat),
           NEW x \in Nat
    PROVE  Row(a, b, Snoc(x, f), i) = Row(a, b, f, Cons(x, i))
  BY RowMoves

LEMMA RowBack ==
    ASSUME NEW a \in Seq(Nat), NEW b \in Seq(Nat), NEW f \in Seq(Nat), NEW i \in Seq(Nat),
           NEW x \in Nat
    PROVE  Row(a, Snoc(x, b), f, i) = Row(a, b, Cons(x, f), i)
  BY RowMoves

LEMMA RowAnswered ==
    ASSUME NEW a \in Seq(Nat), NEW b \in Seq(Nat), NEW f \in Seq(Nat), NEW i \in Seq(Nat),
           NEW x \in Nat
    PROVE  Row(Snoc(x, a), b, f, i) = Row(a, Cons(x, b), f, i)
  BY RowMoves

LEMMA RowLocal ==
    ASSUME NEW a \in Seq(Nat), NEW b \in Seq(Nat), NEW f \in Seq(Nat), NEW i \in Seq(Nat),
           NEW x \in Nat
    PROVE  Row(Snoc(x, a), <<>>, f, i) = Row(a, <<>>, Cons(x, f), i)
  BY RowMoves

-----------------------------------------------------------------------------
\* The links of a pair.

Is(ev, kind, p) == Mine(ev, kind, p[1], p[2])

LEMMA WaysAreSeq ==
    ASSUME Routed, NEW L \in LinkState, NEW p \in Asks
    PROVE  Fwd(L, p) \in Seq(Nat) /\ Back(L, p) \in Seq(Nat)
<1>1. p[1] \in Router /\ p[2].rtr \in Router
  BY AsksAre, OwnRouter
<1> QED
  BY <1>1, OnLinksSeq DEF Fwd, Back

\* An event is sent to the first router of its way.
LEMMA WaysSent ==
    ASSUME Routed, NEW L \in LinkState, NEW p \in Asks,
           NEW x \in Router, NEW y \in Router, NEW ev \in Event,
           NEW M, Sent(L, M, x, y, ev),
           From(ev) # To(ev), x = From(ev), y = getChannel(From(ev), To(ev))
    PROVE  /\ M \in LinkState
           /\ Fwd(M, p) = IF Is(ev, "req", p) THEN Snoc(ev.n, Fwd(L, p)) ELSE Fwd(L, p)
           /\ Back(M, p) = IF Is(ev, "resp", p) THEN Snoc(ev.n, Back(L, p)) ELSE Back(L, p)
<1>1. p[1] \in Router /\ p[2].rtr \in Router
  BY AsksAre, OwnRouter
<1>2. Mine(ev, "req", p[1], p[2]) =>
          p[1] # p[2].rtr /\ x = p[1] /\ y = getChannel(p[1], p[2].rtr)
  BY DEF Mine, From, To
<1>3. Mine(ev, "resp", p[1], p[2]) =>
          p[2].rtr # p[1] /\ x = p[2].rtr /\ y = getChannel(p[2].rtr, p[1])
  BY DEF Mine, From, To
<1>4. Fwd(M, p) = IF Is(ev, "req", p) THEN Snoc(ev.n, Fwd(L, p)) ELSE Fwd(L, p)
  BY <1>1, <1>2, OnLinksAppend DEF Fwd, Is
<1>5. Back(M, p) = IF Is(ev, "resp", p) THEN Snoc(ev.n, Back(L, p)) ELSE Back(L, p)
  BY <1>1, <1>3, OnLinksAppend DEF Back, Is
<1> QED
  BY <1>4, <1>5 DEF Sent

\* The last router of its way takes an event.
LEMMA WaysTaken ==
    ASSUME Routed, NEW L \in LinkState, NEW p \in Asks,
           NEW x \in Router, NEW y \in Router, NEW ev, NEW M, Taken(L, M, x, y, ev),
           OnWay(x, y, ev), y = To(ev)
    PROVE  /\ M \in LinkState /\ ev \in Event
           /\ Fwd(L, p) = IF Is(ev, "req", p) THEN Cons(ev.n, Fwd(M, p)) ELSE Fwd(M, p)
           /\ Back(L, p) = IF Is(ev, "resp", p) THEN Cons(ev.n, Back(M, p)) ELSE Back(M, p)
<1>1. p[1] \in Router /\ p[2].rtr \in Router
  BY AsksAre, OwnRouter
<1>2. x = IF getChannel(From(ev), To(ev)) = To(ev) THEN From(ev)
          ELSE getChannel(From(ev), To(ev))
  BY DEF OnWay
<1>3. From(ev) # To(ev)
  BY DEF OnWay
<1>4. Mine(ev, "req", p[1], p[2]) =>
          /\ p[1] # p[2].rtr /\ y = p[2].rtr
          /\ x = IF getChannel(p[1], p[2].rtr) = p[2].rtr THEN p[1]
                 ELSE getChannel(p[1], p[2].rtr)
  BY <1>2, <1>3 DEF Mine, From, To
<1>5. Mine(ev, "resp", p[1], p[2]) =>
          /\ p[2].rtr # p[1] /\ y = p[1]
          /\ x = IF getChannel(p[2].rtr, p[1]) = p[1] THEN p[2].rtr
                 ELSE getChannel(p[2].rtr, p[1])
  BY <1>2, <1>3 DEF Mine, From, To
<1>6. Fwd(L, p) = IF Is(ev, "req", p) THEN Cons(ev.n, Fwd(M, p)) ELSE Fwd(M, p)
  BY <1>1, <1>4, OnLinksTail DEF Fwd, Is
<1>7. Back(L, p) = IF Is(ev, "resp", p) THEN Cons(ev.n, Back(M, p)) ELSE Back(M, p)
  BY <1>1, <1>5, OnLinksTail DEF Back, Is
<1>8. M \in LinkState /\ ev \in Event
  BY HeadTailProperties DEF LinkState, Taken
<1> QED
  BY <1>6, <1>7, <1>8

\* The router in between sends an event on.
LEMMA WaysMoved ==
    ASSUME Routed, NEW L \in LinkState, NEW p \in Asks, NEW h \in 0 .. 3,
           NEW x \in Router, NEW y \in Router, NEW z \in Router,
           NEW ev \in Event, NEW M, Taken(L, M, x, y, ev),
           NEW nx, nx = [ev EXCEPT !.hops = h], NEW O, Sent(M, O, y, z, nx),
           OnWay(x, y, ev), y # To(ev), z = To(ev)
    PROVE  O \in LinkState /\ Fwd(O, p) = Fwd(L, p) /\ Back(O, p) = Back(L, p)
<1>1. p[1] \in Router /\ p[2].rtr \in Router
  BY AsksAre, OwnRouter
<1>2. x # y /\ x = From(ev) /\ y = getChannel(From(ev), To(ev)) /\ From(ev) # To(ev)
  BY WayEnds DEF OnWay
<1>3. Mine(ev, "req", p[1], p[2]) =>
          /\ p[1] # p[2].rtr /\ x = p[1] /\ y = getChannel(p[1], p[2].rtr)
          /\ z = p[2].rtr /\ y # p[2].rtr
  BY <1>2 DEF Mine, From, To
<1>4. Mine(ev, "resp", p[1], p[2]) =>
          /\ p[2].rtr # p[1] /\ x = p[2].rtr /\ y = getChannel(p[2].rtr, p[1])
          /\ z = p[1] /\ y # p[1]
  BY <1>2 DEF Mine, From, To
<1>5. Fwd(O, p) = Fwd(L, p)
  BY <1>1, <1>2, <1>3, OnLinksMove DEF Fwd
<1>6. Back(O, p) = Back(L, p)
  BY <1>1, <1>2, <1>4, OnLinksMove DEF Back
<1> QED
  BY <1>5, <1>6 DEF Sent

\* Every event on the links stays on its way.
LEMMA PlacedSent ==
    ASSUME NEW L \in LinkState, Placed(L), NEW x \in Router, NEW y \in Router, NEW ev \in Event,
           NEW M, Sent(L, M, x, y, ev), OnWay(x, y, ev)
    PROVE  Placed(M)
<1> SUFFICES ASSUME NEW v \in Router, NEW w \in Router, NEW i \in 1 .. Len(M[v][w])
             PROVE  OnWay(v, w, M[v][w][i])
  BY DEF Placed
<1>1. CASE v = x /\ w = y
  <2> DEFINE q == L[x][y]
  <2>1. q \in Seq(Event) /\ M[v][w] = Append(q, ev)
    BY <1>1 DEF Sent, LinkState
  <2>2. \A j \in 1 .. Len(q) : OnWay(x, y, q[j])
    BY DEF Placed
  <2> HIDE DEF q
  <2>3. Len(q) \in Nat /\ Len(Append(q, ev)) = Len(q) + 1
    BY <2>1, LenProperties, AppendProperties
  <2>4. /\ \A j \in 1 .. Len(q) : Append(q, ev)[j] = q[j]
        /\ Append(q, ev)[Len(q) + 1] = ev
    BY <2>1, AppendProperties
  <2> QED
    BY <1>1, <2>1, <2>2, <2>3, <2>4
<1>2. CASE ~ (v = x /\ w = y)
  BY <1>2 DEF Sent, Placed
<1> QED
  BY <1>1, <1>2

LEMMA PlacedTaken ==
    ASSUME NEW L \in LinkState, Placed(L), NEW x \in Router, NEW y \in Router,
           NEW ev, NEW M, Taken(L, M, x, y, ev)
    PROVE  Placed(M) /\ OnWay(x, y, ev) /\ ev \in Event
<1> DEFINE q == L[x][y]
<1>1. q \in Seq(Event) /\ q # <<>> /\ ev = Head(q)
  BY DEF Taken, LinkState
<1>2. \A j \in 1 .. Len(q) : OnWay(x, y, q[j])
  BY DEF Placed
<1>3. M[x][y] = Tail(q)
  BY DEF Taken
<1> HIDE DEF q
<1>4. Len(q) \in Nat \ {0} /\ Head(q) = q[1]
  BY <1>1, EmptySeq
<1>5. OnWay(x, y, ev)
  BY <1>1, <1>2, <1>4
<1>6. Len(Tail(q)) = Len(q) - 1 /\ \A i \in 1 .. Len(Tail(q)) : Tail(q)[i] = q[i + 1]
  BY <1>1, HeadTailProperties
<1>7. ASSUME NEW v \in Router, NEW w \in Router, NEW i \in 1 .. Len(M[v][w])
      PROVE  OnWay(v, w, M[v][w][i])
  <2>1. CASE v = x /\ w = y
    BY <2>1, <1>2, <1>3, <1>4, <1>6
  <2>2. CASE ~ (v = x /\ w = y)
    BY <2>2, <1>7 DEF Taken, Placed
  <2> QED
    BY <2>1, <2>2
<1>8. ev \in Event
  BY <1>1, HeadTailProperties
<1> QED
  BY <1>5, <1>7, <1>8 DEF Placed

LEMMA AtAppend ==
    ASSUME NEW q \in Seq(Event), NEW kind, NEW s, At(q, kind, s),
           NEW ev \in Event, ev.kind = kind, ev.dest = s, <<ev.src, s>> \in Asks,
           kind = "resp" => ev.hops = 0
    PROVE  At(Append(q, ev), kind, s) /\ Append(q, ev) \in Seq(Event)
<1>1. Len(q) \in Nat /\ Len(Append(q, ev)) = Len(q) + 1 /\ Append(q, ev) \in Seq(Event)
  BY LenProperties, AppendProperties
<1>2. /\ \A j \in 1 .. Len(q) : Append(q, ev)[j] = q[j]
      /\ Append(q, ev)[Len(q) + 1] = ev
  BY AppendProperties
<1> QED
  BY <1>1, <1>2 DEF At

LEMMA AtTail ==
    ASSUME NEW q \in Seq(Event), NEW kind, NEW s, At(q, kind, s), q # <<>>
    PROVE  /\ At(Tail(q), kind, s) /\ Tail(q) \in Seq(Event)
           /\ Head(q) \in Event /\ Head(q).kind = kind /\ Head(q).dest = s
           /\ <<Head(q).src, s>> \in Asks /\ (kind = "resp" => Head(q).hops = 0)
<1>1. Len(q) \in Nat \ {0} /\ Head(q) = q[1]
  BY EmptySeq
<1>2. /\ Len(Tail(q)) = Len(q) - 1 /\ \A i \in 1 .. Len(Tail(q)) : Tail(q)[i] = q[i + 1]
      /\ Tail(q) \in Seq(Event) /\ Head(q) \in Event
  BY HeadTailProperties
<1> QED
  BY <1>1, <1>2 DEF At

LEMMA AtConcat ==
    ASSUME NEW q \in Seq(Event), NEW t \in Seq(Event), NEW kind, NEW s,
           At(q, kind, s), At(t, kind, s)
    PROVE  At(q \o t, kind, s) /\ q \o t \in Seq(Event)
<1>1. /\ Len(q) \in Nat /\ Len(t) \in Nat /\ Len(q \o t) = Len(q) + Len(t)
      /\ \A i \in 1 .. Len(q) + Len(t) :
             (q \o t)[i] = IF i <= Len(q) THEN q[i] ELSE t[i - Len(q)]
      /\ q \o t \in Seq(Event)
  BY LenProperties, ConcatProperties
<1> DEFINE u == q \o t
<1>2. /\ Len(u) = Len(q) + Len(t)
      /\ \A i \in 1 .. Len(q) + Len(t) : u[i] = IF i <= Len(q) THEN q[i] ELSE t[i - Len(q)]
  BY <1>1
<1> HIDE DEF u
<1>3. At(u, kind, s)
  BY <1>1, <1>2 DEF At
<1> QED
  BY <1>1, <1>3 DEF u

-----------------------------------------------------------------------------
\* The connections of the servers and the queues of the routers.

\* An event is added to one of them, or taken from it.
Added(Q, R, s, ev) ==
    /\ R \in [Server -> Seq(Event)]
    /\ \A v \in Server : R[v] = IF v = s THEN Append(Q[s], ev) ELSE Q[v]
Removed(Q, R, s, ev) ==
    /\ R \in [Server -> Seq(Event)]
    /\ Q[s] # <<>> /\ ev = Head(Q[s])
    /\ \A v \in Server : R[v] = IF v = s THEN Tail(Q[s]) ELSE Q[v]

LEMMA HeldAdded ==
    ASSUME NEW Q, NEW kind, Held(Q, kind), NEW s \in Server,
           NEW ev \in Event, ev.kind = kind, ev.dest = s, <<ev.src, s>> \in Asks,
           kind = "resp" => ev.hops = 0
    PROVE  Held([Q EXCEPT ![s] = Append(@, ev)], kind)
           /\ Added(Q, [Q EXCEPT ![s] = Append(@, ev)], s, ev)
<1>1. Q[s] \in Seq(Event) /\ At(Q[s], kind, s) /\ Q \in [Server -> Seq(Event)]
  BY DEF Held
<1>2. At(Append(Q[s], ev), kind, s) /\ Append(Q[s], ev) \in Seq(Event)
  <2> DEFINE q == Q[s]
  <2>1. q \in Seq(Event) /\ At(q, kind, s)
    BY <1>1
  <2> HIDE DEF q
  <2>2. At(Append(q, ev), kind, s) /\ Append(q, ev) \in Seq(Event)
    BY <2>1, AtAppend
  <2> QED
    BY <2>2 DEF q
<1> DEFINE e == Append(Q[s], ev)
           R == [Q EXCEPT ![s] = e]
<1>3. e \in Seq(Event) /\ At(e, kind, s)
  BY <1>2
<1>4. [Q EXCEPT ![s] = Append(@, ev)] = R
  OBVIOUS
<1>5. e = Append(Q[s], ev)
  OBVIOUS
<1> HIDE DEF e
<1>6. R \in [Server -> Seq(Event)] /\ \A v \in Server : R[v] = IF v = s THEN e ELSE Q[v]
  BY <1>1, <1>3
<1> HIDE DEF R
<1>7. Held(R, kind)
  BY <1>3, <1>6 DEF Held
<1>8. Added(Q, R, s, ev)
  BY <1>5, <1>6 DEF Added
<1> QED
  BY <1>4, <1>7, <1>8

LEMMA HeldRemoved ==
    ASSUME NEW Q, NEW kind, Held(Q, kind), NEW s \in Server, Q[s] # <<>>
    PROVE  /\ Held([Q EXCEPT ![s] = Tail(@)], kind)
           /\ Removed(Q, [Q EXCEPT ![s] = Tail(@)], s, Head(Q[s]))
<1>1. Q[s] \in Seq(Event) /\ At(Q[s], kind, s) /\ Q \in [Server -> Seq(Event)]
  BY DEF Held
<1> DEFINE q == Q[s]
           e == Tail(Q[s])
           R == [Q EXCEPT ![s] = e]
<1>2. q \in Seq(Event) /\ At(q, kind, s) /\ q # <<>> /\ q = Q[s] /\ e = Tail(q)
  BY <1>1
<1>3. [Q EXCEPT ![s] = Tail(@)] = R
  OBVIOUS
<1> HIDE DEF q
<1>4. At(Tail(q), kind, s) /\ Tail(q) \in Seq(Event)
  BY <1>2, AtTail
<1>5. e \in Seq(Event) /\ At(e, kind, s) /\ e = Tail(Q[s])
  BY <1>2, <1>4
<1> HIDE DEF e
<1>6. R \in [Server -> Seq(Event)] /\ \A v \in Server : R[v] = IF v = s THEN e ELSE Q[v]
  BY <1>1, <1>5
<1> HIDE DEF R
<1>7. Held(R, kind)
  BY <1>1, <1>5, <1>6 DEF Held
<1>8. Removed(Q, R, s, Head(Q[s]))
  BY <1>5, <1>6 DEF Removed
<1> QED
  BY <1>3, <1>7, <1>8

LEMMA HeldHead ==
    ASSUME NEW Q, NEW kind, Held(Q, kind), NEW s \in Server, Q[s] # <<>>
    PROVE  /\ Head(Q[s]) \in Event /\ Head(Q[s]).kind = kind /\ Head(Q[s]).dest = s
           /\ <<Head(Q[s]).src, s>> \in Asks /\ (kind = "resp" => Head(Q[s]).hops = 0)
<1> DEFINE q == Q[s]
<1>1. q \in Seq(Event) /\ At(q, kind, s) /\ q # <<>>
  BY DEF Held
<1> HIDE DEF q
<1>2. /\ Head(q) \in Event /\ Head(q).kind = kind /\ Head(q).dest = s
      /\ <<Head(q).src, s>> \in Asks /\ (kind = "resp" => Head(q).hops = 0)
  BY <1>1, AtTail
<1> QED
  BY <1>2 DEF q

\* The numbers of a pair in them.
LEMMA OfSeq ==
    ASSUME Routed, NEW Q, NEW kind, Held(Q, kind), NEW p \in Asks, NEW k
    PROVE  Of(Q, k, p) \in Seq(Nat)
<1>1. Q[p[2]] \in Seq(Event)
  BY AsksAre DEF Held
<1> QED
  BY <1>1, NumbersSeq DEF Of

LEMMA OfEmpty ==
    ASSUME NEW Q, NEW p, Q[p[2]] = <<>>, NEW k
    PROVE  Of(Q, k, p) = <<>>
  BY NumbersEmpty DEF Of

LEMMA OfAdded ==
    ASSUME Routed, NEW Q, NEW kind, Held(Q, kind), NEW s \in Server,
           NEW ev \in Event, ev.dest = s, NEW R, Added(Q, R, s, ev), NEW p \in Asks
    PROVE  Of(R, kind, p) = IF Is(ev, kind, p) THEN Snoc(ev.n, Of(Q, kind, p))
                            ELSE Of(Q, kind, p)
<1>1. p[2] \in Server
  BY AsksAre
<1>2. CASE p[2] = s
  <2> DEFINE q == Q[s]
  <2>1. q \in Seq(Event) /\ R[s] = Append(q, ev) /\ Q[s] = q
    BY DEF Held, Added
  <2> HIDE DEF q
  <2>2. Numbers(Append(q, ev), kind, p[1], p[2]) =
            IF Mine(ev, kind, p[1], p[2]) THEN Snoc(ev.n, Numbers(q, kind, p[1], p[2]))
            ELSE Numbers(q, kind, p[1], p[2])
    BY <2>1, NumbersAppend
  <2> QED
    BY <1>2, <2>1, <2>2 DEF Of, Is
<1>3. CASE p[2] # s
  <2>1. R[p[2]] = Q[p[2]] /\ ~ Is(ev, kind, p)
    BY <1>1, <1>3 DEF Added, Is, Mine
  <2> QED
    BY <2>1 DEF Of
<1> QED
  BY <1>2, <1>3

LEMMA OfRemoved ==
    ASSUME Routed, NEW Q, NEW kind, Held(Q, kind), NEW s \in Server,
           NEW ev, ev.dest = s, NEW R, Removed(Q, R, s, ev), NEW p \in Asks
    PROVE  Of(Q, kind, p) = IF Is(ev, kind, p) THEN Cons(ev.n, Of(R, kind, p))
                            ELSE Of(R, kind, p)
<1>1. p[2] \in Server
  BY AsksAre
<1>2. CASE p[2] = s
  <2> DEFINE q == Q[s]
  <2>1. q \in Seq(Event) /\ q # <<>> /\ ev = Head(q) /\ R[s] = Tail(q) /\ Q[s] = q
    BY DEF Held, Removed
  <2> HIDE DEF q
  <2>2. Numbers(q, kind, p[1], p[2]) =
            IF Mine(Head(q), kind, p[1], p[2])
            THEN Cons(Head(q).n, Numbers(Tail(q), kind, p[1], p[2]))
            ELSE Numbers(Tail(q), kind, p[1], p[2])
    BY <2>1, NumbersTail
  <2> QED
    BY <1>2, <2>1, <2>2 DEF Of, Is
<1>3. CASE p[2] # s
  <2>1. R[p[2]] = Q[p[2]] /\ ~ Is(ev, kind, p)
    BY <1>1, <1>3 DEF Removed, Is, Mine
  <2> QED
    BY <2>1 DEF Of
<1> QED
  BY <1>2, <1>3

-----------------------------------------------------------------------------
\* The steps.

\* The numbers of all parts are numbers.
LEMMA PartsSeq ==
    ASSUME Routed, WayInv, NEW p \in Asks
    PROVE  /\ Of(toServer, "req", p) \in Seq(Nat) /\ Of(pending, "req", p) \in Seq(Nat)
           /\ Of(fromServer, "resp", p) \in Seq(Nat)
           /\ Fwd(link, p) \in Seq(Nat) /\ Back(link, p) \in Seq(Nat)
           /\ answered[p] \in Seq(Nat) /\ sent[p] \in Nat
           /\ Going(p) \in Seq(Nat)
           /\ Going(p) = Ahead(Of(toServer, "req", p), Of(pending, "req", p), Fwd(link, p))
<1>1. /\ Of(toServer, "req", p) \in Seq(Nat) /\ Of(pending, "req", p) \in Seq(Nat)
      /\ Of(fromServer, "resp", p) \in Seq(Nat)
  BY OfSeq DEF WayInv, ServersPlaced
<1>2. Fwd(link, p) \in Seq(Nat) /\ Back(link, p) \in Seq(Nat)
  BY WaysAreSeq DEF WayInv, WayTypeOK
<1>3. answered[p] \in Seq(Nat) /\ sent[p] \in Nat
  BY DEF WayInv, WayTypeOK
<1>4. Going(p) = Ahead(Of(toServer, "req", p), Of(pending, "req", p), Fwd(link, p))
  BY DEF Going, InTransit, Ahead, Of, Fwd
<1>5. 0 \in Nat
  OBVIOUS
<1>6. Ahead(Of(toServer, "req", p), Of(pending, "req", p), Fwd(link, p)) \in Seq(Nat)
  BY <1>1, <1>2, <1>5, AheadMoves
<1> QED
  BY <1>1, <1>2, <1>3, <1>4, <1>6

\* Deliver adds an event behind all that is at the server or waits for it, and
\* before what is on the links.
LEMMA DeliverAdds ==
    ASSUME Routed, WayInv, NEW ev \in Event, ev.kind = "req", ev.dest \in Server,
           <<ev.src, ev.dest>> \in Asks, Deliver(ev)
    PROVE  /\ Held(pending', "req") /\ Held(toServer', "req")
           /\ \A v \in localMap : pending'[v] = <<>>
           /\ \A p \in Asks : \A l \in Seq(Nat) :
                  Ahead(Of(toServer', "req", p), Of(pending', "req", p), l) =
                      Ahead(Of(toServer, "req", p), Of(pending, "req", p),
                            IF Is(ev, "req", p) THEN Cons(ev.n, l) ELSE l)
<1>1. Held(pending, "req") /\ Held(toServer, "req") /\ ev.n \in Nat
  BY DEF WayInv, ServersPlaced, Event
<1>2. CASE ev.dest \in localMap
  <2>1. toServer' = [toServer EXCEPT ![ev.dest] = Append(@, ev)] /\ pending' = pending
    BY <1>2 DEF Deliver
  <2>2. Held(toServer', "req") /\ Added(toServer, toServer', ev.dest, ev)
    BY <1>1, <2>1, HeldAdded
  <2>3. ASSUME NEW p \in Asks, NEW l \in Seq(Nat)
        PROVE  Ahead(Of(toServer', "req", p), Of(pending', "req", p), l) =
                   Ahead(Of(toServer, "req", p), Of(pending, "req", p),
                         IF Is(ev, "req", p) THEN Cons(ev.n, l) ELSE l)
    <3>1. Of(toServer', "req", p) = IF Is(ev, "req", p) THEN Snoc(ev.n, Of(toServer, "req", p))
                                    ELSE Of(toServer, "req", p)
      BY <1>1, <2>2, OfAdded
    <3>2. CASE Is(ev, "req", p)
      <4>1. pending[p[2]] = <<>>
        BY <1>2, <3>2 DEF Is, Mine, WayInv, NoneWait
      <4>2. Of(pending, "req", p) = <<>>
        BY <4>1, OfEmpty
      <4>3. Of(toServer, "req", p) \in Seq(Nat) /\ <<>> \in Seq(Nat)
        BY PartsSeq
      <4>4. Ahead(Snoc(ev.n, Of(toServer, "req", p)), <<>>, l) =
                Ahead(Of(toServer, "req", p), <<>>, Cons(ev.n, l))
        BY <1>1, <4>3, AheadEmpty
      <4> QED
        BY <2>1, <3>1, <3>2, <4>2, <4>4
    <3>3. CASE ~ Is(ev, "req", p)
      BY <2>1, <3>1, <3>3
    <3> QED
      BY <3>2, <3>3
  <2> QED
    BY <1>1, <2>1, <2>2, <2>3 DEF WayInv, NoneWait
<1>3. CASE ev.dest \notin localMap
  <2>1. pending' = [pending EXCEPT ![ev.dest] = Append(@, ev)] /\ toServer' = toServer
    BY <1>3 DEF Deliver
  <2>2. Held(pending', "req") /\ Added(pending, pending', ev.dest, ev)
    BY <1>1, <2>1, HeldAdded
  <2>3. ASSUME NEW p \in Asks, NEW l \in Seq(Nat)
        PROVE  Ahead(Of(toServer', "req", p), Of(pending', "req", p), l) =
                   Ahead(Of(toServer, "req", p), Of(pending, "req", p),
                         IF Is(ev, "req", p) THEN Cons(ev.n, l) ELSE l)
    <3>1. Of(pending', "req", p) = IF Is(ev, "req", p) THEN Snoc(ev.n, Of(pending, "req", p))
                                   ELSE Of(pending, "req", p)
      BY <1>1, <2>2, OfAdded
    <3>2. Of(toServer, "req", p) \in Seq(Nat) /\ Of(pending, "req", p) \in Seq(Nat)
      BY PartsSeq
    <3>3. Ahead(Of(toServer, "req", p), Snoc(ev.n, Of(pending, "req", p)), l) =
              Ahead(Of(toServer, "req", p), Of(pending, "req", p), Cons(ev.n, l))
      BY <1>1, <3>2, AheadWaits
    <3> QED
      BY <2>1, <3>1, <3>3
  <2>4. \A v \in localMap : pending'[v] = <<>>
    BY <1>3, <2>2 DEF Added, WayInv, NoneWait, WayTypeOK
  <2> QED
    BY <1>1, <2>1, <2>2, <2>3, <2>4
<1> QED
  BY <1>2, <1>3

LEMMA ConsOne ==
    ASSUME NEW x \in Nat
    PROVE  Cons(x, <<>>) = Snoc(x, <<>>)
  BY DEF Cons, Snoc

\* What a step does to the way of every pair.
Same == \A p \in Asks : Going(p)' = Going(p) /\ Line(p)' = Line(p)

LEMMA RequestStep ==
    ASSUME Routed, WayInv, NEW r, NEW s, <<r, s>> \in Asks, ClientRequest(r, s)
    PROVE  /\ WayInv'
           /\ sent' = [sent EXCEPT ![<<r, s>>] = @ + 1]
           /\ \A p \in Asks :
                 /\ Going(p)' = IF p = <<r, s>> THEN Snoc(sent[p] + 1, Going(p)) ELSE Going(p)
                 /\ Line(p)' = IF p = <<r, s>> THEN Snoc(sent[p] + 1, Line(p)) ELSE Line(p)
<1> DEFINE ev == [kind |-> "req", src |-> r, dest |-> s, n |-> sent[<<r, s>>] + 1, hops |-> 0]
<1>1. r \in Router /\ s \in Server /\ s.rtr \in Router /\ findRoute(s) = s
  BY AsksAre, OwnRouter
<1>2. sent[<<r, s>>] \in Nat
  BY PartsSeq
<1>3. /\ ev \in Event /\ ev.kind = "req" /\ ev.src = r /\ ev.dest = s /\ ev.hops = 0
      /\ ev.n = sent[<<r, s>>] + 1 /\ ev.n \in Nat
  BY <1>1, <1>2 DEF Event
<1>4. /\ sent' = [sent EXCEPT ![<<r, s>>] = @ + 1]
      /\ UNCHANGED <<localMap, fromServer, answered>>
      /\ IF Target(ev) = r
         THEN Deliver(ev) /\ UNCHANGED link
         ELSE Forward(r, ev) /\ UNCHANGED <<pending, toServer>>
  BY DEF ClientRequest
<1> HIDE DEF ev
<1>5. /\ \A p \in Asks : Is(ev, "req", p) <=> p = <<r, s>>
      /\ \A p \in Asks : ~ Is(ev, "resp", p)
  BY <1>3, AsksAre DEF Is, Mine
<1>6. Target(ev) = s.rtr /\ From(ev) = r /\ To(ev) = s.rtr
  BY <1>1, <1>3 DEF Target, From, To
<1>7. sent' \in [Asks -> Nat]
  BY <1>2, <1>4 DEF WayInv, WayTypeOK
<1>8. \A p \in Asks : Going(p)' = Ahead(Of(toServer', "req", p), Of(pending', "req", p), Fwd(link', p))
  BY DEF Going, InTransit, Ahead, Of, Fwd
<1>9. \A p \in Asks : Line(p)' = Row(answered[p], Back(link', p), Of(fromServer, "resp", p), Going(p)')
  BY <1>4 DEF Line, Of, Back, OnLinks
<1>10. CASE s.rtr = r
  <2>1. Deliver(ev) /\ link' = link
    BY <1>4, <1>6, <1>10
  <2>2. /\ Held(pending', "req") /\ Held(toServer', "req")
        /\ \A v \in localMap : pending'[v] = <<>>
        /\ \A p \in Asks : \A l \in Seq(Nat) :
              Ahead(Of(toServer', "req", p), Of(pending', "req", p), l) =
                  Ahead(Of(toServer, "req", p), Of(pending, "req", p),
                        IF Is(ev, "req", p) THEN Cons(ev.n, l) ELSE l)
    BY <1>1, <1>3, <2>1, DeliverAdds
  <2>3. WayInv'
    BY <1>4, <1>7, <2>1, <2>2 DEF WayInv, WayTypeOK, LinksPlaced, ServersPlaced, NoneWait
  <2>4. ASSUME NEW p \in Asks
        PROVE  Going(p)' = IF p = <<r, s>> THEN Snoc(sent[p] + 1, Going(p)) ELSE Going(p)
    <3>1. Going(p)' = Ahead(Of(toServer, "req", p), Of(pending, "req", p),
                            IF Is(ev, "req", p) THEN Cons(ev.n, Fwd(link, p)) ELSE Fwd(link, p))
      BY <1>8, <2>1, <2>2, PartsSeq
    <3>2. CASE p = <<r, s>>
      <4>1. Fwd(link, p) = <<>>
        BY <1>10, <3>2 DEF Fwd, OnLinks
      <4>2. Cons(ev.n, <<>>) = Snoc(ev.n, <<>>)
        BY <1>3, ConsOne
      <4>3. Ahead(Of(toServer, "req", p), Of(pending, "req", p), Snoc(ev.n, Fwd(link, p))) =
                Snoc(ev.n, Ahead(Of(toServer, "req", p), Of(pending, "req", p), Fwd(link, p)))
        BY <1>3, PartsSeq, AheadMoves
      <4> QED
        BY <1>3, <1>5, <3>1, <3>2, <4>1, <4>2, <4>3, PartsSeq
    <3>3. CASE p # <<r, s>>
      BY <1>5, <3>1, <3>3, PartsSeq
    <3> QED
      BY <3>2, <3>3
  <2>5. ASSUME NEW p \in Asks
        PROVE  Line(p)' = IF p = <<r, s>> THEN Snoc(sent[p] + 1, Line(p)) ELSE Line(p)
    <3>1. Line(p)' = Row(answered[p], Back(link, p), Of(fromServer, "resp", p), Going(p)')
      BY <1>9, <2>1
    <3>2. Row(answered[p], Back(link, p), Of(fromServer, "resp", p), Snoc(ev.n, Going(p))) =
              Snoc(ev.n, Row(answered[p], Back(link, p), Of(fromServer, "resp", p), Going(p)))
      <4>1. /\ answered[p] \in Seq(Nat) /\ Back(link, p) \in Seq(Nat)
            /\ Of(fromServer, "resp", p) \in Seq(Nat) /\ Going(p) \in Seq(Nat)
        BY PartsSeq
      <4> QED
        BY <1>3, <4>1, RowSent
    <3> QED
      BY <1>3, <2>4, <3>1, <3>2 DEF Line
  <2> QED
    BY <1>4, <2>3, <2>4, <2>5
<1>11. CASE s.rtr # r
  <2> DEFINE to == getChannel(r, s.rtr)
             nx == [ev EXCEPT !.hops = 1]
  <2>1. Forward(r, ev) /\ pending' = pending /\ toServer' = toServer
    BY <1>4, <1>6, <1>11
  <2>2. to \in Router
    BY <1>1, <1>11, Channel, RootIsRouter
  <2>3. link' = [link EXCEPT ![r][to] = Append(@, nx)]
    BY <1>3, <1>6, <2>1 DEF Forward
  <2>4. /\ nx \in Event /\ nx.n = ev.n /\ nx.hops = 1 /\ nx.src = r /\ nx.dest = s
        /\ nx.kind = "req"
    BY <1>3 DEF Event
  <2>5. /\ From(nx) = r /\ To(nx) = s.rtr
        /\ \A p \in Asks : (Is(nx, "req", p) <=> p = <<r, s>>) /\ ~ Is(nx, "resp", p)
    BY <2>4, AsksAre DEF From, To, Is, Mine
  <2>6. nx.n = sent[<<r, s>>] + 1 /\ to = getChannel(From(nx), To(nx)) /\ nx.n \in Nat
    BY <1>3, <2>4, <2>5
  <2> HIDE DEF nx, to
  <2>7. link \in LinkState /\ Placed(link)
    BY DEF WayInv, WayTypeOK, LinksPlaced
  <2>8. Sent(link, link', r, to, nx)
    BY <1>1, <2>2, <2>3, <2>4, <2>7, SentExcept
  <2>9. OnWay(r, to, nx)
    BY <1>11, <2>4, <2>5, <2>6 DEF OnWay
  <2>10. Placed(link')
    BY <1>1, <2>2, <2>4, <2>7, <2>8, <2>9, PlacedSent
  <2>11. \A p \in Asks :
             /\ link' \in LinkState
             /\ Fwd(link', p) = IF p = <<r, s>> THEN Snoc(nx.n, Fwd(link, p)) ELSE Fwd(link, p)
             /\ Back(link', p) = Back(link, p)
    BY <1>1, <1>11, <2>2, <2>4, <2>5, <2>6, <2>7, <2>8, WaysSent
  <2>12. WayInv'
    <3>1. link' \in LinkState
      BY <2>8 DEF Sent
    <3> QED
      BY <1>4, <1>7, <2>1, <2>10, <3>1 DEF WayInv, WayTypeOK, LinksPlaced, ServersPlaced, NoneWait
  <2>13. ASSUME NEW p \in Asks
         PROVE  Going(p)' = IF p = <<r, s>> THEN Snoc(sent[p] + 1, Going(p)) ELSE Going(p)
    <3>1. Going(p)' = Ahead(Of(toServer, "req", p), Of(pending, "req", p), Fwd(link', p))
      BY <1>8, <2>1
    <3>2. Ahead(Of(toServer, "req", p), Of(pending, "req", p), Snoc(nx.n, Fwd(link, p))) =
              Snoc(nx.n, Ahead(Of(toServer, "req", p), Of(pending, "req", p), Fwd(link, p)))
      BY <2>6, PartsSeq, AheadMoves
    <3> QED
      BY <2>6, <2>11, <3>1, <3>2, PartsSeq
  <2>14. ASSUME NEW p \in Asks
         PROVE  Line(p)' = IF p = <<r, s>> THEN Snoc(sent[p] + 1, Line(p)) ELSE Line(p)
    <3>1. Line(p)' = Row(answered[p], Back(link, p), Of(fromServer, "resp", p), Going(p)')
      BY <1>9, <2>11
    <3>2. Row(answered[p], Back(link, p), Of(fromServer, "resp", p), Snoc(nx.n, Going(p))) =
              Snoc(nx.n, Row(answered[p], Back(link, p), Of(fromServer, "resp", p), Going(p)))
      <4>1. /\ answered[p] \in Seq(Nat) /\ Back(link, p) \in Seq(Nat)
            /\ Of(fromServer, "resp", p) \in Seq(Nat) /\ Going(p) \in Seq(Nat)
        BY PartsSeq
      <4> QED
        BY <2>6, <4>1, RowSent
    <3> QED
      BY <2>6, <2>13, <3>1, <3>2 DEF Line
  <2> QED
    BY <1>4, <2>12, <2>13, <2>14
<1> QED
  BY <1>10, <1>11

LEMMA ConnectStep ==
    ASSUME Routed, WayInv, NEW s \in Server, ServerConnect(s)
    PROVE  WayInv' /\ Same /\ UNCHANGED <<sent, answered>>
<1>1. /\ s \notin localMap /\ localMap' = localMap \cup {s}
      /\ toServer' = [toServer EXCEPT ![s] = @ \o pending[s]]
      /\ pending' = [pending EXCEPT ![s] = <<>>]
      /\ UNCHANGED <<link, fromServer, sent, answered>>
  BY DEF ServerConnect, Flushed, Erased
<1>2. Held(pending, "req") /\ Held(toServer, "req")
  BY DEF WayInv, ServersPlaced
<1> DEFINE e == toServer[s] \o pending[s]
<1>3. e \in Seq(Event) /\ At(e, "req", s)
  <2> DEFINE q == toServer[s]
             w == pending[s]
  <2>1. q \in Seq(Event) /\ w \in Seq(Event) /\ At(q, "req", s) /\ At(w, "req", s) /\ e = q \o w
    BY <1>2 DEF Held
  <2> HIDE DEF q, w, e
  <2>2. q \o w \in Seq(Event) /\ At(q \o w, "req", s)
    BY <2>1, AtConcat
  <2> QED
    BY <2>1, <2>2
<1>4. toServer' = [toServer EXCEPT ![s] = e]
  BY <1>1
<1> HIDE DEF e
<1>5. Held(toServer', "req") /\ \A v \in Server : toServer'[v] = IF v = s THEN e ELSE toServer[v]
  BY <1>2, <1>3, <1>4 DEF Held
<1>6. Held(pending', "req") /\ \A v \in Server : pending'[v] = IF v = s THEN <<>> ELSE pending[v]
  <2>1. <<>> \in Seq(Event) /\ At(<<>>, "req", s)
    BY EmptySeq DEF At
  <2> QED
    BY <1>1, <1>2, <2>1 DEF Held
<1>7. WayInv'
  BY <1>1, <1>5, <1>6 DEF WayInv, WayTypeOK, LinksPlaced, ServersPlaced, NoneWait
<1>8. ASSUME NEW p \in Asks
      PROVE  Going(p)' = Going(p)
  <2>1. Going(p)' = Ahead(Of(toServer', "req", p), Of(pending', "req", p), Fwd(link', p))
    BY DEF Going, InTransit, Ahead, Of, Fwd
  <2>2. p[2] \in Server
    BY AsksAre
  <2>3. CASE p[2] = s
    <3>1. Of(pending', "req", p) = <<>>
      BY <1>6, <2>2, <2>3, OfEmpty
    <3>2. Of(toServer', "req", p) = Of(toServer, "req", p) \o Of(pending, "req", p)
      <4> DEFINE q == toServer[s]
                 w == pending[s]
      <4>1. q \in Seq(Event) /\ w \in Seq(Event) /\ e = q \o w
        BY <1>2 DEF Held, e
      <4> HIDE DEF q, w, e
      <4>2. Numbers(q \o w, "req", p[1], p[2]) =
                Numbers(q, "req", p[1], p[2]) \o Numbers(w, "req", p[1], p[2])
        BY <4>1, NumbersConcat
      <4>3. toServer'[p[2]] = q \o w /\ toServer[p[2]] = q /\ pending[p[2]] = w
        BY <1>5, <2>2, <2>3, <4>1 DEF q, w
      <4> QED
        BY <4>2, <4>3 DEF Of
    <3> DEFINE t == Of(toServer, "req", p)
               w == Of(pending, "req", p)
               l == Fwd(link, p)
    <3>3. t \in Seq(Nat) /\ w \in Seq(Nat) /\ l \in Seq(Nat) /\ Going(p) = Ahead(t, w, l)
      BY PartsSeq
    <3>4. Going(p)' = Ahead(t \o w, <<>>, l)
      BY <1>1, <2>1, <3>1, <3>2
    <3> HIDE DEF t, w, l
    <3>5. Ahead(t \o w, <<>>, l) = Ahead(t, w, l)
      <4>1. 0 \in Nat
        OBVIOUS
      <4> QED
        BY <3>3, <4>1, AheadEmpty
    <3> QED
      BY <3>3, <3>4, <3>5
  <2>4. CASE p[2] # s
    <3>1. pending'[p[2]] = pending[p[2]] /\ toServer'[p[2]] = toServer[p[2]]
      BY <1>5, <1>6, <2>2, <2>4
    <3>2. Of(toServer', "req", p) = Of(toServer, "req", p)
          /\ Of(pending', "req", p) = Of(pending, "req", p)
      BY <3>1 DEF Of
    <3> QED
      BY <1>1, <2>1, <3>2, PartsSeq
  <2> QED
    BY <2>3, <2>4
<1>9. ASSUME NEW p \in Asks
      PROVE  Line(p)' = Line(p)
  <2>1. Line(p)' = Row(answered[p], Back(link, p), Of(fromServer, "resp", p), Going(p)')
    BY <1>1 DEF Line, Of, Back, OnLinks
  <2> QED
    BY <1>8, <2>1 DEF Line
<1> QED
  BY <1>1, <1>7, <1>8, <1>9 DEF Same

\* The server takes the request that is ahead of all others of its pair.
LEMMA TakeStep ==
    ASSUME Routed, WayInv, NEW s \in Server, ServerTake(s)
    PROVE  /\ WayInv' /\ UNCHANGED <<sent, answered>>
           /\ \A p \in Asks : Line(p)' = Line(p)
           /\ \A p \in Asks : Going(p)' \in Seq(Nat)
           /\ \E o \in Asks : \E n \in Nat : \A p \in Asks :
                  IF p = o THEN Going(p) = Cons(n, Going(p)') ELSE Going(p)' = Going(p)
<1> DEFINE ev == Head(toServer[s])
           an == [ev EXCEPT !.kind = "resp", !.hops = 0]
<1>1. /\ toServer[s] # <<>>
      /\ toServer' = [toServer EXCEPT ![s] = Tail(@)]
      /\ fromServer' = [fromServer EXCEPT ![s] = Append(@, an)]
      /\ UNCHANGED <<localMap, pending, link, sent, answered>>
  BY DEF ServerTake
<1>2. Held(toServer, "req") /\ Held(fromServer, "resp")
  BY DEF WayInv, ServersPlaced
<1>3. /\ Held(toServer', "req") /\ Removed(toServer, toServer', s, ev)
      /\ ev \in Event /\ ev.kind = "req" /\ ev.dest = s /\ <<ev.src, s>> \in Asks
  <2>1. Held(toServer', "req") /\ Removed(toServer, toServer', s, ev)
    BY <1>1, <1>2, HeldRemoved
  <2>2. ev \in Event /\ ev.kind = "req" /\ ev.dest = s /\ <<ev.src, s>> \in Asks
    BY <1>1, <1>2, HeldHead
  <2> QED
    BY <2>1, <2>2
<1> HIDE DEF ev
<1>4. /\ an \in Event /\ an.kind = "resp" /\ an.dest = s /\ an.src = ev.src
      /\ an.n = ev.n /\ an.hops = 0 /\ ev.n \in Nat
  <2>1. /\ ev = [kind |-> ev.kind, src |-> ev.src, dest |-> ev.dest, n |-> ev.n, hops |-> ev.hops]
        /\ ev.src \in Router /\ ev.dest \in Server /\ ev.n \in Nat
    BY <1>3 DEF Event
  <2> DEFINE mid == [ev EXCEPT !.kind = "resp"]
  <2>2. /\ mid \in Event /\ mid.kind = "resp" /\ mid.src = ev.src /\ mid.dest = ev.dest
        /\ mid.n = ev.n
    BY <1>3 DEF Event
  <2>3. an = [mid EXCEPT !.hops = 0]
    OBVIOUS
  <2> HIDE DEF mid, an
  <2>4. an \in Event /\ an.kind = mid.kind /\ an.src = mid.src /\ an.dest = mid.dest
        /\ an.n = mid.n /\ an.hops = 0
    BY <2>2, <2>3 DEF Event
  <2> QED
    BY <1>3, <2>1, <2>2, <2>4
<1> HIDE DEF an
<1>5. Held(fromServer', "resp") /\ Added(fromServer, fromServer', s, an)
  BY <1>1, <1>2, <1>3, <1>4, HeldAdded
<1>6. WayInv'
  BY <1>1, <1>3, <1>5 DEF WayInv, WayTypeOK, LinksPlaced, ServersPlaced, NoneWait
<1>7. \A p \in Asks : /\ Is(ev, "req", p) <=> p = <<ev.src, s>>
                      /\ Is(an, "resp", p) <=> p = <<ev.src, s>>
  BY <1>3, <1>4, AsksAre DEF Is, Mine
<1>8. ASSUME NEW p \in Asks
      PROVE  Going(p) = IF p = <<ev.src, s>> THEN Cons(ev.n, Going(p)') ELSE Going(p)'
  <2>1. Going(p)' = Ahead(Of(toServer', "req", p), Of(pending, "req", p), Fwd(link, p))
    BY <1>1 DEF Going, InTransit, Ahead, Of, Fwd, OnLinks
  <2>2. Of(toServer, "req", p) = IF p = <<ev.src, s>> THEN Cons(ev.n, Of(toServer', "req", p))
                                 ELSE Of(toServer', "req", p)
    BY <1>2, <1>3, <1>7, OfRemoved
  <2> DEFINE t == Of(toServer', "req", p)
             w == Of(pending, "req", p)
             l == Fwd(link, p)
  <2>3. t \in Seq(Nat)
    BY <1>3, OfSeq
  <2>4. w \in Seq(Nat) /\ l \in Seq(Nat) /\ Going(p) = Ahead(Of(toServer, "req", p), w, l)
    BY PartsSeq
  <2>5. Going(p)' = Ahead(t, w, l)
    BY <2>1
  <2>6. Of(toServer, "req", p) = IF p = <<ev.src, s>> THEN Cons(ev.n, t) ELSE t
    BY <2>2
  <2> HIDE DEF t, w, l
  <2>7. Ahead(Cons(ev.n, t), w, l) = Cons(ev.n, Ahead(t, w, l))
    BY <1>4, <2>3, <2>4, AheadMoves
  <2> QED
    BY <2>4, <2>5, <2>6, <2>7
<1>9. ASSUME NEW p \in Asks
      PROVE  Going(p)' \in Seq(Nat)
  <2>1. Going(p)' = Ahead(Of(toServer', "req", p), Of(pending, "req", p), Fwd(link, p))
    BY <1>1 DEF Going, InTransit, Ahead, Of, Fwd, OnLinks
  <2>2. Of(toServer', "req", p) \in Seq(Nat)
    BY <1>3, OfSeq
  <2> QED
    BY <1>4, <2>1, <2>2, PartsSeq, AheadMoves
<1>10. ASSUME NEW p \in Asks
       PROVE  Line(p)' = Line(p)
  <2> DEFINE a == answered[p]
             b == Back(link, p)
             f == Of(fromServer, "resp", p)
             g == Going(p)'
  <2>1. Line(p)' = Row(a, b, Of(fromServer', "resp", p), g)
    BY <1>1 DEF Line, Of, Back, OnLinks
  <2>2. Of(fromServer', "resp", p) = IF p = <<ev.src, s>> THEN Snoc(ev.n, f) ELSE f
    BY <1>2, <1>4, <1>5, <1>7, OfAdded
  <2>3. a \in Seq(Nat) /\ b \in Seq(Nat) /\ f \in Seq(Nat)
    BY PartsSeq
  <2>4. g \in Seq(Nat)
    BY <1>9
  <2>5. Line(p) = Row(a, b, f, Going(p))
    BY DEF Line
  <2>6. Going(p) = IF p = <<ev.src, s>> THEN Cons(ev.n, g) ELSE g
    BY <1>8
  <2> HIDE DEF a, b, f, g
  <2>7. Row(a, b, Snoc(ev.n, f), g) = Row(a, b, f, Cons(ev.n, g))
    BY <1>4, <2>3, <2>4, RowTaken
  <2> QED
    BY <2>1, <2>2, <2>5, <2>6, <2>7
<1> QED
  BY <1>1, <1>3, <1>4, <1>6, <1>8, <1>9, <1>10

\* A number that is appended to the answers of a pair.
LEMMA AnswerAdded ==
    ASSUME Routed, WayInv, NEW o \in Asks, NEW n \in Nat,
           answered' = [answered EXCEPT ![o] = Append(@, n)]
    PROVE  /\ answered' \in [Asks -> Seq(Nat)]
           /\ \A p \in Asks : answered'[p] = IF p = o THEN Snoc(n, answered[p]) ELSE answered[p]
<1> DEFINE a == answered[o]
           e == Append(a, n)
<1>1. a \in Seq(Nat) /\ answered \in [Asks -> Seq(Nat)]
  BY DEF WayInv, WayTypeOK
<1>2. e = Snoc(n, a)
  BY DEF Snoc
<1>3. answered' = [answered EXCEPT ![o] = e]
  OBVIOUS
<1>4. a = answered[o]
  OBVIOUS
<1> HIDE DEF a, e
<1>5. e \in Seq(Nat)
  BY <1>1, <1>2, ConsSnoc
<1> QED
  BY <1>1, <1>2, <1>3, <1>4, <1>5

LEMMA FromServerStep ==
    ASSUME Routed, WayInv, NEW s \in Server, FromServer(s)
    PROVE  WayInv' /\ Same /\ UNCHANGED sent
<1> DEFINE ev == Head(fromServer[s])
           r == s.rtr
<1>1. /\ fromServer[s] # <<>>
      /\ fromServer' = [fromServer EXCEPT ![s] = Tail(@)]
      /\ UNCHANGED <<localMap, pending, toServer, sent>>
      /\ IF ev.src = r
         THEN /\ answered' = [answered EXCEPT ![<<r, s>>] = Append(@, ev.n)]
              /\ UNCHANGED link
         ELSE Forward(r, ev) /\ UNCHANGED answered
  <2>1. AtBoard(s.rtr) = s.rtr
    BY OwnRouter
  <2>2. fromServer[s] # <<>>
    BY DEF FromServer
  <2>3. ev.kind = "resp"
    <3>1. Held(fromServer, "resp")
      BY DEF WayInv, ServersPlaced
    <3>2. /\ ev \in Event /\ ev.kind = "resp" /\ ev.dest = s
          /\ <<ev.src, s>> \in Asks /\ ev.hops = 0
      BY <2>2, <3>1, HeldHead
    <3> QED
      BY <3>2
  <2>4. Target(ev) = ev.src
    BY <2>3 DEF Target
  <2> QED
    BY <2>1, <2>4 DEF FromServer
<1>2. /\ Held(fromServer, "resp") /\ r \in Router
      /\ link \in LinkState /\ Placed(link)
  BY OwnRouter DEF WayInv, ServersPlaced, WayTypeOK, LinksPlaced
<1>3. Held(fromServer', "resp") /\ Removed(fromServer, fromServer', s, ev)
  BY <1>1, <1>2, HeldRemoved
<1>4. /\ ev \in Event /\ ev.kind = "resp" /\ ev.dest = s /\ <<ev.src, s>> \in Asks
      /\ ev.hops = 0 /\ ev.n \in Nat
  <2>1. ev \in Event /\ ev.kind = "resp" /\ ev.dest = s /\ <<ev.src, s>> \in Asks /\ ev.hops = 0
    BY <1>1, <1>2, HeldHead
  <2> QED
    BY <2>1 DEF Event
<1> HIDE DEF ev, r
<1>5. \A p \in Asks : Is(ev, "resp", p) <=> p = <<ev.src, s>>
  BY <1>4, AsksAre DEF Is, Mine
<1>6. \A p \in Asks :
          Of(fromServer, "resp", p) = IF p = <<ev.src, s>>
                                      THEN Cons(ev.n, Of(fromServer', "resp", p))
                                      ELSE Of(fromServer', "resp", p)
  BY <1>2, <1>3, <1>4, <1>5, OfRemoved
<1>7. \A p \in Asks : Of(fromServer', "resp", p) \in Seq(Nat)
  BY <1>3, OfSeq
<1>8. CASE ev.src = r
  <2>1. <<r, s>> \in Asks /\ link' = link
    BY <1>1, <1>4, <1>8
  <2>2. /\ answered' \in [Asks -> Seq(Nat)]
        /\ \A p \in Asks : answered'[p] = IF p = <<r, s>> THEN Snoc(ev.n, answered[p])
                                          ELSE answered[p]
    BY <1>1, <1>4, <1>8, <2>1, AnswerAdded
  <2>3. WayInv'
    BY <1>1, <1>3, <2>1, <2>2 DEF WayInv, WayTypeOK, LinksPlaced, ServersPlaced, NoneWait
  <2>4. \A p \in Asks : Going(p)' = Going(p)
    BY <1>1, <2>1 DEF Going, InTransit
  <2>5. ASSUME NEW p \in Asks
        PROVE  Line(p)' = Line(p)
    <3> DEFINE a == answered[p]
               f == Of(fromServer', "resp", p)
               g == Going(p)
    <3>1. Line(p)' = Row(answered'[p], Back(link, p), f, g)
      BY <2>1, <2>4 DEF Line, Of, Back, OnLinks
    <3>2. a \in Seq(Nat) /\ g \in Seq(Nat) /\ Back(link, p) \in Seq(Nat) /\ f \in Seq(Nat)
      BY <1>7, PartsSeq
    <3>3. Line(p) = Row(a, Back(link, p), Of(fromServer, "resp", p), g)
      BY DEF Line
    <3>4. CASE p = <<r, s>>
      <4>1. Back(link, p) = <<>>
        BY <3>4 DEF Back, OnLinks, r
      <4>2. answered'[p] = Snoc(ev.n, a)
        BY <2>2, <3>4
      <4>3. Of(fromServer, "resp", p) = Cons(ev.n, f)
        BY <1>6, <1>8, <3>4
      <4> HIDE DEF a, f, g
      <4>4. Row(Snoc(ev.n, a), <<>>, f, g) = Row(a, <<>>, Cons(ev.n, f), g)
        BY <1>4, <3>2, <4>1, RowLocal
      <4> QED
        BY <3>1, <3>3, <4>1, <4>2, <4>3, <4>4
    <3>5. CASE p # <<r, s>>
      BY <1>6, <1>8, <2>2, <3>1, <3>3, <3>5
    <3> QED
      BY <3>4, <3>5
  <2> QED
    BY <1>1, <2>3, <2>4, <2>5 DEF Same
<1>9. CASE ev.src # r
  <2> DEFINE to == getChannel(r, ev.src)
             nx == [ev EXCEPT !.hops = 1]
  <2>1. Forward(r, ev) /\ answered' = answered
    BY <1>1, <1>9
  <2>2. ev.src \in Router /\ Target(ev) = ev.src
    BY <1>4 DEF Event, Target
  <2>3. to \in Router
    BY <1>2, <1>9, <2>2, Channel, RootIsRouter
  <2>4. link' = [link EXCEPT ![r][to] = Append(@, nx)]
    BY <1>4, <2>1, <2>2 DEF Forward
  <2>5. /\ nx \in Event /\ nx.n = ev.n /\ nx.hops = 1 /\ nx.src = ev.src /\ nx.dest = s
        /\ nx.kind = "resp"
    BY <1>4 DEF Event
  <2>6. /\ From(nx) = r /\ To(nx) = ev.src /\ to = getChannel(From(nx), To(nx))
        /\ \A p \in Asks : ~ Is(nx, "req", p) /\ (Is(nx, "resp", p) <=> p = <<ev.src, s>>)
    BY <2>5, AsksAre DEF From, To, Is, Mine, r
  <2> HIDE DEF nx, to
  <2>7. Sent(link, link', r, to, nx)
    BY <1>2, <2>3, <2>4, <2>5, SentExcept
  <2>8. OnWay(r, to, nx)
    BY <1>4, <1>9, <2>5, <2>6 DEF OnWay
  <2>9. Placed(link') /\ link' \in LinkState
    BY <1>2, <2>3, <2>5, <2>7, <2>8, PlacedSent DEF Sent
  <2>10. \A p \in Asks :
             /\ Fwd(link', p) = Fwd(link, p)
             /\ Back(link', p) = IF p = <<ev.src, s>> THEN Snoc(ev.n, Back(link, p))
                                 ELSE Back(link, p)
    BY <1>2, <1>9, <2>3, <2>5, <2>6, <2>7, WaysSent
  <2>11. WayInv'
    BY <1>1, <1>3, <2>1, <2>9 DEF WayInv, WayTypeOK, LinksPlaced, ServersPlaced, NoneWait
  <2>12. ASSUME NEW p \in Asks
         PROVE  Going(p)' = Going(p)
    <3>1. Going(p)' = Ahead(Of(toServer, "req", p), Of(pending, "req", p), Fwd(link', p))
      BY <1>1 DEF Going, InTransit, Ahead, Of, Fwd
    <3> QED
      BY <2>10, <3>1, PartsSeq
  <2>13. ASSUME NEW p \in Asks
         PROVE  Line(p)' = Line(p)
    <3> DEFINE a == answered[p]
               b == Back(link, p)
               f == Of(fromServer', "resp", p)
               g == Going(p)
    <3>1. Line(p)' = Row(a, Back(link', p), f, g)
      BY <2>1, <2>12 DEF Line, Of, Back
    <3>2. a \in Seq(Nat) /\ g \in Seq(Nat) /\ b \in Seq(Nat) /\ f \in Seq(Nat)
      BY <1>7, PartsSeq
    <3>3. Line(p) = Row(a, b, Of(fromServer, "resp", p), g)
      BY DEF Line
    <3>4. /\ Back(link', p) = IF p = <<ev.src, s>> THEN Snoc(ev.n, b) ELSE b
          /\ Of(fromServer, "resp", p) = IF p = <<ev.src, s>> THEN Cons(ev.n, f) ELSE f
      BY <1>6, <2>10
    <3> HIDE DEF a, b, f, g
    <3>5. Row(a, Snoc(ev.n, b), f, g) = Row(a, b, Cons(ev.n, f), g)
      BY <1>4, <3>2, RowBack
    <3> QED
      BY <3>1, <3>3, <3>4, <3>5
  <2> QED
    BY <1>1, <2>11, <2>12, <2>13 DEF Same
<1> QED
  BY <1>8, <1>9

LEMMA FromRouterStep ==
    ASSUME Routed, WayInv, NEW q \in Router, NEW r \in Router, FromRouter(q, r)
    PROVE  WayInv' /\ Same /\ UNCHANGED sent
<1> DEFINE ev == Head(link[q][r])
           rest == [link EXCEPT ![q][r] = Tail(@)]
           to == getChannel(r, Target(ev))
           h == IF ev.hops < 3 THEN ev.hops + 1 ELSE 3
           nx == [ev EXCEPT !.hops = h]
<1>1. /\ link[q][r] # <<>>
      /\ UNCHANGED <<localMap, fromServer, sent>>
      /\ IF Target(ev) # r
         THEN /\ link' = [rest EXCEPT ![r][to] = Append(@, nx)]
              /\ UNCHANGED <<pending, toServer, answered>>
         ELSE /\ link' = rest
              /\ IF ev.kind = "resp"
                 THEN /\ answered' = [answered EXCEPT ![<<r, ev.dest>>] = Append(@, ev.n)]
                      /\ UNCHANGED <<pending, toServer>>
                 ELSE Deliver(ev) /\ UNCHANGED answered
  BY DEF FromRouter
<1>2. link \in LinkState /\ Placed(link)
  BY DEF WayInv, WayTypeOK, LinksPlaced
<1>3. Taken(link, rest, q, r, ev)
  BY <1>1, <1>2, TakenExcept
<1> HIDE DEF rest, ev
<1>4. Placed(rest) /\ OnWay(q, r, ev) /\ ev \in Event /\ rest \in LinkState
  BY <1>2, <1>3, PlacedTaken DEF Taken
<1>5. /\ q # r /\ From(ev) \in Router /\ To(ev) \in Router
      /\ Target(ev) = To(ev)
      /\ r # To(ev) => /\ q = From(ev) /\ r = getChannel(From(ev), To(ev))
                       /\ getChannel(r, To(ev)) = To(ev)
                       /\ r # From(ev)
  BY <1>4, WayEnds
<1>6. ev.n \in Nat /\ ev.hops \in 0 .. 3 /\ ev.dest \in Server /\ <<ev.src, ev.dest>> \in Asks
  BY <1>4 DEF Event, OnWay
<1>7. \A p \in Asks : Going(p)' = Ahead(Of(toServer', "req", p), Of(pending', "req", p), Fwd(link', p))
  BY DEF Going, InTransit, Ahead, Of, Fwd
<1>8. \A p \in Asks : Line(p)' = Row(answered'[p], Back(link', p), Of(fromServer, "resp", p), Going(p)')
  BY <1>1 DEF Line, Of, Back
<1>9. CASE To(ev) # r
  <2>1. to = To(ev) /\ h \in 0 .. 3 /\ h \in 1 .. 3
    BY <1>5, <1>6, <1>9
  <2>2. /\ link' = [rest EXCEPT ![r][to] = Append(@, nx)]
        /\ UNCHANGED <<pending, toServer, answered>>
    BY <1>1, <1>5, <1>9
  <2>3. /\ nx \in Event /\ nx.hops = h /\ nx.kind = ev.kind /\ nx.src = ev.src
        /\ nx.dest = ev.dest
    BY <1>4, <2>1 DEF Event
  <2>4. From(nx) = From(ev) /\ To(nx) = To(ev)
    BY <2>3 DEF From, To
  <2>5. nx = [ev EXCEPT !.hops = h]
    OBVIOUS
  <2> HIDE DEF nx, h, to
  <2>6. Sent(rest, link', r, to, nx)
    BY <1>4, <1>5, <2>1, <2>2, <2>3, SentExcept
  <2>7. OnWay(r, to, nx)
    <3>1. getChannel(From(ev), To(ev)) # To(ev)
      BY <1>5, <1>9
    <3> QED
      BY <1>4, <1>5, <1>9, <2>1, <2>3, <2>4, <3>1 DEF OnWay
  <2>8. Placed(link')
    BY <1>4, <1>5, <2>1, <2>3, <2>6, <2>7, PlacedSent
  <2>9. \A p \in Asks : Fwd(link', p) = Fwd(link, p) /\ Back(link', p) = Back(link, p)
    BY <1>2, <1>3, <1>4, <1>5, <1>9, <2>1, <2>5, <2>6, WaysMoved
  <2>10. WayInv'
    <3>1. link' \in LinkState
      BY <2>6 DEF Sent
    <3> QED
      BY <1>1, <2>2, <2>8, <3>1 DEF WayInv, WayTypeOK, LinksPlaced, ServersPlaced, NoneWait
  <2>11. \A p \in Asks : Going(p)' = Going(p)
    BY <1>7, <2>2, <2>9, PartsSeq
  <2>12. \A p \in Asks : Line(p)' = Line(p)
    BY <1>8, <2>2, <2>9, <2>11 DEF Line
  <2> QED
    BY <1>1, <2>10, <2>11, <2>12 DEF Same
<1>10. CASE To(ev) = r
  <2>1. link' = rest
    BY <1>1, <1>5, <1>10
  <2>2. \A p \in Asks :
            /\ Fwd(link, p) = IF Is(ev, "req", p) THEN Cons(ev.n, Fwd(link', p)) ELSE Fwd(link', p)
            /\ Back(link, p) = IF Is(ev, "resp", p) THEN Cons(ev.n, Back(link', p))
                               ELSE Back(link', p)
    BY <1>2, <1>3, <1>4, <1>10, <2>1, WaysTaken
  <2>3. \A p \in Asks : Fwd(link', p) \in Seq(Nat) /\ Back(link', p) \in Seq(Nat)
    BY <1>4, <2>1, WaysAreSeq
  <2>4. CASE ev.kind = "resp"
    <3>1. /\ answered' = [answered EXCEPT ![<<r, ev.dest>>] = Append(@, ev.n)]
          /\ UNCHANGED <<pending, toServer>>
      BY <1>1, <1>5, <1>10, <2>4
    <3>2. ev.src = r /\ <<r, ev.dest>> \in Asks
      BY <1>6, <1>10, <2>4 DEF To
    <3>3. \A p \in Asks : ~ Is(ev, "req", p) /\ (Is(ev, "resp", p) <=> p = <<r, ev.dest>>)
      BY <2>4, <3>2, AsksAre DEF Is, Mine
    <3>4. /\ answered' \in [Asks -> Seq(Nat)]
          /\ \A p \in Asks : answered'[p] = IF p = <<r, ev.dest>> THEN Snoc(ev.n, answered[p])
                                            ELSE answered[p]
      BY <1>6, <3>1, <3>2, AnswerAdded
    <3>5. WayInv'
      BY <1>1, <1>4, <2>1, <3>1, <3>4
         DEF WayInv, WayTypeOK, LinksPlaced, ServersPlaced, NoneWait
    <3>6. \A p \in Asks : Going(p)' = Going(p)
      BY <1>7, <2>2, <3>1, <3>3, PartsSeq
    <3>7. ASSUME NEW p \in Asks
          PROVE  Line(p)' = Line(p)
      <4> DEFINE a == answered[p]
                 b == Back(link', p)
                 f == Of(fromServer, "resp", p)
                 g == Going(p)
      <4>1. Line(p)' = Row(answered'[p], b, f, g)
        BY <1>8, <3>6
      <4>2. a \in Seq(Nat) /\ b \in Seq(Nat) /\ f \in Seq(Nat) /\ g \in Seq(Nat)
        BY <2>3, PartsSeq
      <4>3. Line(p) = Row(a, Back(link, p), f, g)
        BY DEF Line
      <4>4. /\ Back(link, p) = IF p = <<r, ev.dest>> THEN Cons(ev.n, b) ELSE b
            /\ answered'[p] = IF p = <<r, ev.dest>> THEN Snoc(ev.n, a) ELSE a
        BY <2>2, <3>3, <3>4
      <4> HIDE DEF a, b, f, g
      <4>5. Row(Snoc(ev.n, a), b, f, g) = Row(a, Cons(ev.n, b), f, g)
        BY <1>6, <4>2, RowAnswered
      <4> QED
        BY <4>1, <4>3, <4>4, <4>5
    <3> QED
      BY <1>1, <3>5, <3>6, <3>7 DEF Same
  <2>5. CASE ev.kind # "resp"
    <3>1. Deliver(ev) /\ answered' = answered /\ ev.kind = "req"
      BY <1>1, <1>4, <1>5, <1>10, <2>5 DEF Event
    <3>2. /\ Held(pending', "req") /\ Held(toServer', "req")
          /\ \A v \in localMap : pending'[v] = <<>>
          /\ \A p \in Asks : \A l \in Seq(Nat) :
                Ahead(Of(toServer', "req", p), Of(pending', "req", p), l) =
                    Ahead(Of(toServer, "req", p), Of(pending, "req", p),
                          IF Is(ev, "req", p) THEN Cons(ev.n, l) ELSE l)
      BY <1>4, <1>6, <3>1, DeliverAdds
    <3>3. WayInv'
      BY <1>1, <1>4, <2>1, <3>1, <3>2
         DEF WayInv, WayTypeOK, LinksPlaced, ServersPlaced, NoneWait
    <3>4. ASSUME NEW p \in Asks
          PROVE  Going(p)' = Going(p)
      <4>1. Going(p)' = Ahead(Of(toServer, "req", p), Of(pending, "req", p),
                              IF Is(ev, "req", p) THEN Cons(ev.n, Fwd(link', p))
                              ELSE Fwd(link', p))
        BY <1>7, <2>3, <3>2
      <4> QED
        BY <2>2, <4>1, PartsSeq
    <3>5. \A p \in Asks : Line(p)' = Line(p)
      <4>1. \A p \in Asks : Back(link', p) = Back(link, p)
        BY <2>2, <3>1 DEF Is, Mine
      <4> QED
        BY <1>8, <3>1, <3>4, <4>1 DEF Line
    <3> QED
      BY <1>1, <3>3, <3>4, <3>5 DEF Same
  <2> QED
    BY <2>4, <2>5
<1> QED
  BY <1>9, <1>10

-----------------------------------------------------------------------------
\* The theorems.

LEMMA CountTo ==
    ASSUME NEW k \in Nat
    PROVE  /\ [n \in 1 .. k |-> n] \in Seq(Nat)
           /\ Snoc(k + 1, [n \in 1 .. k |-> n]) = [n \in 1 .. k + 1 |-> n]
<1> DEFINE c == [n \in 1 .. k |-> n]
           d == [n \in 1 .. k + 1 |-> n]
<1>1. c \in Seq(Nat) /\ d \in Seq(Nat)
  OBVIOUS
<1>2. Len(c) = k /\ Len(d) = k + 1
  OBVIOUS
<1>3. (\A i \in 1 .. k : c[i] = i) /\ \A i \in 1 .. k + 1 : d[i] = i
  OBVIOUS
<1> HIDE DEF c, d
<1>4. /\ Append(c, k + 1) \in Seq(Nat) /\ Len(Append(c, k + 1)) = k + 1
      /\ \A i \in 1 .. k : Append(c, k + 1)[i] = c[i]
      /\ Append(c, k + 1)[k + 1] = k + 1
  BY <1>1, <1>2, AppendProperties
<1> DEFINE e == Append(c, k + 1)
<1>5. /\ e \in Seq(Nat) /\ Len(e) = k + 1 /\ \A i \in 1 .. k : e[i] = c[i]
      /\ e[k + 1] = k + 1
  BY <1>4
<1> HIDE DEF e
<1>6. \A i \in 1 .. Len(e) : e[i] = d[i]
  BY <1>3, <1>5
<1>7. e = d
  BY <1>1, <1>2, <1>5, <1>6, SeqEqual
<1>8. Snoc(k + 1, c) = d
  BY <1>7 DEF Snoc, e
<1> QED
  BY <1>1, <1>8 DEF c, d

\* The answers are the first part of the row.
LEMMA FirstOfRow ==
    ASSUME NEW a \in Seq(Nat), NEW b \in Seq(Nat), NEW f \in Seq(Nat), NEW i \in Seq(Nat),
           NEW k \in Nat, Row(a, b, f, i) = [n \in 1 .. k |-> n]
    PROVE  a = [n \in 1 .. Len(a) |-> n] /\ Len(a) <= k
<1> DEFINE v == b \o (f \o i)
<1>1. v \in Seq(Nat)
  <2>1. f \o i \in Seq(Nat)
    BY ConcatProperties
  <2> QED
    BY <2>1, ConcatProperties
<1>2. a \o v = [n \in 1 .. k |-> n]
  BY DEF Row
<1> HIDE DEF v
<1> DEFINE u == a \o v
<1>3. /\ Len(a) \in Nat /\ Len(v) \in Nat /\ Len(u) = Len(a) + Len(v)
      /\ \A j \in 1 .. Len(a) + Len(v) : u[j] = IF j <= Len(a) THEN a[j] ELSE v[j - Len(a)]
  BY <1>1, LenProperties, ConcatProperties
<1>4. u = [n \in 1 .. k |-> n]
  BY <1>2
<1> HIDE DEF u
<1>5. Len(u) = k /\ \A j \in 1 .. k : u[j] = j
  BY <1>4
<1>6. Len(a) <= k /\ \A j \in 1 .. Len(a) : a[j] = j
  BY <1>3, <1>5
<1>7. a = [n \in 1 .. Len(a) |-> a[n]]
  BY LenProperties
<1> QED
  BY <1>6, <1>7

TreeInv == WayInv /\ InLine

LEMMA InitWay ==
    ASSUME Routed, Init
    PROVE  WayInv /\ \A p \in Asks : Going(p) = <<>> /\ Line(p) = <<>> /\ sent[p] = 0
<1>1. <<>> \in Seq(Event) /\ <<>> \in Seq(Nat) /\ Len(<<>>) = 0
  BY EmptySeq
<1>2. WayInv
  BY <1>1 DEF Init, WayInv, WayTypeOK, LinkState, LinksPlaced, Placed, ServersPlaced, Held, At,
               NoneWait
<1>3. ASSUME NEW p \in Asks
      PROVE  Going(p) = <<>> /\ Line(p) = <<>> /\ sent[p] = 0
  <2>1. p[1] \in Router /\ p[2] \in Server /\ p[2].rtr \in Router
    BY AsksAre, OwnRouter
  <2>2. Of(toServer, "req", p) = <<>> /\ Of(pending, "req", p) = <<>>
        /\ Of(fromServer, "resp", p) = <<>>
    BY <2>1, OfEmpty DEF Init
  <2>3. \A x, y \in Router : link[x][y] = <<>>
    BY DEF Init
  <2>4. \A k, r, s : Numbers(<<>>, k, r, s) = <<>>
    BY NumbersEmpty
  <2>5. <<>> \o <<>> = <<>>
    BY <1>1, ConcatEmptySeq
  <2>6. \A x, y \in Router : \A k : OnLinks(link, x, y, k, p[1], p[2]) = <<>>
    <3> SUFFICES ASSUME NEW x \in Router, NEW y \in Router, NEW k
                 PROVE  OnLinks(link, x, y, k, p[1], p[2]) = <<>>
      OBVIOUS
    <3>1. CASE x = y
      BY <3>1 DEF OnLinks
    <3>2. CASE x # y
      <4>1. getChannel(x, y) \in Router
        BY <3>2, Channel, RootIsRouter
      <4>2. link[x][y] = <<>> /\ link[getChannel(x, y)][y] = <<>> /\ link[x][getChannel(x, y)] = <<>>
        BY <2>3, <4>1
      <4> QED
        BY <2>4, <2>5, <3>2, <4>2 DEF OnLinks
    <3> QED
      BY <3>1, <3>2
  <2>7. Fwd(link, p) = <<>> /\ Back(link, p) = <<>>
    BY <2>1, <2>6 DEF Fwd, Back
  <2>8. Going(p) = <<>>
    <3>1. Going(p) = Ahead(Of(toServer, "req", p), Of(pending, "req", p), Fwd(link, p))
      BY <1>2, PartsSeq
    <3> QED
      BY <2>2, <2>5, <2>7, <3>1 DEF Ahead
  <2>9. answered[p] = <<>> /\ sent[p] = 0
    BY DEF Init
  <2>10. Line(p) = <<>>
    BY <2>2, <2>5, <2>7, <2>8, <2>9 DEF Line, Row
  <2> QED
    BY <2>8, <2>9, <2>10
<1> QED
  BY <1>2, <1>3

LEMMA InitTree ==
    ASSUME Routed, Init
    PROVE  TreeInv
<1>1. WayInv /\ \A p \in Asks : Line(p) = <<>> /\ sent[p] = 0
  BY InitWay
<1>2. [n \in 1 .. 0 |-> n] = <<>>
  OBVIOUS
<1> QED
  BY <1>1, <1>2 DEF TreeInv, InLine

LEMMA NextTree ==
    ASSUME Routed, TreeInv, [Next]_vars
    PROVE  TreeInv'
<1>1. WayInv /\ InLine
  BY DEF TreeInv
<1>2. CASE Next
  <2>1. ASSUME NEW r, NEW s, <<r, s>> \in Asks, ClientRequest(r, s)
        PROVE  TreeInv'
    <3>1. /\ WayInv'
          /\ sent' = [sent EXCEPT ![<<r, s>>] = @ + 1]
          /\ \A p \in Asks :
                Line(p)' = IF p = <<r, s>> THEN Snoc(sent[p] + 1, Line(p)) ELSE Line(p)
      BY <1>1, <2>1, RequestStep
    <3>2. ASSUME NEW p \in Asks
          PROVE  Line(p)' = [n \in 1 .. sent'[p] |-> n]
      <4>1. Line(p) = [n \in 1 .. sent[p] |-> n] /\ sent[p] \in Nat
        BY <1>1, PartsSeq DEF InLine
      <4>2. sent'[p] = IF p = <<r, s>> THEN sent[p] + 1 ELSE sent[p]
        BY <1>1, <3>1 DEF WayInv, WayTypeOK
      <4>3. Snoc(sent[p] + 1, [n \in 1 .. sent[p] |-> n]) = [n \in 1 .. sent[p] + 1 |-> n]
        BY <4>1, CountTo
      <4>4. CASE p = <<r, s>>
        <5>1. Line(p)' = Snoc(sent[p] + 1, Line(p))
          BY <3>1, <4>4
        <5> QED
          BY <4>1, <4>2, <4>3, <4>4, <5>1
      <4>5. CASE p # <<r, s>>
        <5>1. Line(p)' = Line(p)
          BY <3>1, <4>5
        <5> QED
          BY <4>1, <4>2, <4>5, <5>1
      <4> QED
        BY <4>4, <4>5
    <3> QED
      BY <3>1, <3>2 DEF TreeInv, InLine
  <2>2. ASSUME WayInv', \A p \in Asks : Line(p)' = Line(p), UNCHANGED sent
        PROVE  TreeInv'
    BY <1>1, <2>2 DEF TreeInv, InLine
  <2>3. ASSUME NEW q \in Router, NEW r \in Router, FromRouter(q, r)
        PROVE  TreeInv'
    BY <1>1, <2>2, <2>3, FromRouterStep DEF Same
  <2>4. ASSUME NEW s \in Server, ServerConnect(s)
        PROVE  TreeInv'
    BY <1>1, <2>2, <2>4, ConnectStep DEF Same
  <2>5. ASSUME NEW s \in Server, ServerTake(s)
        PROVE  TreeInv'
    BY <1>1, <2>2, <2>5, TakeStep
  <2>6. ASSUME NEW s \in Server, FromServer(s)
        PROVE  TreeInv'
    BY <1>1, <2>2, <2>6, FromServerStep DEF Same
  <2> QED
    <3>1. \A p \in Asks : p = <<p[1], p[2]>>
      BY AsksAre
    <3> QED
      BY <1>2, <2>1, <2>3, <2>4, <2>5, <2>6, <3>1 DEF Next
<1>3. CASE UNCHANGED vars
  BY <1>1, <1>3
     DEF vars, TreeInv, WayInv, WayTypeOK, LinksPlaced, ServersPlaced, NoneWait, InLine, Line,
         Going, InTransit
<1> QED
  BY <1>2, <1>3

LEMMA OrderOfAnswers ==
    ASSUME Routed, TreeInv
    PROVE  AnswersInOrder
<1>1. ASSUME NEW p \in Asks
      PROVE  answered[p] = [n \in 1 .. Len(answered[p]) |-> n] /\ Len(answered[p]) <= sent[p]
  <2>1. /\ answered[p] \in Seq(Nat) /\ Back(link, p) \in Seq(Nat)
        /\ Of(fromServer, "resp", p) \in Seq(Nat) /\ Going(p) \in Seq(Nat) /\ sent[p] \in Nat
    BY PartsSeq DEF TreeInv
  <2> DEFINE a == answered[p]
             b == Back(link, p)
             f == Of(fromServer, "resp", p)
             g == Going(p)
             k == sent[p]
  <2>2. Row(a, b, f, g) = [n \in 1 .. k |-> n]
    BY DEF TreeInv, InLine, Line
  <2>3. a \in Seq(Nat) /\ b \in Seq(Nat) /\ f \in Seq(Nat) /\ g \in Seq(Nat) /\ k \in Nat
    BY <2>1
  <2> HIDE DEF a, b, f, g, k
  <2>4. a = [n \in 1 .. Len(a) |-> n] /\ Len(a) <= k
    BY <2>2, <2>3, FirstOfRow
  <2> QED
    BY <2>4 DEF a, k
<1> QED
  BY <1>1 DEF AnswersInOrder

\* Whatever the tree, each router has the answers of a server in the order of its
\* requests to it, each once and none without its request.
THEOREM TreeAnswersInOrder == ASSUME Routed PROVE Spec => []AnswersInOrder
<1>1. Init => TreeInv
  BY InitTree
<1>2. TreeInv /\ [Next]_vars => TreeInv'
  BY NextTree
<1>3. TreeInv => AnswersInOrder
  BY OrderOfAnswers
<1> QED
  BY <1>1, <1>2, <1>3, PTL DEF Spec

\* Whatever the tree, its events keep their type, and what waits is for a server
\* without connection.
THEOREM TreeTypeCorrect == ASSUME Routed PROVE Spec => []TypeOK
<1>1. Init => TreeInv
  BY InitTree
<1>2. TreeInv /\ [Next]_vars => TreeInv'
  BY NextTree
<1>3. TreeInv => TypeOK
  <2> SUFFICES ASSUME TreeInv
               PROVE  TypeOK
    OBVIOUS
  <2>1. WayInv
    BY DEF TreeInv
  <2>2. ASSUME NEW r \in Router, NEW q \in Router, NEW i \in DOMAIN link[r][q]
        PROVE  /\ link[r][q][i].src \in Router /\ link[r][q][i].dest \in Server
               /\ link[r][q][i].hops \in 1 .. 3
    <3> DEFINE l == link[r][q]
    <3>1. l \in Seq(Event)
      BY <2>1 DEF WayInv, WayTypeOK, LinkState
    <3>2. \A j \in 1 .. Len(l) : OnWay(r, q, l[j])
      BY <2>1 DEF WayInv, LinksPlaced, Placed
    <3>3. i \in DOMAIN l
      BY <2>2
    <3> HIDE DEF l
    <3>4. i \in 1 .. Len(l) /\ l[i] \in Event
      BY <3>1, <3>3, LenProperties, ElementOfSeq
    <3>5. OnWay(r, q, l[i])
      BY <3>2, <3>4
    <3>6. l[i].src \in Router /\ l[i].dest \in Server /\ l[i].hops \in 1 .. 3
      BY <3>4, <3>5 DEF Event, OnWay
    <3> QED
      BY <3>6 DEF l
  <2>3. ASSUME NEW s \in Server
        PROVE  /\ pending[s] # <<>> => s \notin localMap
               /\ \A i \in DOMAIN pending[s] : pending[s][i].kind = "req"
    <3> DEFINE q == pending[s]
    <3>1. q \in Seq(Event) /\ At(q, "req", s)
      BY <2>1 DEF WayInv, ServersPlaced, Held
    <3>2. s \in localMap => q = <<>>
      BY <2>1 DEF WayInv, NoneWait
    <3> HIDE DEF q
    <3>3. DOMAIN q = 1 .. Len(q)
      BY <3>1, LenProperties
    <3>4. \A i \in DOMAIN q : q[i].kind = "req"
      BY <3>1, <3>3 DEF At
    <3> QED
      BY <3>2, <3>4 DEF q
  <2>4. localMap \subseteq Server
    BY <2>1 DEF WayInv, WayTypeOK
  <2> QED
    BY <2>2, <2>3, <2>4 DEF TypeOK
<1> QED
  BY <1>1, <1>2, <1>3, PTL DEF Spec

-----------------------------------------------------------------------------
\* The routers and their links are one queue from each router to each server.
Queue == [p \in Asks |-> InTransit(p[1], p[2])]

LEMMA QueueIs == \A p \in Asks : Queue[p] = Going(p)
  BY DEF Queue, Going

LEMMA NextDelivers ==
    ASSUME Routed, TreeInv, Next
    PROVE  D!Next \/ UNCHANGED <<sent, Queue>>
<1>1. WayInv
  BY DEF TreeInv
<1>2. ASSUME NEW r, NEW s, <<r, s>> \in Asks, ClientRequest(r, s)
      PROVE  D!Next
  <2> DEFINE o == <<r, s>>
  <2>1. /\ sent' = [sent EXCEPT ![o] = @ + 1]
        /\ \A p \in Asks :
              Going(p)' = IF p = o THEN Snoc(sent[p] + 1, Going(p)) ELSE Going(p)
    BY <1>1, <1>2, RequestStep
  <2>2. o \in Asks
    BY <1>2
  <2> HIDE DEF o
  <2>3. \A p \in Asks :
            Going(p)' = IF p = o THEN Append(Going(p), sent[o] + 1) ELSE Going(p)
    BY <2>1 DEF Snoc
  <2>4. Queue' = [Queue EXCEPT ![o] = Append(@, sent[o] + 1)]
    BY <2>2, <2>3 DEF Queue, Going
  <2>5. D!Send(o)
    BY <2>1, <2>4 DEF D!Send, Queue
  <2> QED
    BY <2>2, <2>5 DEF D!Next
<1>3. ASSUME Same, UNCHANGED sent
      PROVE  UNCHANGED <<sent, Queue>>
  BY <1>3 DEF Same, Queue, Going
<1>4. ASSUME NEW q \in Router, NEW r \in Router, FromRouter(q, r)
      PROVE  UNCHANGED <<sent, Queue>>
  BY <1>1, <1>3, <1>4, FromRouterStep
<1>5. ASSUME NEW s \in Server, ServerConnect(s)
      PROVE  UNCHANGED <<sent, Queue>>
  BY <1>1, <1>3, <1>5, ConnectStep
<1>6. ASSUME NEW s \in Server, FromServer(s)
      PROVE  UNCHANGED <<sent, Queue>>
  BY <1>1, <1>3, <1>6, FromServerStep
<1>7. ASSUME NEW s \in Server, ServerTake(s)
      PROVE  D!Next
  <2>1. PICK o \in Asks, n \in Nat : \A p \in Asks :
            IF p = o THEN Going(p) = Cons(n, Going(p)') ELSE Going(p)' = Going(p)
    BY <1>1, <1>7, TakeStep
  <2>2. UNCHANGED sent
    BY <1>1, <1>7, TakeStep
  <2>3. Going(o) # <<>> /\ Tail(Going(o)) = Going(o)'
    <3> DEFINE g == Going(o)'
    <3>1. Going(o) = Cons(n, g)
      BY <2>1
    <3>2. g \in Seq(Nat)
      BY <1>1, <1>7, TakeStep
    <3> HIDE DEF g
    <3>3. Cons(n, g) = <<n>> \o g
      BY <3>2, ConsSnoc
    <3>4. <<n>> \o g # <<>> /\ Tail(<<n>> \o g) = g
      BY <3>2
    <3> QED
      BY <3>1, <3>3, <3>4 DEF g
  <2>4. Queue' = [Queue EXCEPT ![o] = Tail(@)]
    BY <2>1, <2>3 DEF Queue, Going
  <2>5. Queue[o] # <<>>
    BY <2>3, QueueIs
  <2>6. D!Take(o)
    BY <2>2, <2>4, <2>5 DEF D!Take, Queue
  <2> QED
    BY <2>6 DEF D!Next
<1> QED
  <2>1. \A p \in Asks : p = <<p[1], p[2]>>
    BY AsksAre
  <2> QED
    BY <1>2, <1>4, <1>5, <1>6, <1>7, <2>1 DEF Next

LEMMA StepDelivers ==
    ASSUME Routed, TreeInv, [Next]_vars
    PROVE  D!Next \/ UNCHANGED <<sent, Queue>>
<1>1. ASSUME UNCHANGED vars
      PROVE  UNCHANGED <<sent, Queue>>
  BY <1>1 DEF vars, Queue, InTransit
<1> QED
  BY <1>1, NextDelivers

THEOREM TreeDelivers == ASSUME Routed PROVE Spec => ImplementsDelivery
<1>1. Init => TreeInv /\ D!Init
  <2> SUFFICES ASSUME Init
               PROVE  TreeInv /\ D!Init
    OBVIOUS
  <2>1. \A p \in Asks : Going(p) = <<>>
    BY InitWay
  <2>2. Queue = [p \in Asks |-> <<>>]
    BY <2>1 DEF Queue, Going
  <2>3. D!Init
    BY <2>2 DEF Init, D!Init, Queue
  <2> QED
    BY <2>3, InitTree
<1>2. TreeInv /\ [Next]_vars => TreeInv'
  BY NextTree
<1>3. TreeInv /\ [Next]_vars => [D!Next]_<<sent, Queue>>
  BY StepDelivers
<1> QED
  BY <1>1, <1>2, <1>3, PTL DEF Spec, ImplementsDelivery, D!Spec, Queue

-----------------------------------------------------------------------------
\* Requests that are on links are for servers that have connected, and none waits.
Known(L, C) ==
    \A x, y \in Router : \A i \in 1 .. Len(L[x][y]) :
        L[x][y][i].kind = "req" => L[x][y][i].dest \in C

LEMMA KnownSent ==
    ASSUME NEW L \in LinkState, NEW C, Known(L, C), NEW x \in Router, NEW y \in Router,
           NEW ev \in Event, ev.kind = "req" => ev.dest \in C, NEW M, Sent(L, M, x, y, ev)
    PROVE  Known(M, C)
<1> DEFINE q == L[x][y]
<1>1. q \in Seq(Event) /\ M[x][y] = Append(q, ev)
  BY DEF Sent, LinkState
<1>2. \A j \in 1 .. Len(q) : q[j].kind = "req" => q[j].dest \in C
  BY DEF Known
<1>3. \A v, w \in Router : ~ (v = x /\ w = y) => M[v][w] = L[v][w]
  BY DEF Sent
<1> HIDE DEF q
<1> DEFINE e == Append(q, ev)
<1>4. /\ Len(q) \in Nat /\ Len(e) = Len(q) + 1
      /\ (\A j \in 1 .. Len(q) : e[j] = q[j]) /\ e[Len(q) + 1] = ev
  BY <1>1, LenProperties, AppendProperties
<1> HIDE DEF e
<1>5. \A j \in 1 .. Len(e) : e[j].kind = "req" => e[j].dest \in C
  BY <1>2, <1>4
<1>6. ASSUME NEW v \in Router, NEW w \in Router, NEW i \in 1 .. Len(M[v][w])
      PROVE  M[v][w][i].kind = "req" => M[v][w][i].dest \in C
  <2>1. CASE v = x /\ w = y
    BY <1>1, <1>5, <1>6, <2>1 DEF e
  <2>2. CASE ~ (v = x /\ w = y)
    BY <1>3, <1>6, <2>2 DEF Known
  <2> QED
    BY <2>1, <2>2
<1> QED
  BY <1>6 DEF Known

LEMMA KnownTaken ==
    ASSUME NEW L \in LinkState, NEW C, Known(L, C), NEW x \in Router, NEW y \in Router,
           NEW ev, NEW M, Taken(L, M, x, y, ev)
    PROVE  Known(M, C) /\ (ev.kind = "req" => ev.dest \in C)
<1> DEFINE q == L[x][y]
<1>1. q \in Seq(Event) /\ q # <<>> /\ M[x][y] = Tail(q) /\ ev = Head(q)
  BY DEF Taken, LinkState
<1>2. \A j \in 1 .. Len(q) : q[j].kind = "req" => q[j].dest \in C
  BY DEF Known
<1>3. \A v, w \in Router : ~ (v = x /\ w = y) => M[v][w] = L[v][w]
  BY DEF Taken
<1> HIDE DEF q
<1>4. Len(q) \in Nat \ {0} /\ Head(q) = q[1]
  BY <1>1, EmptySeq
<1> DEFINE e == Tail(q)
<1>5. Len(e) = Len(q) - 1 /\ \A i \in 1 .. Len(e) : e[i] = q[i + 1]
  BY <1>1, HeadTailProperties
<1> HIDE DEF e
<1>6. \A j \in 1 .. Len(e) : e[j].kind = "req" => e[j].dest \in C
  BY <1>2, <1>4, <1>5
<1>7. ASSUME NEW v \in Router, NEW w \in Router, NEW i \in 1 .. Len(M[v][w])
      PROVE  M[v][w][i].kind = "req" => M[v][w][i].dest \in C
  <2>1. CASE v = x /\ w = y
    BY <1>1, <1>6, <1>7, <2>1 DEF e
  <2>2. CASE ~ (v = x /\ w = y)
    BY <1>3, <1>7, <2>2 DEF Known
  <2> QED
    BY <2>1, <2>2
<1>8. 1 \in 1 .. Len(q)
  BY <1>4
<1>9. ev.kind = "req" => ev.dest \in C
  BY <1>1, <1>2, <1>4, <1>8
<1> QED
  BY <1>7, <1>9 DEF Known

KnownInv == TreeInv /\ ~dangling /\ Known(link, localMap)

LEMMA NextKnown ==
    ASSUME Routed, Early = FALSE, KnownInv, [Next]_vars
    PROVE  KnownInv'
<1>1. WayInv /\ Known(link, localMap) /\ ~dangling /\ link \in LinkState
  BY DEF KnownInv, TreeInv, WayInv, WayTypeOK
<1>2. TreeInv'
  BY NextTree DEF KnownInv
<1>3. SUFFICES ~dangling' /\ Known(link', localMap')
  BY <1>2 DEF KnownInv
<1>4. ASSUME NEW r, NEW s, <<r, s>> \in Asks, ClientRequest(r, s)
      PROVE  ~dangling' /\ Known(link', localMap')
  <2> DEFINE ev == [kind |-> "req", src |-> r, dest |-> s, n |-> sent[<<r, s>>] + 1, hops |-> 0]
             nx == [ev EXCEPT !.hops = 1]
             to == getChannel(r, Target(ev))
  <2>1. /\ dangling' = dangling /\ localMap' = localMap
        /\ s \in localMap \/ s.rtr = r
        /\ IF Target(ev) = r
           THEN UNCHANGED link
           ELSE link' = [link EXCEPT ![r][to] = Append(@, nx)]
    <3>1. s \in Server /\ findRoute(s) = s /\ Unrouted = {}
      BY <1>4, AsksAre, OwnRouter DEF Routed
    <3> QED
      BY <1>4, <3>1 DEF ClientRequest, Forward
  <2>2. r \in Router /\ s \in Server /\ s.rtr \in Router /\ Target(ev) = s.rtr
    BY <1>4, AsksAre, OwnRouter DEF Target
  <2>3. nx \in Event /\ nx.dest = s
    <3>1. sent[<<r, s>>] + 1 \in Nat
      BY <1>1, <1>4, PartsSeq
    <3> QED
      BY <2>2, <3>1 DEF Event
  <2> HIDE DEF nx, ev
  <2>4. CASE s.rtr = r
    BY <1>1, <2>1, <2>2, <2>4
  <2>5. CASE s.rtr # r
    <3>1. to \in Router
      BY <2>2, <2>5, Channel, RootIsRouter
    <3> HIDE DEF to
    <3>2. Sent(link, link', r, to, nx)
      BY <1>1, <2>1, <2>2, <2>3, <2>5, <3>1, SentExcept
    <3>3. Known(link', localMap)
      BY <1>1, <2>1, <2>2, <2>3, <2>5, <3>1, <3>2, KnownSent
    <3> QED
      BY <1>1, <2>1, <3>3
  <2> QED
    BY <2>4, <2>5
<1>5. ASSUME NEW q \in Router, NEW r \in Router, FromRouter(q, r)
      PROVE  ~dangling' /\ Known(link', localMap')
  <2> DEFINE ev == Head(link[q][r])
             rest == [link EXCEPT ![q][r] = Tail(@)]
             to == getChannel(r, Target(ev))
             h == IF ev.hops < 3 THEN ev.hops + 1 ELSE 3
             nx == [ev EXCEPT !.hops = h]
  <2>1. /\ link[q][r] # <<>> /\ localMap' = localMap
        /\ IF Target(ev) # r
           THEN /\ link' = [rest EXCEPT ![r][to] = Append(@, nx)]
                /\ dangling' = dangling
           ELSE /\ link' = rest
                /\ IF ev.kind = "resp" THEN dangling' = dangling
                   ELSE dangling' = (dangling \/ ev.dest \notin localMap)
    BY <1>5 DEF FromRouter
  <2>2. Taken(link, rest, q, r, ev) /\ Placed(link)
    BY <1>1, <2>1, TakenExcept DEF WayInv, LinksPlaced
  <2> HIDE DEF rest, ev
  <2>3. OnWay(q, r, ev) /\ ev \in Event /\ rest \in LinkState
    BY <1>1, <2>2, PlacedTaken DEF Taken
  <2>4. Known(rest, localMap) /\ (ev.kind = "req" => ev.dest \in localMap)
    BY <1>1, <2>2, KnownTaken
  <2>5. CASE Target(ev) # r
    <3>1. Target(ev) \in Router /\ to \in Router
      BY <2>3, <2>5, WayEnds
    <3>2. nx \in Event /\ nx.dest = ev.dest /\ nx.kind = ev.kind
      BY <2>3 DEF Event
    <3> HIDE DEF nx, to
    <3>3. Sent(rest, link', r, to, nx)
      BY <2>1, <2>3, <2>5, <3>1, <3>2, SentExcept
    <3>4. Known(link', localMap)
      BY <2>3, <2>4, <3>1, <3>2, <3>3, KnownSent
    <3> QED
      BY <1>1, <2>1, <2>5, <3>4
  <2>6. CASE Target(ev) = r
    <3>1. ev.kind = "resp" \/ ev.kind = "req"
      BY <2>3 DEF Event
    <3> QED
      BY <1>1, <2>1, <2>4, <2>6, <3>1
  <2> QED
    BY <2>5, <2>6
<1>6. ASSUME NEW s \in Server, ServerConnect(s)
      PROVE  ~dangling' /\ Known(link', localMap')
  BY <1>1, <1>6 DEF ServerConnect, Known
<1>7. ASSUME NEW s \in Server, ServerTake(s)
      PROVE  ~dangling' /\ Known(link', localMap')
  BY <1>1, <1>7 DEF ServerTake
<1>8. ASSUME NEW s \in Server, FromServer(s)
      PROVE  ~dangling' /\ Known(link', localMap')
  <2> DEFINE ev == Head(fromServer[s])
             r == AtBoard(s.rtr)
             to == getChannel(r, Target(ev))
             nx == [ev EXCEPT !.hops = 1]
  <2>1. ev \in Event /\ ev.kind = "resp" /\ ev.hops = 0 /\ fromServer[s] # <<>>
    <3>1. Held(fromServer, "resp") /\ fromServer[s] # <<>>
      BY <1>1, <1>8 DEF WayInv, ServersPlaced, FromServer
    <3>2. /\ ev \in Event /\ ev.kind = "resp" /\ ev.dest = s
          /\ <<ev.src, s>> \in Asks /\ ev.hops = 0
      BY <3>1, HeldHead
    <3> QED
      BY <3>1, <3>2
  <2>2. /\ dangling' = dangling /\ localMap' = localMap
        /\ link' = link \/ (Target(ev) # r /\ link' = [link EXCEPT ![r][to] = Append(@, [ev EXCEPT !.hops = @ + 1])])
    BY <1>8 DEF FromServer, Forward
  <2>3. r \in Router
    BY OwnRouter
  <2> HIDE DEF ev, r
  <2>4. nx \in Event /\ nx.kind = "resp" /\ nx = [ev EXCEPT !.hops = @ + 1]
    BY <2>1 DEF Event
  <2>5. CASE link' = link
    BY <1>1, <2>2, <2>5
  <2>6. CASE Target(ev) # r /\ link' = [link EXCEPT ![r][to] = Append(@, [ev EXCEPT !.hops = @ + 1])]
    <3>1. to \in Router
      <4>1. Target(ev) \in Router
        BY <2>1 DEF Target, Event
      <4> QED
        BY <2>3, <2>6, <4>1, Channel, RootIsRouter
    <3>2. link' = [link EXCEPT ![r][to] = Append(@, nx)]
      BY <2>4, <2>6
    <3> HIDE DEF nx, to
    <3>3. Sent(link, link', r, to, nx)
      BY <1>1, <2>3, <2>4, <3>1, <3>2, SentExcept
    <3>4. Known(link', localMap)
      BY <1>1, <2>3, <2>4, <3>1, <3>3, KnownSent
    <3> QED
      BY <1>1, <2>2, <3>4
  <2> QED
    BY <2>2, <2>5, <2>6
<1>9. CASE UNCHANGED vars
  BY <1>1, <1>9 DEF vars
<1> QED
  <2>1. \A p \in Asks : p = <<p[1], p[2]>>
    BY AsksAre
  <2> QED
    BY <1>4, <1>5, <1>6, <1>7, <1>8, <1>9, <2>1 DEF Next

LEMMA InitKnown ==
    ASSUME Routed, Init
    PROVE  KnownInv
<1>1. Known(link, localMap)
  BY EmptySeq DEF Init, Known
<1> QED
  BY <1>1, InitTree DEF KnownInv, Init

THEOREM NoneDangles == ASSUME Routed, Early = FALSE PROVE Spec => []NoneDangling
<1>1. Init => KnownInv
  BY InitKnown
<1>2. KnownInv /\ [Next]_vars => KnownInv'
  BY NextKnown
<1>3. KnownInv => NoneDangling
  BY DEF KnownInv, NoneDangling
<1> QED
  BY <1>1, <1>2, <1>3, PTL DEF Spec
=============================================================================
