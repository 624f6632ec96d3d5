-------------------------- MODULE ConnectionsProofs --------------------------
(***************************************************************************)
(* Proofs about Connections, for any number of servers and clients, any    *)
(* number of connections one after the other and any number of requests:   *)
(* any process may end at any moment, clients close while they wait, and a *)
(* server is started again before the router has seen the end of the last  *)
(* one.                                                                    *)
(***************************************************************************)
EXTENDS Connections, FiniteSetTheorems, WellFoundedInduction, SequenceTheorems, TLAPS

ServerChan == Chan \ Client
Message == Client \X Nat
Empty == <<>>

ConnTypeOK ==
    /\ peer \in [Chan -> {"none", "up", "dead"}]
    /\ backlog \subseteq Chan
    /\ fd \in [Chan -> Nat]
    /\ in \in [Chan -> Seq(Message \cup {ServerConnect})]
    /\ out \in [Chan -> Seq(Message)]
    /\ localMap \in [ServerId -> Chan \cup {NoChan}]
    /\ pending \in [ServerId -> Seq(Message)]
    /\ asked \in [Client -> Nat]
    /\ got \in [Client -> Nat]
    /\ taken \in [ServerId -> Seq(Message)]

\* A process that has not connected has nothing, and one that has ended reads
\* nothing.
Process(c) ==
    /\ peer[c] = "none" => /\ c \notin backlog /\ fd[c] = 0
                           /\ in[c] = Empty /\ out[c] = Empty
    /\ c \in backlog => fd[c] = 0
    /\ peer[c] = "dead" => out[c] = Empty

\* The processes of a server run one after the other; the router has no connection
\* of those before one that was not started too early.
InTurn ==
    \A c, d \in ServerChan :
        c[1] = d[1] /\ d[2] < c[2] /\ peer[c] # "none" => peer[d] = "dead"
NotEarly ==
    \A c, d \in ServerChan :
        c[1] = d[1] /\ d[2] < c[2] /\ peer[c] # "none" /\ c \notin early
            => fd[d] = 0 /\ d \notin backlog

\* An entry of m_localMap is a connection the router has read the name from, and
\* that of server 0 an open one.  Before its name is read a server is sent nothing.
MapLive ==
    \A s \in ServerId : localMap[s] # NoChan =>
        /\ localMap[s] \in Chan /\ localMap[s][1] = s /\ Named(localMap[s])
        /\ s = 0 => fd[localMap[s]] # 0
NamedFirst(c) ==
    /\ c \in backlog => ~ Named(c)
    /\ ~ Named(c) => /\ out[c] = Empty
                     /\ peer[c] # "none" => in[c] = <<ServerConnect>>

ServerInv ==
    /\ InTurn /\ NotEarly /\ MapLive /\ EntryPresent
    /\ \A c \in ServerChan : NamedFirst(c)

\* The number of the message that the router reads next from client k.
NextRead(k) == asked[k] + 1 - Len(in[k])
Mine(k) == {r \in DOMAIN infos : r[1] = k}

\* What a client has sent and the router has not read are its last messages; each
\* CommReqInfo and each answer is of a request that was read.
ClientCount(k) ==
    /\ asked[k] <= MaxReq
    /\ Len(in[k]) <= asked[k] + 1
    /\ \A i \in 1 .. Len(in[k]) : in[k][i] = <<k, NextRead(k) + i - 1>>
    /\ peer[k] = "none" => asked[k] = 0 /\ got[k] = 0
    /\ \A r \in Mine(k) : r[2] < NextRead(k)
    /\ Cardinality(Mine(k)) + Len(out[k]) + got[k]
         <= IF NextRead(k) = 0 THEN 0 ELSE NextRead(k) - 1

InfosOfClients == DOMAIN infos \subseteq Request

\* The inductive invariant.
ChanInv ==
    /\ ConnTypeOK
    /\ \A c \in Chan : Process(c)
    /\ ServerInv
    /\ \A k \in Client : ClientCount(k)
    /\ InfosOfClients /\ SrcLive

-----------------------------------------------------------------------------
\* The messages of a client in a queue are in order, and those of one before
\* those of the other.
Rising(q) ==
    \A i, j \in 1 .. Len(q) : i < j /\ q[i][1] = q[j][1] => q[i][2] < q[j][2]
Earlier(M, m) == \A n \in M : n[1] = m[1] => n[2] < m[2]

\* All messages of the client were read, or m is one that was.
Ended(k) == peer[k] = "dead" /\ fd[k] = 0 /\ k \notin backlog
Read(m) == peer[m[1]] # "none" /\ (Ended(m[1]) \/ m[2] < NextRead(m[1]))

\* What a server has taken, what its process is to take and what waits for the next
\* one are one queue.
ServerInLine(s) ==
    /\ Rising(taken[s]) /\ Rising(pending[s])
    /\ \A m \in Messages(pending[s]) : Earlier(Messages(taken[s]), m) /\ Read(m)
    /\ \A m \in Messages(taken[s]) : Read(m)
    /\ pending[s] # Empty => localMap[s] = NoChan
ChanInLine(c) ==
    /\ Rising(out[c])
    /\ \A m \in Messages(out[c]) : Earlier(Messages(taken[c[1]]), m) /\ Read(m)
    /\ \A m \in Messages(pending[c[1]]) : Earlier(Messages(out[c]), m)
InLine ==
    /\ \A s \in ServerId : ServerInLine(s)
    /\ \A c \in ServerChan : ChanInLine(c)

-----------------------------------------------------------------------------
(* Connections, messages and sequences.                                    *)
LEMMA Chans ==
    ASSUME ConnAssumption
    PROVE  /\ Chan = ServerChan \cup Client
           /\ ServerChan \cap Client = {}
           /\ \A c \in ServerChan : c[1] \in ServerId /\ c[1] \in Nat /\ c[2] \in Nat
                                    /\ c = <<c[1], c[2]>>
           /\ \A k \in Client : k[1] = ClientPort
           /\ \A s \in ServerId : s # ClientPort
           /\ NoChan \notin Chan
<1>1. ServerId \subseteq Nat /\ ClientPort = -1 /\ MaxConn \in Nat /\ MaxClients \in Nat
  BY DEF ConnAssumption, ClientPort
<1>2. \A s \in ServerId : s # ClientPort
  BY <1>1
<1>3. ServerChan = ServerId \X (1 .. MaxConn)
  BY <1>2 DEF ServerChan, Chan, Client
<1>4. Client = {ClientPort} \X (1 .. MaxClients)
  BY DEF Client
<1>5. ASSUME NEW c \in ServerChan
      PROVE  c[1] \in ServerId /\ c[1] \in Nat /\ c[2] \in Nat /\ c = <<c[1], c[2]>>
  <2>1. PICK s \in ServerId, i \in 1 .. MaxConn : c = <<s, i>>
    BY <1>3
  <2>2. i \in Nat /\ s \in Nat
    BY <1>1
  <2> QED
    BY <2>1, <2>2
<1>6. \A k \in Client : k[1] = ClientPort
  BY <1>4
<1>7. NoChan \notin Chan
  <2>1. 0 \notin 1 .. MaxConn /\ 0 \notin 1 .. MaxClients
    BY <1>1
  <2> QED
    BY <2>1, Zenon DEF NoChan, Chan, Client
<1>8. Chan = ServerChan \cup Client /\ ServerChan \cap Client = {}
  BY DEF ServerChan, Chan, Client
<1> QED
  BY <1>2, <1>5, <1>6, <1>7, <1>8

LEMMA MessageKinds ==
    ASSUME ConnAssumption
    PROVE  /\ Request \subseteq Message
           /\ \A k \in Client : Create(k) \in Message /\ Destroy(k) \in Message
           /\ \A m \in Message : m # ServerConnect /\ m[1] \in Client /\ m[2] \in Nat
                                 /\ m = <<m[1], m[2]>>
           /\ \A m \in Message : m \in Request <=> m[2] \in 1 .. MaxReq
  BY DEF Message, Request, Create, Destroy, ServerConnect, ConnAssumption

LEMMA ChanFinite ==
    ASSUME ConnAssumption
    PROVE  IsFiniteSet(Chan) /\ IsFiniteSet(Request)
<1>1. IsFiniteSet(ServerId)
  BY DEF ConnAssumption
<1>2. /\ IsFiniteSet(1 .. MaxConn) /\ IsFiniteSet(1 .. MaxReq)
      /\ IsFiniteSet(1 .. MaxClients)
  BY FS_Interval DEF ConnAssumption
<1>3. IsFiniteSet(Client)
  <2>1. IsFiniteSet({ClientPort})
    BY FS_Singleton
  <2> QED
    BY <1>2, <2>1, FS_Product, Zenon DEF Client
<1>4. IsFiniteSet(Chan)
  <2>1. IsFiniteSet(ServerId \X (1 .. MaxConn))
    BY <1>1, <1>2, FS_Product, Zenon
  <2> QED
    BY <1>3, <2>1, FS_Union, Zenon DEF Chan
<1>5. IsFiniteSet(Request)
  BY <1>2, <1>3, FS_Product, Zenon DEF Request
<1> QED
  BY <1>4, <1>5

LEMMA MessagesAppend ==
    ASSUME NEW E, NEW q \in Seq(E), NEW m \in E
    PROVE  /\ Messages(Append(q, m)) = Messages(q) \cup {m}
           /\ Append(q, m) \in Seq(E) /\ Append(q, m) # Empty
           /\ Len(Append(q, m)) = Len(q) + 1
<1>1. PICK n \in Nat : n = Len(q)
  OBVIOUS
<1>2. PICK r \in Seq(E) : r = Append(q, m)
  BY AppendProperties
<1>3. /\ Len(r) = n + 1 /\ DOMAIN r = 1 .. n + 1 /\ DOMAIN q = 1 .. n
      /\ \A i \in 1 .. n : r[i] = q[i]
      /\ r[n + 1] = m
      /\ r # <<>>
  BY <1>1, <1>2, AppendProperties
<1> QED
  BY <1>1, <1>2, <1>3 DEF Messages, Empty

LEMMA MessagesTail ==
    ASSUME NEW E, NEW q \in Seq(E), q # Empty
    PROVE  /\ Head(q) \in E /\ Tail(q) \in Seq(E) /\ Len(q) \in Nat \ {0}
           /\ Head(q) = q[1]
           /\ Len(Tail(q)) = Len(q) - 1
           /\ \A i \in 1 .. Len(q) - 1 : Tail(q)[i] = q[i + 1]
           /\ Messages(q) = {Head(q)} \cup Messages(Tail(q))
<1>1. PICK n \in Nat : n = Len(q)
  OBVIOUS
<1>2. PICK r \in Seq(E) : r = Tail(q)
  BY HeadTailProperties DEF Empty
<1>3. /\ Len(r) = n - 1 /\ n > 0 /\ DOMAIN r = 1 .. n - 1 /\ DOMAIN q = 1 .. n
      /\ \A i \in 1 .. n - 1 : r[i] = q[i + 1]
      /\ Head(q) = q[1] /\ Head(q) \in E
  BY <1>1, <1>2, HeadTailProperties DEF Empty
<1>4. Messages(q) = {q[1]} \cup Messages(r)
  <2>1. ASSUME NEW i \in 1 .. n, i # 1
        PROVE  q[i] \in Messages(r)
    <3>1. PICK j \in 1 .. n - 1 : i = j + 1
      BY <1>3, <2>1
    <3>2. r[j] = q[i]
      BY <1>3, <3>1
    <3> QED
      BY <1>3, <3>2 DEF Messages
  <2>2. ASSUME NEW j \in 1 .. n - 1
        PROVE  r[j] \in Messages(q)
    <3>1. j + 1 \in 1 .. n /\ r[j] = q[j + 1]
      BY <1>3
    <3> QED
      BY <1>3, <3>1 DEF Messages
  <2>3. q[1] \in Messages(q)
    BY <1>3 DEF Messages
  <2> QED
    BY <1>3, <2>1, <2>2, <2>3 DEF Messages
<1> QED
  BY <1>1, <1>2, <1>3, <1>4

LEMMA RisingAppend ==
    ASSUME NEW E, NEW q \in Seq(E), NEW m \in E, Rising(q), Earlier(Messages(q), m)
    PROVE  Rising(Append(q, m))
<1>1. PICK n \in Nat : n = Len(q)
  OBVIOUS
<1>2. PICK r \in Seq(E) : r = Append(q, m)
  BY AppendProperties
<1>3. /\ Len(r) = n + 1 /\ DOMAIN q = 1 .. n
      /\ \A i \in 1 .. n : r[i] = q[i]
      /\ r[n + 1] = m
  BY <1>1, <1>2, AppendProperties
<1>4. \A i \in 1 .. n : q[i][1] = m[1] => q[i][2] < m[2]
  BY <1>3 DEF Earlier, Messages
<1> QED
  BY <1>1, <1>2, <1>3, <1>4 DEF Rising

LEMMA RisingTail ==
    ASSUME NEW E, NEW q \in Seq(E), q # Empty, Rising(q)
    PROVE  /\ Rising(Tail(q))
           /\ \A m \in Messages(Tail(q)) : Head(q)[1] = m[1] => Head(q)[2] < m[2]
<1>1. PICK n \in Nat : n = Len(q)
  OBVIOUS
<1>2. PICK r \in Seq(E) : r = Tail(q)
  BY MessagesTail
<1>3. /\ Len(r) = n - 1 /\ n > 0 /\ DOMAIN r = 1 .. n - 1
      /\ \A i \in 1 .. n - 1 : r[i] = q[i + 1]
      /\ Head(q) = q[1]
  BY <1>1, <1>2, MessagesTail
<1> QED
  BY <1>1, <1>2, <1>3 DEF Rising, Messages

-----------------------------------------------------------------------------
(* Descriptors: one is free, and the lowest is taken.                      *)
LEMMA LeastMember ==
    ASSUME NEW S \in SUBSET Nat, IsFiniteSet(S), S # {}
    PROVE  Min(S) \in S
<1> DEFINE T == {s \in SUBSET S : s # {} /\ \A x \in s : \E y \in s : ~ (x <= y)}
<1>1. /\ T \subseteq SUBSET S
      /\ \A s \in SUBSET S : s \in T <=> s # {} /\ \A x \in s : \E y \in s : ~ (x <= y)
  OBVIOUS
<1> HIDE DEF T
<1>2. ASSUME T # {}
      PROVE  FALSE
  <2>1. IsWellFoundedOn(StrictSubsetOrdering(S), SUBSET S)
    BY FS_StrictSubsetOrderingWellFounded, FS_FiniteSubsetsOfFinite
  <2>2. PICK s \in T : \A t \in T : ~ (<<t, s>> \in StrictSubsetOrdering(S))
    BY <1>1, <1>2, <2>1, WFMin, Zenon
  <2>3. PICK x \in s : TRUE
    BY <1>1, <2>2
  <2>4. s \ {x} \in SUBSET S /\ <<s \ {x}, s>> \in StrictSubsetOrdering(S)
    BY <1>1, <2>2, <2>3 DEF StrictSubsetOrdering
  <2>5. s \ {x} \notin T
    BY <2>2, <2>4
  <2>6. s \in SUBSET S /\ ~ \E z \in s : \A y \in s : z <= y
    BY <1>1, <2>2
  <2>7. CASE s \ {x} = {}
    <3>1. \A y \in s : y = x /\ y \in Nat
      BY <2>7, <2>6
    <3> QED
      BY <2>3, <2>6, <3>1
  <2>8. CASE s \ {x} # {}
    <3>1. PICK m \in s \ {x} : \A y \in s \ {x} : m <= y
      BY <1>1, <2>4, <2>5, <2>8
    <3>2. m \in Nat /\ x \in Nat
      BY <2>3, <2>6
    <3>3. CASE m <= x
      BY <2>6, <3>1, <3>3
    <3>4. CASE ~ (m <= x)
      <4>1. \A y \in s : y \in Nat
        BY <2>6
      <4>2. \A y \in s : x <= y
        BY <3>1, <3>2, <3>4, <4>1
      <4> QED
        BY <2>3, <2>6, <4>2
    <3> QED
      BY <3>3, <3>4
  <2> QED
    BY <2>7, <2>8
<1>3. \E x \in S : \A y \in S : x <= y
  BY <1>1, <1>2
<1> QED
  BY <1>3 DEF Min

LEMMA FreeDescriptor ==
    ASSUME ConnAssumption, ConnTypeOK, NEW c \in Chan, fd[c] = 0,
           NEW f, f = Min((1 .. Cardinality(Chan)) \ {fd[d] : d \in Open})
    PROVE  f \in Nat \ {0} /\ \A d \in Open : fd[d] # f
<1> DEFINE Used == {fd[d] : d \in Open}
<1>1. PICK n \in Nat : n = Cardinality(Chan)
  BY ChanFinite, FS_CardinalityType
<1>2. (1 .. n) \ Used \in SUBSET Nat /\ IsFiniteSet((1 .. n) \ Used)
  <2>1. IsFiniteSet(1 .. n)
    BY FS_Interval
  <2>2. (1 .. n) \ Used \in SUBSET (1 .. n)
    OBVIOUS
  <2> QED
    BY <2>1, <2>2, FS_Subset
<1>3. ASSUME (1 .. n) \ Used = {}
      PROVE  FALSE
  <2> DEFINE g == [i \in 1 .. n |-> CHOOSE d \in Open : fd[d] = i]
  <2>1. \A i \in 1 .. n : g[i] \in Open /\ fd[g[i]] = i
    BY <1>3
  <2>2. g \in [1 .. n -> Open]
    BY <2>1
  <2>3. IsFiniteSet(Chan \ {c}) /\ Cardinality(Chan \ {c}) = n - 1
    BY <1>1, ChanFinite, FS_RemoveElement
  <2>4. Open \in SUBSET (Chan \ {c})
    BY DEF Open
  <2>5. PICK N : N = Open
    OBVIOUS
  <2>6. IsFiniteSet(N) /\ Cardinality(N) <= n - 1
    BY <2>3, <2>4, <2>5, FS_Subset
  <2>7. PICK k \in Nat : k = Cardinality(N)
    BY <2>6, FS_CardinalityType
  <2>8. IsFiniteSet(1 .. n) /\ Cardinality(1 .. n) = n
    BY FS_Interval
  <2>9. Cardinality(N) < Cardinality(1 .. n)
    BY <2>6, <2>7, <2>8
  <2>10. PICK h \in [1 .. n -> N] : h = g
    BY <2>2, <2>5
  <2>11. \E x, y \in 1 .. n : x # y /\ h[x] = h[y]
    BY <2>6, <2>8, <2>9, FS_PigeonHole
  <2> QED
    BY <2>1, <2>10, <2>11
<1>4. f \in (1 .. n) \ Used
  BY <1>1, <1>2, <1>3, LeastMember
<1> QED
  BY <1>1, <1>4

-----------------------------------------------------------------------------
(* Writing.                                                                *)
LEMMA WriteFacts ==
    ASSUME ConnTypeOK, NEW ws, DOMAIN ws \subseteq Chan,
           \A c \in DOMAIN ws : ws[c] \in Seq(Message), Write(ws)
    PROVE  /\ out' \in [Chan -> Seq(Message)]
           /\ \A c \in Chan :
                 out'[c] = IF c \in DOMAIN ws /\ peer[c] = "up" THEN out[c] \o ws[c]
                                                                ELSE out[c]
<1>1. out' = [c \in Chan |-> IF c \in DOMAIN ws /\ peer[c] = "up" THEN out[c] \o ws[c]
                                                                 ELSE out[c]]
  BY DEF Write
<1>2. \A c \in Chan : out[c] \in Seq(Message)
  BY DEF ConnTypeOK
<1>3. ASSUME NEW c \in Chan, c \in DOMAIN ws
      PROVE  out[c] \o ws[c] \in Seq(Message)
  BY <1>2, <1>3, ConcatProperties
<1> QED
  BY <1>1, <1>2, <1>3

\* A message to all servers: to the connections of those that have one.
LEMMA SendAllFacts ==
    ASSUME ConnAssumption, ConnTypeOK, MapLive, NEW m \in Message, SendAll(m)
    PROVE  /\ out' \in [Chan -> Seq(Message)] /\ pending' \in [ServerId -> Seq(Message)]
           /\ \A k \in Client : out'[k] = out[k]
           /\ \A c \in ServerChan :
                 out'[c] = IF localMap[c[1]] = c /\ peer[c] = "up" THEN Append(out[c], m)
                                                                  ELSE out[c]
           /\ \A s \in ServerId :
                 pending'[s] = IF localMap[s] = NoChan THEN Append(pending[s], m)
                                                       ELSE pending[s]
<1> DEFINE D == {localMap[s] : s \in ServerId} \ {NoChan}
           ws == [c \in D |-> <<m>>]
<1>1. D \subseteq Chan /\ \A c \in D : c[1] \in ServerId /\ localMap[c[1]] = c
  BY DEF ConnTypeOK, MapLive
<1>2. \A c \in ServerChan : c \in D <=> localMap[c[1]] = c
  BY <1>1, Chans
<1>3. \A k \in Client : k \notin D
  BY <1>1, Chans
<1>4. Write(ws) /\ DOMAIN ws \subseteq Chan /\ \A c \in DOMAIN ws : ws[c] \in Seq(Message)
  BY <1>1 DEF SendAll
<1>5. /\ out' \in [Chan -> Seq(Message)]
      /\ \A c \in Chan : out'[c] = IF c \in D /\ peer[c] = "up" THEN out[c] \o <<m>> ELSE out[c]
  <2>1. \A c \in DOMAIN ws : ws[c] = <<m>>
    OBVIOUS
  <2>2. DOMAIN ws = D
    OBVIOUS
  <2> HIDE DEF ws, D
  <2>3. /\ out' \in [Chan -> Seq(Message)]
        /\ \A c \in Chan : out'[c] = IF c \in DOMAIN ws /\ peer[c] = "up" THEN out[c] \o ws[c]
                                                                          ELSE out[c]
    BY <1>4, WriteFacts
  <2> QED
    BY <2>1, <2>2, <2>3
<1>6. \A c \in Chan : out[c] \o <<m>> = Append(out[c], m)
  <2>1. \A c \in Chan : out[c] \in Seq(Message)
    BY DEF ConnTypeOK
  <2> QED
    BY <2>1, AppendIsConcat
<1>7. pending' = [s \in ServerId |-> IF localMap[s] = NoChan THEN Append(pending[s], m)
                                                            ELSE pending[s]]
  BY DEF SendAll
<1>8. pending' \in [ServerId -> Seq(Message)]
  <2>1. \A s \in ServerId : pending[s] \in Seq(Message)
    BY DEF ConnTypeOK
  <2>2. \A s \in ServerId : Append(pending[s], m) \in Seq(Message)
    BY <2>1, AppendProperties
  <2> QED
    BY <1>7, <2>1, <2>2
<1> QED
  BY <1>2, <1>3, <1>5, <1>6, <1>7, <1>8, Chans

-----------------------------------------------------------------------------
(* What a step leaves alone.                                               *)
LEMMA SameProcess ==
    ASSUME NEW c \in Chan, Process(c), peer'[c] = peer[c], c \in backlog' => c \in backlog,
           fd'[c] = fd[c], in'[c] = in[c], out'[c] = out[c]
    PROVE  Process(c)'
  BY DEF Process

LEMMA SameClient ==
    ASSUME NEW k \in Client, ClientCount(k), peer'[k] = peer[k], in'[k] = in[k],
           out'[k] = out[k], asked'[k] = asked[k], got'[k] = got[k], Mine(k)' = Mine(k)
    PROVE  ClientCount(k)'
  BY DEF ClientCount, NextRead

\* A step that changes no entry and reads no name: a server may end, its connection
\* may be accepted.
SameServer(c) ==
    /\ peer'[c] = peer[c] \/ (peer[c] = "up" /\ peer'[c] = "dead")
    /\ fd[c] # 0 => fd'[c] # 0
    /\ fd'[c] # 0 => fd[c] # 0 \/ c \in backlog
    /\ c \in backlog' => c \in backlog
    /\ Named(c)' <=> Named(c)
    /\ ~ Named(c) => in'[c] = in[c] /\ (out'[c] = out[c] \/ out'[c] = Empty)
StillServer(c) ==
    /\ peer'[c] = peer[c] /\ fd'[c] = fd[c] /\ in'[c] = in[c]
    /\ c \in backlog' <=> c \in backlog
    /\ ~ Named(c) => out'[c] = out[c] \/ out'[c] = Empty

LEMMA SameServers ==
    ASSUME ConnAssumption, ChanInv, localMap' = localMap, early' = early,
           \A c \in ServerChan : SameServer(c)
    PROVE  ServerInv'
<1>1. \A c \in ServerChan : NamedFirst(c)
  BY DEF ChanInv, ServerInv
<1>2. InTurn'
  BY DEF ChanInv, ServerInv, InTurn, SameServer
<1>3. NotEarly'
  <2> SUFFICES ASSUME NEW c \in ServerChan, NEW d \in ServerChan, c[1] = d[1], d[2] < c[2],
                      peer'[c] # "none", c \notin early
               PROVE  fd'[d] = 0 /\ d \notin backlog'
    BY DEF NotEarly
  <2>1. peer[c] # "none"
    BY DEF SameServer
  <2>2. fd[d] = 0 /\ d \notin backlog
    BY <2>1 DEF ChanInv, ServerInv, NotEarly
  <2> QED
    BY <2>2 DEF SameServer
<1>4. MapLive'
  <2> SUFFICES ASSUME NEW s \in ServerId, NEW d, d = localMap[s], d # NoChan
               PROVE  d \in Chan /\ d[1] = s /\ Named(d)' /\ (s = 0 => fd'[d] # 0)
    BY Zenon DEF MapLive, Named
  <2>1. d \in Chan /\ d[1] = s /\ Named(d) /\ (s = 0 => fd[d] # 0)
    BY DEF ChanInv, ServerInv, MapLive
  <2>2. d \in ServerChan
    BY <2>1, Chans
  <2> QED
    BY <2>1, <2>2 DEF SameServer
<1>5. EntryPresent'
  <2> SUFFICES ASSUME NEW c \in ServerChan, fd'[c] # 0, Named(c)', c \notin early,
                      \A d \in Chan : c \in Before(d) => ~ Named(d)'
               PROVE  \/ localMap[c[1]] = c
                      \/ c[1] = 0 /\ \E d \in Chan \ Client : d[1] # 0 /\ Gone(d)'
    BY DEF EntryPresent, Open, ServerChan
  <2>1. Named(c) /\ fd[c] # 0
    BY <1>1 DEF SameServer, NamedFirst
  <2>2. \A d \in Chan : c \in Before(d) => ~ Named(d)
    <3> SUFFICES ASSUME NEW d \in Chan, c \in Before(d)
                 PROVE  ~ Named(d)
      OBVIOUS
    <3>1. d \in ServerChan
      <4>1. d[1] = c[1]
        BY DEF Before
      <4> QED
        BY <4>1, Chans
    <3> QED
      BY <3>1 DEF SameServer
  <2>3. \/ localMap[c[1]] = c
        \/ c[1] = 0 /\ \E d \in Chan \ Client : d[1] # 0 /\ Gone(d)
    BY <2>1, <2>2 DEF ChanInv, ServerInv, EntryPresent, Open, ServerChan
  <2>4. \A d \in Chan \ Client : Gone(d) => Gone(d)'
    BY DEF SameServer, Gone, Open, ServerChan
  <2> QED
    BY <2>3, <2>4
<1>6. \A c \in ServerChan : NamedFirst(c)'
  BY <1>1 DEF NamedFirst, SameServer
<1> QED
  BY <1>2, <1>3, <1>4, <1>5, <1>6 DEF ServerInv

\* A step in which nothing happens to a server but that it is sent or takes something.
LEMMA StillServers ==
    ASSUME ConnAssumption, ChanInv, localMap' = localMap, early' = early,
           \A c \in ServerChan : StillServer(c)
    PROVE  ServerInv'
<1>1. \A c \in ServerChan : Named(c)' <=> Named(c)
  BY DEF StillServer, Named
<1> QED
  BY <1>1, SameServers DEF StillServer, SameServer

\* A server that has an entry, or something to read, has said its name.
LEMMA MapNamed ==
    ASSUME ConnAssumption, ChanInv, NEW c \in ServerChan
    PROVE  /\ localMap[c[1]] = c => Named(c)
           /\ out[c] # Empty => Named(c) /\ peer[c] = "up"
           /\ c[1] \in ServerId /\ c \in Chan /\ c # NoChan
<1>1. c[1] \in ServerId /\ c \in Chan /\ c # NoChan
  BY Chans
<1>2. localMap[c[1]] = c => Named(c)
  <2>1. PICK d : d = localMap[c[1]]
    OBVIOUS
  <2>2. d # NoChan => Named(d)
    BY <1>1, <2>1 DEF ChanInv, ServerInv, MapLive
  <2> QED
    BY <1>1, <2>1, <2>2
<1>3. out[c] # Empty => Named(c) /\ peer[c] = "up"
  BY <1>1 DEF ChanInv, ServerInv, NamedFirst, Process, ConnTypeOK
<1> QED
  BY <1>1, <1>2, <1>3

\* What the router waits for, when it waits for no more than before.
LEMMA FewerInfos ==
    ASSUME ConnAssumption, ChanInv, DOMAIN infos' \subseteq DOMAIN infos,
           \A k \in Client :
               /\ fd[k] # 0 => fd'[k] # 0
               /\ Gone(k) /\ Outstanding(k) => Gone(k)' /\ Outstanding(k)'
    PROVE  InfosOfClients' /\ SrcLive'
<1>1. \A r \in DOMAIN infos : r \in Request /\ r[1] \in Client /\ r[1] \in Chan
  BY MessageKinds, Chans DEF ChanInv, InfosOfClients
<1>2. InfosOfClients'
  BY <1>1 DEF InfosOfClients
<1>3. ASSUME NEW r \in DOMAIN infos'
      PROVE  fd'[r[1]] # 0 \/ (Gone(r[1])' /\ Outstanding(r[1])')
  <2>1. PICK k \in Client : k = r[1] /\ k \in Chan
    BY <1>1
  <2>2. fd[k] # 0 \/ (Gone(k) /\ Outstanding(k))
    BY <2>1 DEF ChanInv, SrcLive, Open
  <2> QED
    BY <2>1, <2>2
<1>4. SrcLive'
  BY <1>1, <1>3 DEF SrcLive, Open
<1> QED
  BY <1>2, <1>4

LEMMA SameInfos ==
    ASSUME ConnAssumption, ChanInv, infos' = infos,
           \A k \in Client :
               /\ fd[k] # 0 => fd'[k] # 0
               /\ fd[k] = 0 /\ k \notin backlog => fd'[k] = 0 /\ k \notin backlog'
               /\ peer[k] = "dead" => /\ peer'[k] = "dead"
                                      /\ asked'[k] = asked[k] /\ got'[k] = got[k]
    PROVE  InfosOfClients' /\ SrcLive' /\ \A k \in Client : Mine(k)' = Mine(k)
<1>1. \A k \in Client : Gone(k) /\ Outstanding(k) => Gone(k)' /\ Outstanding(k)'
  BY Chans DEF Gone, Open, Outstanding
<1>2. InfosOfClients' /\ SrcLive'
  BY <1>1, FewerInfos
<1>3. \A k \in Client : Mine(k)' = Mine(k)
  BY DEF Mine
<1> QED
  BY <1>2, <1>3

\* The counts of a client are numbers.
LEMMA CountTypes ==
    ASSUME ConnAssumption, ChanInv, NEW k \in Client
    PROVE  /\ k \in Chan /\ asked[k] \in Nat /\ got[k] \in Nat
           /\ Len(in[k]) \in Nat /\ Len(out[k]) \in Nat /\ NextRead(k) \in Nat
           /\ NextRead(k) <= asked[k] + 1
           /\ in[k] \in Seq(Message \cup {ServerConnect}) /\ out[k] \in Seq(Message)
           /\ IsFiniteSet(Mine(k)) /\ Cardinality(Mine(k)) \in Nat
           /\ Mine(k) \subseteq Request
           /\ MaxReq \in Nat
<1>1. k \in Chan
  BY Chans
<1>2. /\ in[k] \in Seq(Message \cup {ServerConnect}) /\ out[k] \in Seq(Message)
      /\ asked[k] \in Nat /\ got[k] \in Nat
  BY <1>1 DEF ChanInv, ConnTypeOK
<1>3. Len(in[k]) \in Nat /\ Len(out[k]) \in Nat
  BY <1>2, LenProperties
<1>4. Len(in[k]) <= asked[k] + 1
  BY DEF ChanInv, ClientCount
<1>5. NextRead(k) \in Nat /\ NextRead(k) <= asked[k] + 1
  BY <1>2, <1>3, <1>4 DEF NextRead
<1>6. Mine(k) \in SUBSET Request
  BY DEF Mine, ChanInv, InfosOfClients
<1>7. IsFiniteSet(Mine(k))
  BY <1>6, ChanFinite, FS_Subset
<1>8. Cardinality(Mine(k)) \in Nat
  BY <1>7, FS_CardinalityType
<1> QED
  BY <1>1, <1>2, <1>3, <1>5, <1>6, <1>7, <1>8 DEF ConnAssumption

\* A client that the router waits for an answer to has not got all it asked for.
LEMMA AskerWaits ==
    ASSUME ConnAssumption, ChanInv, NEW k \in Client, Mine(k) # {}
    PROVE  Outstanding(k) /\ asked[k] # 0
<1>1. PICK n \in Nat, a \in Nat, g \in Nat, o \in Nat, M \in SUBSET Request :
         n = NextRead(k) /\ a = asked[k] /\ g = got[k] /\ o = Len(out[k]) /\ M = Mine(k)
  BY CountTypes
<1>2. PICK x \in Nat : x = Cardinality(M)
  BY <1>1, CountTypes
<1>3. x + o + g <= IF n = 0 THEN 0 ELSE n - 1
  BY <1>1, <1>2 DEF ChanInv, ClientCount
<1>4. n <= a + 1
  BY <1>1, CountTypes
<1>5. x # 0
  BY <1>1, <1>2, CountTypes, FS_EmptySet
<1>6. g < a
  BY <1>3, <1>4, <1>5
<1> QED
  BY <1>1, <1>6 DEF Outstanding

-----------------------------------------------------------------------------
(* The steps of the processes.                                             *)

\* A server connects: it has said nothing, and if the router has seen the end of all
\* that were there before, it was not started too early.
LEMMA ServerConnects ==
    ASSUME ConnAssumption, ChanInv, NEW c \in ServerChan, Connect(c)
    PROVE  ServerInv'
<1>1. /\ peer' = [peer EXCEPT ![c] = "up"] /\ backlog' = backlog \cup {c}
      /\ in' = [in EXCEPT ![c] = <<IF c \in Client THEN Create(c) ELSE ServerConnect>>]
      /\ UNCHANGED <<out, fd, localMap>>
      /\ peer[c] = "none" /\ c \in Chan /\ c \notin Client
      /\ early' = IF Before(c) \cap (Open \cup backlog) # {} THEN early \cup {c} ELSE early
      /\ \A d \in Before(c) : peer[d] = "dead"
  BY Chans DEF Connect, router
<1>2. /\ ConnTypeOK /\ fd[c] = 0 /\ out[c] = Empty /\ c \notin backlog
      /\ \A d \in ServerChan : NamedFirst(d) /\ d \in Chan
  BY <1>1, Chans DEF ChanInv, ServerInv, Process
<1>3. \A d \in Chan : d # c => peer'[d] = peer[d] /\ in'[d] = in[d] /\ (Named(d)' <=> Named(d))
  BY <1>1, <1>2 DEF ConnTypeOK, Named
<1>4. peer'[c] = "up" /\ in'[c] = <<ServerConnect>> /\ ~ Named(c)' /\ ~ Named(c)
  <2>1. peer'[c] = "up" /\ in'[c] = <<ServerConnect>>
    BY <1>1, <1>2 DEF ConnTypeOK
  <2>2. PICK q : q = <<ServerConnect>>
    OBVIOUS
  <2>3. 1 \in DOMAIN q /\ q[1] = ServerConnect
    BY <2>2
  <2> QED
    BY <1>1, <2>1, <2>2, <2>3 DEF Named, Messages
<1>5. \A d \in ServerChan : d[1] = c[1] /\ d[2] < c[2] => d \in Before(c)
  BY <1>2 DEF Before
<1>6. InTurn'
  <2> SUFFICES ASSUME NEW x \in ServerChan, NEW d \in ServerChan, x[1] = d[1], d[2] < x[2],
                      peer'[x] # "none"
               PROVE  peer'[d] = "dead"
    BY DEF InTurn
  <2>1. x \in Chan /\ d \in Chan /\ d # x
    BY Chans
  <2>2. CASE x = c
    BY <1>1, <1>3, <1>5, <2>1, <2>2
  <2>3. CASE x # c
    <3>1. peer[d] = "dead"
      BY <1>3, <2>1, <2>3 DEF ChanInv, ServerInv, InTurn
    <3> QED
      BY <1>1, <1>3, <2>1, <3>1
  <2> QED
    BY <2>2, <2>3
<1>7. NotEarly'
  <2> SUFFICES ASSUME NEW x \in ServerChan, NEW d \in ServerChan, x[1] = d[1], d[2] < x[2],
                      peer'[x] # "none", x \notin early'
               PROVE  fd'[d] = 0 /\ d \notin backlog'
    BY DEF NotEarly
  <2>1. x \in Chan /\ d \in Chan /\ d # x
    BY Chans
  <2>2. CASE x = c
    <3>1. d \notin Open \cup backlog
      BY <1>1, <1>5, <2>2
    <3> QED
      BY <1>1, <2>1, <2>2, <3>1 DEF Open
  <2>3. CASE x # c
    <3>1. peer[x] # "none" /\ x \notin early
      BY <1>1, <1>3, <2>1, <2>3
    <3>2. fd[d] = 0 /\ d \notin backlog /\ peer[d] = "dead"
      BY <3>1 DEF ChanInv, ServerInv, NotEarly, InTurn
    <3> QED
      BY <1>1, <3>2
  <2> QED
    BY <2>2, <2>3
<1>8. MapLive'
  <2> SUFFICES ASSUME NEW s \in ServerId, NEW d, d = localMap[s], d # NoChan
               PROVE  d \in Chan /\ d[1] = s /\ Named(d)' /\ (s = 0 => fd[d] # 0)
    BY <1>1, Zenon DEF MapLive, Named
  <2>1. d \in Chan /\ d[1] = s /\ Named(d) /\ (s = 0 => fd[d] # 0)
    BY DEF ChanInv, ServerInv, MapLive
  <2> QED
    BY <1>3, <1>4, <2>1
<1>9. EntryPresent'
  <2> SUFFICES ASSUME NEW x \in ServerChan, fd[x] # 0, Named(x)', x \notin early',
                      \A d \in Chan : x \in Before(d) => ~ Named(d)'
               PROVE  \/ localMap[x[1]] = x
                      \/ x[1] = 0 /\ \E d \in Chan \ Client : d[1] # 0 /\ Gone(d)'
    BY <1>1 DEF EntryPresent, Open, ServerChan
  <2>1. x # c /\ x \in Chan /\ Named(x) /\ x \notin early
    BY <1>1, <1>2, <1>3, <1>4, Chans
  <2>2. \A d \in Chan : x \in Before(d) => ~ Named(d)
    BY <1>3, <1>4
  <2>3. \/ localMap[x[1]] = x
        \/ x[1] = 0 /\ \E d \in Chan \ Client : d[1] # 0 /\ Gone(d)
    BY <2>1, <2>2 DEF ChanInv, ServerInv, EntryPresent, Open, ServerChan
  <2>4. \A d \in Chan : Gone(d) => Gone(d)'
    BY <1>1, <1>3 DEF Gone, Open
  <2> QED
    BY <2>3, <2>4
<1>10. \A d \in ServerChan : NamedFirst(d)'
  <2>1. NamedFirst(c)'
    BY <1>1, <1>2, <1>4 DEF NamedFirst
  <2>2. ASSUME NEW d \in ServerChan, d # c
        PROVE  NamedFirst(d)'
    BY <1>1, <1>2, <1>3, <2>2 DEF NamedFirst
  <2> QED
    BY <2>1, <2>2
<1> QED
  BY <1>6, <1>7, <1>8, <1>9, <1>10 DEF ServerInv

LEMMA ConnectStep ==
    ASSUME ConnAssumption, ChanInv, NEW c \in Chan, Connect(c)
    PROVE  ChanInv'
<1>1. /\ peer' = [peer EXCEPT ![c] = "up"] /\ backlog' = backlog \cup {c}
      /\ in' = [in EXCEPT ![c] = <<IF c \in Client THEN Create(c) ELSE ServerConnect>>]
      /\ UNCHANGED <<out, fd, localMap, pending, infos, asked, got, taken>>
      /\ peer[c] = "none"
  BY DEF Connect, router
<1>2. ConnTypeOK
  BY DEF ChanInv
<1>3. c \notin backlog /\ fd[c] = 0 /\ in[c] = Empty /\ out[c] = Empty
  BY <1>1 DEF ChanInv, Process
<1>4. \A d \in Chan : d # c => peer'[d] = peer[d] /\ in'[d] = in[d]
  BY <1>1, <1>2 DEF ConnTypeOK
<1>5. /\ peer'[c] = "up"
      /\ in'[c] = <<IF c \in Client THEN Create(c) ELSE ServerConnect>>
  BY <1>1, <1>2 DEF ConnTypeOK
<1>6. ConnTypeOK'
  <2>1. peer' \in [Chan -> {"none", "up", "dead"}]
    BY <1>1, <1>2 DEF ConnTypeOK
  <2>2. <<IF c \in Client THEN Create(c) ELSE ServerConnect>>
           \in Seq(Message \cup {ServerConnect})
    BY MessageKinds
  <2>3. in' \in [Chan -> Seq(Message \cup {ServerConnect})]
    BY <1>1, <1>2, <2>2 DEF ConnTypeOK
  <2> QED
    BY <1>1, <1>2, <2>1, <2>3 DEF ConnTypeOK
<1>7. \A d \in Chan : Process(d)'
  <2>1. Process(c)'
    BY <1>1, <1>3, <1>5 DEF Process
  <2>2. ASSUME NEW d \in Chan, d # c
        PROVE  Process(d)'
    BY <1>1, <1>4, <2>2, SameProcess DEF ChanInv
  <2> QED
    BY <2>1, <2>2
<1>8. ServerInv'
  <2>1. CASE c \in ServerChan
    BY <2>1, ServerConnects
  <2>2. CASE c \in Client
    <3>1. early' = early
      BY <2>2 DEF Connect
    <3>2. \A d \in ServerChan : StillServer(d)
      BY <1>1, <1>4, <2>2, Chans DEF StillServer
    <3> QED
      BY <1>1, <3>1, <3>2, StillServers
  <2> QED
    BY <2>1, <2>2, Chans
<1>9. InfosOfClients' /\ SrcLive' /\ \A k \in Client : Mine(k)' = Mine(k)
  <2>1. \A k \in Client :
           /\ fd[k] # 0 => fd'[k] # 0
           /\ peer[k] = "dead" => peer'[k] = "dead" /\ asked'[k] = asked[k] /\ got'[k] = got[k]
    BY <1>1, <1>4, Chans
  <2>2. \A k \in Client : Gone(k) /\ Outstanding(k) => Gone(k)' /\ Outstanding(k)'
    BY <1>1, <1>4, Chans DEF Gone, Open, Outstanding
  <2>3. InfosOfClients' /\ SrcLive'
    BY <1>1, <2>1, <2>2, FewerInfos
  <2> QED
    BY <1>1, <2>3 DEF Mine
<1>10. \A k \in Client : ClientCount(k)'
  <2>1. ASSUME c \in Client
        PROVE  ClientCount(c)'
    <3>1. asked[c] = 0 /\ got[c] = 0
      BY <1>1, <2>1 DEF ChanInv, ClientCount
    <3>2. Mine(c) = {}
      BY <2>1, <3>1, AskerWaits
    <3>3. in'[c] = <<<<c, 0>>>> /\ Len(in'[c]) = 1 /\ in'[c][1] = <<c, 0>>
      BY <1>5, <2>1 DEF Create
    <3>4. asked'[c] = 0 /\ got'[c] = 0 /\ out'[c] = Empty /\ NextRead(c)' = 0
      BY <1>1, <1>3, <3>1, <3>3 DEF NextRead
    <3>5. \A i \in 1 .. Len(in'[c]) : in'[c][i] = <<c, NextRead(c)' + i - 1>>
      BY <3>3, <3>4
    <3>6. Cardinality(Mine(c)') = 0 /\ Len(out'[c]) = 0 /\ Mine(c)' = {}
      BY <1>9, <2>1, <3>2, <3>4, FS_EmptySet DEF Empty
    <3>7. /\ asked'[c] <= MaxReq /\ Len(in'[c]) <= asked'[c] + 1 /\ peer'[c] # "none"
      BY <1>5, <3>3, <3>4 DEF ConnAssumption
    <3>8. \A r \in Mine(c)' : r[2] < NextRead(c)'
      BY <3>6
    <3>9. Cardinality(Mine(c)') + Len(out'[c]) + got'[c] = 0
      BY <3>4, <3>6
    <3> QED
      BY <3>4, <3>5, <3>7, <3>8, <3>9 DEF ClientCount
  <2>2. ASSUME NEW k \in Client, k # c
        PROVE  ClientCount(k)'
    BY <1>1, <1>4, <1>9, <2>2, SameClient, Chans DEF ChanInv
  <2> QED
    BY <2>1, <2>2
<1> QED
  BY <1>6, <1>7, <1>8, <1>9, <1>10 DEF ChanInv

LEMMA LeaveStep ==
    ASSUME ConnAssumption, ChanInv, NEW c \in Chan, Leave(c)
    PROVE  ChanInv'
<1>1. /\ peer' = [peer EXCEPT ![c] = "dead"] /\ out' = [out EXCEPT ![c] = <<>>]
      /\ UNCHANGED <<backlog, in, fd, localMap, pending, infos, asked, got, taken, early>>
      /\ peer[c] = "up"
  BY DEF Leave, End, router
<1>2. ConnTypeOK
  BY DEF ChanInv
<1>3. \A d \in Chan : d # c => peer'[d] = peer[d] /\ out'[d] = out[d]
  BY <1>1, <1>2 DEF ConnTypeOK
<1>4. peer'[c] = "dead" /\ out'[c] = Empty
  BY <1>1, <1>2 DEF ConnTypeOK, Empty
<1>5. ConnTypeOK'
  BY <1>1, <1>2 DEF ConnTypeOK
<1>6. \A d \in Chan : Process(d)'
  <2>1. Process(c)'
    BY <1>1, <1>4 DEF ChanInv, Process
  <2>2. ASSUME NEW d \in Chan, d # c
        PROVE  Process(d)'
    BY <1>1, <1>3, <2>2, SameProcess DEF ChanInv
  <2> QED
    BY <2>1, <2>2
<1>7. ServerInv'
  <2>1. \A d \in ServerChan : SameServer(d)
    BY <1>1, <1>3, <1>4, Chans DEF SameServer, Named
  <2> QED
    BY <1>1, <2>1, SameServers
<1>8. InfosOfClients' /\ SrcLive' /\ \A k \in Client : Mine(k)' = Mine(k)
  BY <1>1, <1>3, <1>4, SameInfos, Chans
<1>9. \A k \in Client : ClientCount(k)'
  <2>1. ASSUME c \in Client
        PROVE  ClientCount(c)'
    <3>1. PICK x \in Nat, n \in Nat, g \in Nat :
             x = Cardinality(Mine(c)) /\ n = Len(out[c]) /\ g = got[c]
      BY <2>1, CountTypes
    <3>2. Len(out'[c]) = 0 /\ Mine(c)' = Mine(c) /\ NextRead(c)' = NextRead(c)
      BY <1>1, <1>4, <1>8, <2>1 DEF Empty, NextRead
    <3>3. PICK l : l = IF NextRead(c) = 0 THEN 0 ELSE NextRead(c) - 1
      OBVIOUS
    <3>4. l \in Nat
      BY <2>1, <3>3, CountTypes
    <3>5. x + n + g <= l
      BY <2>1, <3>1, <3>3 DEF ChanInv, ClientCount
    <3>6. x + 0 + g <= l
      BY <3>4, <3>5
    <3>7. Cardinality(Mine(c)') + Len(out'[c]) + got'[c]
            <= IF NextRead(c)' = 0 THEN 0 ELSE NextRead(c)' - 1
      BY <1>1, <3>1, <3>2, <3>3, <3>6
    <3> QED
      BY <1>1, <1>4, <2>1, <3>2, <3>7 DEF ChanInv, ClientCount
  <2>2. ASSUME NEW k \in Client, k # c
        PROVE  ClientCount(k)'
    BY <1>1, <1>3, <1>8, <2>2, SameClient, Chans DEF ChanInv
  <2> QED
    BY <2>1, <2>2
<1> QED
  BY <1>5, <1>6, <1>7, <1>8, <1>9 DEF ChanInv

LEMMA ServerTakeStep ==
    ASSUME ConnAssumption, ChanInv, NEW c \in Chan, ServerTake(c)
    PROVE  ChanInv'
<1>1. /\ UNCHANGED <<backlog, fd, localMap, pending, infos, asked, got, early>>
      /\ c \in ServerChan /\ out[c] # Empty /\ peer[c] = "up"
      /\ taken' = [taken EXCEPT ![c[1]] = Append(@, Head(out[c]))]
  BY DEF ServerTake, router, ServerChan, Empty
<1>2. ConnTypeOK
  BY DEF ChanInv
<1>3. Named(c) /\ c[1] \in ServerId /\ c \notin Client /\ c \notin backlog
  BY <1>1, MapNamed, Chans DEF ChanInv, ServerInv, NamedFirst
<1>4. /\ Head(out[c]) \in Message /\ Tail(out[c]) \in Seq(Message)
      /\ taken[c[1]] \in Seq(Message) /\ in[c] \in Seq(Message \cup {ServerConnect})
  <2>1. out[c] \in Seq(Message)
    BY <1>2 DEF ConnTypeOK
  <2> QED
    BY <1>1, <1>2, <1>3, <2>1, MessagesTail DEF ConnTypeOK
<1>5. taken' \in [ServerId -> Seq(Message)]
  <2>1. Append(taken[c[1]], Head(out[c])) \in Seq(Message)
    BY <1>4, AppendProperties
  <2> QED
    BY <1>1, <1>2, <2>1 DEF ConnTypeOK
<1>6. /\ peer' \in [Chan -> {"none", "up", "dead"}] /\ peer'[c] \in {"up", "dead"}
      /\ out' \in [Chan -> Seq(Message)]
      /\ in' \in [Chan -> Seq(Message \cup {ServerConnect})]
      /\ peer'[c] = "dead" => out'[c] = Empty
      /\ \A d \in Chan : d # c => peer'[d] = peer[d] /\ in'[d] = in[d] /\ out'[d] = out[d]
      /\ in'[c] = in[c] \/ in'[c] = Append(in[c], Head(out[c]))
  <2>1. CASE End(c) /\ UNCHANGED in
    BY <1>2, <2>1 DEF ConnTypeOK, End, Empty
  <2>2. CASE /\ out' = [out EXCEPT ![c] = Tail(@)]
             /\ in' = IF Head(out[c]) \in Request THEN [in EXCEPT ![c] = Append(@, Head(out[c]))]
                                                  ELSE in
             /\ UNCHANGED peer
    <3>1. Append(in[c], Head(out[c])) \in Seq(Message \cup {ServerConnect})
      BY <1>4, AppendProperties
    <3>2. in' \in [Chan -> Seq(Message \cup {ServerConnect})]
          /\ (in'[c] = in[c] \/ in'[c] = Append(in[c], Head(out[c])))
          /\ \A d \in Chan : d # c => in'[d] = in[d]
      BY <1>2, <2>2, <3>1 DEF ConnTypeOK
    <3>3. out' \in [Chan -> Seq(Message)] /\ \A d \in Chan : d # c => out'[d] = out[d]
      BY <1>2, <1>4, <2>2 DEF ConnTypeOK
    <3> QED
      BY <1>1, <1>2, <2>2, <3>2, <3>3 DEF ConnTypeOK
  <2> QED
    BY <2>1, <2>2 DEF ServerTake
<1>7. ConnTypeOK'
  BY <1>1, <1>2, <1>5, <1>6 DEF ConnTypeOK
<1>8. \A d \in Chan : Process(d)'
  <2>1. Process(c)'
    BY <1>1, <1>3, <1>6 DEF Process
  <2>2. ASSUME NEW d \in Chan, d # c
        PROVE  Process(d)'
    BY <1>1, <1>6, <2>2, SameProcess DEF ChanInv
  <2> QED
    BY <2>1, <2>2
<1>9. ServerInv'
  <2>1. Named(c)'
    <3>1. Messages(in'[c]) \subseteq Messages(in[c]) \cup {Head(out[c])}
      <4>1. Messages(Append(in[c], Head(out[c]))) = Messages(in[c]) \cup {Head(out[c])}
        BY <1>4, MessagesAppend
      <4> QED
        BY <1>6, <4>1
    <3>2. Head(out[c]) # ServerConnect
      BY <1>4, MessageKinds
    <3> QED
      BY <1>3, <1>6, <3>1, <3>2 DEF Named
  <2>2. SameServer(c)
    BY <1>1, <1>3, <1>6, <2>1 DEF SameServer
  <2>3. ASSUME NEW d \in ServerChan, d # c
        PROVE  SameServer(d)
    BY <1>1, <1>6, <2>3, Chans DEF SameServer, Named
  <2> QED
    BY <1>1, <2>2, <2>3, SameServers
<1>10. InfosOfClients' /\ SrcLive' /\ \A k \in Client : Mine(k)' = Mine(k)
  BY <1>1, <1>3, <1>6, SameInfos, Chans
<1>11. \A k \in Client : ClientCount(k)'
  BY <1>1, <1>3, <1>6, <1>10, SameClient, Chans DEF ChanInv
<1> QED
  BY <1>7, <1>8, <1>9, <1>10, <1>11 DEF ChanInv

LEMMA ClientTakeStep ==
    ASSUME ConnAssumption, ChanInv, NEW c \in Client, ClientTake(c)
    PROVE  ChanInv'
<1>1. /\ UNCHANGED <<peer, backlog, in, fd, localMap, pending, infos, asked, taken, early>>
      /\ out[c] # Empty /\ peer[c] = "up"
      /\ out' = [out EXCEPT ![c] = Tail(@)]
      /\ got' = [got EXCEPT ![c] = @ + 1]
  BY DEF ClientTake, router, Empty
<1>2. ConnTypeOK /\ c \in Chan /\ c \notin ServerChan
  BY Chans DEF ChanInv
<1>3. Tail(out[c]) \in Seq(Message) /\ Len(Tail(out[c])) = Len(out[c]) - 1
  BY <1>1, <1>2, MessagesTail DEF ConnTypeOK
<1>4. /\ \A d \in Chan : d # c => out'[d] = out[d]
      /\ \A k \in Client : k # c => got'[k] = got[k]
      /\ out'[c] = Tail(out[c]) /\ got'[c] = got[c] + 1
  BY <1>1, <1>2 DEF ConnTypeOK
<1>5. ConnTypeOK'
  BY <1>1, <1>2, <1>3 DEF ConnTypeOK
<1>6. \A d \in Chan : Process(d)'
  <2>1. Process(c)'
    BY <1>1, <1>2 DEF ChanInv, Process
  <2>2. ASSUME NEW d \in Chan, d # c
        PROVE  Process(d)'
    BY <1>1, <1>4, <2>2, SameProcess DEF ChanInv
  <2> QED
    BY <2>1, <2>2
<1>7. ServerInv'
  <2>1. \A d \in ServerChan : StillServer(d)
    BY <1>1, <1>2, <1>4, Chans DEF StillServer
  <2> QED
    BY <1>1, <2>1, StillServers
<1>8. InfosOfClients' /\ SrcLive' /\ \A k \in Client : Mine(k)' = Mine(k)
  BY <1>1, <1>4, SameInfos
<1>9. \A k \in Client : ClientCount(k)'
  <2>1. ClientCount(c)'
    <3>1. NextRead(c)' = NextRead(c)
      BY <1>1 DEF NextRead
    <3>2. Cardinality(Mine(c)') + Len(out'[c]) + got'[c]
            = Cardinality(Mine(c)) + Len(out[c]) + got[c]
      <4>1. PICK x \in Nat, n \in Nat, g \in Nat :
                x = Cardinality(Mine(c)) /\ n = Len(out[c]) /\ g = got[c]
        BY CountTypes
      <4>2. Cardinality(Mine(c)') = x /\ Len(out'[c]) = n - 1 /\ got'[c] = g + 1
        <5>1. Len(out'[c]) = n - 1
          BY <1>3, <1>4, <4>1
        <5>2. Mine(c)' = Mine(c)
          BY <1>8
        <5> QED
          BY <1>4, <4>1, <5>1, <5>2
      <4>3. Cardinality(Mine(c)') + Len(out'[c]) + got'[c] = x + (n - 1) + (g + 1)
        BY <4>2, Zenon
      <4>4. Cardinality(Mine(c)) + Len(out[c]) + got[c] = x + n + g
        BY <4>1, Zenon
      <4> QED
        BY <4>3, <4>4
    <3> QED
      BY <1>1, <1>8, <3>1, <3>2 DEF ChanInv, ClientCount
  <2>2. ASSUME NEW k \in Client, k # c
        PROVE  ClientCount(k)'
    BY <1>1, <1>4, <1>8, <2>2, SameClient, Chans DEF ChanInv
  <2> QED
    BY <2>1, <2>2
<1> QED
  BY <1>5, <1>6, <1>7, <1>8, <1>9 DEF ChanInv

LEMMA ClientAsksStep ==
    ASSUME ConnAssumption, ChanInv, NEW c \in Client, ClientAsks(c)
    PROVE  ChanInv'
<1>1. /\ UNCHANGED <<peer, backlog, out, fd, localMap, pending, infos, got, taken, early>>
      /\ peer[c] = "up" /\ asked[c] < MaxReq
      /\ asked' = [asked EXCEPT ![c] = @ + 1]
      /\ in' = [in EXCEPT ![c] = Append(@, <<c, asked[c] + 1>>)]
  BY DEF ClientAsks, router
<1>2. ConnTypeOK /\ c \in Chan /\ c \notin ServerChan
  BY Chans DEF ChanInv
<1>3. PICK a \in Nat, n \in Nat, q \in Seq(Message \cup {ServerConnect}) :
         a = asked[c] /\ q = in[c] /\ n = Len(q)
  BY CountTypes
<1>4. <<c, a + 1>> \in Message
  BY <1>3 DEF Message
<1>5. /\ Append(q, <<c, a + 1>>) \in Seq(Message \cup {ServerConnect})
      /\ Len(Append(q, <<c, a + 1>>)) = n + 1
      /\ \A i \in 1 .. n : Append(q, <<c, a + 1>>)[i] = q[i]
      /\ Append(q, <<c, a + 1>>)[n + 1] = <<c, a + 1>>
  BY <1>3, <1>4, AppendProperties
<1>6. /\ \A d \in Chan : d # c => in'[d] = in[d]
      /\ \A k \in Client : k # c => asked'[k] = asked[k]
      /\ in'[c] = Append(q, <<c, a + 1>>) /\ asked'[c] = a + 1
  BY <1>1, <1>2, <1>3 DEF ConnTypeOK
<1>7. ConnTypeOK'
  <2>1. asked' \in [Client -> Nat]
    BY <1>1, <1>2 DEF ConnTypeOK
  <2>2. in' \in [Chan -> Seq(Message \cup {ServerConnect})]
    BY <1>1, <1>2, <1>3, <1>5 DEF ConnTypeOK
  <2> QED
    BY <1>1, <1>2, <2>1, <2>2 DEF ConnTypeOK
<1>8. \A d \in Chan : Process(d)'
  <2>1. Process(c)'
    BY <1>1, <1>2 DEF ChanInv, Process
  <2>2. ASSUME NEW d \in Chan, d # c
        PROVE  Process(d)'
    BY <1>1, <1>6, <2>2, SameProcess DEF ChanInv
  <2> QED
    BY <2>1, <2>2
<1>9. ServerInv'
  <2>1. \A d \in ServerChan : StillServer(d)
    BY <1>1, <1>2, <1>6, Chans DEF StillServer
  <2> QED
    BY <1>1, <2>1, StillServers
<1>10. InfosOfClients' /\ SrcLive' /\ \A k \in Client : Mine(k)' = Mine(k)
  BY <1>1, <1>6, SameInfos
<1>11. \A k \in Client : ClientCount(k)'
  <2>1. ClientCount(c)'
    <3>1. NextRead(c) = a + 1 - n /\ n <= a + 1
      BY <1>3 DEF ChanInv, ClientCount, NextRead
    <3>2. Len(in'[c]) = n + 1 /\ NextRead(c)' = NextRead(c)
      <4>1. Len(in'[c]) = n + 1
        BY <1>5, <1>6
      <4>2. NextRead(c)' = (a + 1) + 1 - (n + 1)
        BY <1>6, <4>1 DEF NextRead
      <4> QED
        BY <3>1, <4>1, <4>2
    <3>3. \A i \in 1 .. n + 1 : in'[c][i] = <<c, NextRead(c) + i - 1>>
      <4>1. \A i \in 1 .. n : q[i] = <<c, NextRead(c) + i - 1>>
        BY <1>3 DEF ChanInv, ClientCount
      <4>2. NextRead(c) + (n + 1) - 1 = a + 1
        BY <3>1
      <4>3. \A i \in 1 .. n + 1 : i \in 1 .. n \/ i = n + 1
        OBVIOUS
      <4> QED
        BY <1>5, <1>6, <4>1, <4>2, <4>3
    <3>4. asked'[c] <= MaxReq /\ Len(in'[c]) <= asked'[c] + 1
      BY <1>1, <1>3, <1>6, <3>1, <3>2 DEF ConnAssumption
    <3> QED
      BY <1>1, <1>10, <3>2, <3>3, <3>4 DEF ChanInv, ClientCount
  <2>2. ASSUME NEW k \in Client, k # c
        PROVE  ClientCount(k)'
    BY <1>1, <1>6, <1>10, <2>2, SameClient, Chans DEF ChanInv
  <2> QED
    BY <2>1, <2>2
<1> QED
  BY <1>7, <1>8, <1>9, <1>10, <1>11 DEF ChanInv

-----------------------------------------------------------------------------
(* The steps of the router.                                                *)
LEMMA AcceptStep ==
    ASSUME ConnAssumption, ChanInv, NEW c \in Chan, Accept(c)
    PROVE  ChanInv'
<1>1. /\ UNCHANGED <<peer, in, out, localMap, pending, infos, asked, got, taken, early>>
      /\ c \in backlog /\ backlog' = backlog \ {c}
  BY DEF Accept
<1>2. ConnTypeOK /\ fd[c] = 0
  BY <1>1 DEF ChanInv, Process
<1>3. PICK f : f = Min((1 .. Cardinality(Chan)) \ {fd[d] : d \in Open})
  OBVIOUS
<1>4. f \in Nat \ {0}
  BY <1>2, <1>3, FreeDescriptor
<1>5. fd' = [fd EXCEPT ![c] = f]
  BY <1>3 DEF Accept
<1>6. fd'[c] = f /\ \A d \in Chan : d # c => fd'[d] = fd[d]
  BY <1>2, <1>5 DEF ConnTypeOK
<1>7. ConnTypeOK'
  BY <1>1, <1>2, <1>4, <1>5 DEF ConnTypeOK
<1>8. \A d \in Chan : Process(d)'
  <2>1. Process(c)'
    BY <1>1, <1>6 DEF ChanInv, Process
  <2>2. ASSUME NEW d \in Chan, d # c
        PROVE  Process(d)'
    BY <1>1, <1>6, <2>2, SameProcess DEF ChanInv
  <2> QED
    BY <2>1, <2>2
<1>9. \A d \in Chan : fd[d] # 0 => fd'[d] # 0
  BY <1>4, <1>6
<1>10. ServerInv'
  <2>1. \A d \in ServerChan : SameServer(d)
    BY <1>1, <1>6, <1>9, Chans DEF SameServer, Named
  <2> QED
    BY <1>1, <2>1, SameServers
<1>11. InfosOfClients' /\ SrcLive' /\ \A k \in Client : Mine(k)' = Mine(k)
  BY <1>1, <1>6, <1>9, SameInfos, Chans
<1>12. \A k \in Client : ClientCount(k)'
  BY <1>1, <1>11, SameClient, Chans DEF ChanInv
<1> QED
  BY <1>7, <1>8, <1>10, <1>11, <1>12 DEF ChanInv

\* What the router reads next.
LEMMA ReadFacts ==
    ASSUME ConnAssumption, ChanInv, NEW c \in Chan, ReadEvent(c)
    PROVE  /\ fd[c] # 0 /\ c \notin backlog /\ in[c] # Empty /\ peer[c] # "none"
           /\ Head(in[c]) \in Message \cup {ServerConnect}
           /\ in' \in [Chan -> Seq(Message \cup {ServerConnect})]
           /\ in'[c] = Tail(in[c]) /\ \A d \in Chan : d # c => in'[d] = in[d]
           /\ UNCHANGED <<peer, backlog, asked, got, taken, fd, early>>
<1>1. /\ fd[c] # 0 /\ in[c] # Empty
      /\ UNCHANGED <<peer, backlog, asked, got, taken, early>>
      /\ in' = [in EXCEPT ![c] = Tail(@)]
  BY DEF ReadEvent, Selected, Ready, Open, Empty
<1>2. c \notin backlog /\ peer[c] # "none"
  BY <1>1 DEF ChanInv, Process
<1>3. in \in [Chan -> Seq(Message \cup {ServerConnect})]
  BY DEF ChanInv, ConnTypeOK
<1>4. Head(in[c]) \in Message \cup {ServerConnect}
      /\ Tail(in[c]) \in Seq(Message \cup {ServerConnect})
  <2>1. in[c] \in Seq(Message \cup {ServerConnect})
    BY <1>3
  <2> QED
    BY <1>1, <2>1, MessagesTail
<1>5. fd' = fd
  BY DEF ReadEvent, ConnectEvent, ClientEvent, AnswerEvent
<1> QED
  BY <1>1, <1>2, <1>3, <1>4, <1>5

\* A client's next message has the next number.
LEMMA ClientReads ==
    ASSUME ConnAssumption, ChanInv, NEW c \in Client, in[c] # Empty
    PROVE  /\ Head(in[c]) = <<c, NextRead(c)>> /\ NextRead(c) \in 0 .. MaxReq
           /\ Head(in[c]) \in Message /\ Head(in[c]) # ServerConnect
           /\ \A r \in Mine(c) : r[2] < NextRead(c)
<1>1. PICK a \in Nat, n \in Nat, q \in Seq(Message \cup {ServerConnect}) :
         a = asked[c] /\ q = in[c] /\ n = Len(q)
  BY CountTypes
<1>2. n > 0 /\ Head(q) = q[1]
  BY <1>1, MessagesTail
<1>3. NextRead(c) = a + 1 - n /\ n <= a + 1 /\ a <= MaxReq /\ MaxReq \in Nat
  BY <1>1 DEF ChanInv, ClientCount, NextRead, ConnAssumption
<1>4. q[1] = <<c, NextRead(c) + 1 - 1>>
  BY <1>1, <1>2 DEF ChanInv, ClientCount
<1>5. NextRead(c) \in 0 .. MaxReq /\ q[1] = <<c, NextRead(c)>>
  BY <1>2, <1>3, <1>4
<1>6. <<c, NextRead(c)>> \in Message
  BY <1>5 DEF Message
<1> QED
  BY <1>1, <1>2, <1>5, <1>6, MessageKinds DEF ChanInv, ClientCount

\* Channels whose queues to the servers may have grown: what is known of them stays.
LEMMA SentProcesses ==
    ASSUME ConnAssumption, ChanInv, NEW c \in Chan, fd[c] # 0,
           UNCHANGED <<peer, backlog>>,
           \A d \in Chan : d # c => in'[d] = in[d],
           \A d \in Chan : fd'[d] # 0 => fd[d] # 0,
           \A d \in Chan : out'[d] = out[d] \/ peer[d] = "up"
    PROVE  \A d \in Chan : Process(d)'
<1>1. \A d \in Chan : fd[d] = 0 => fd'[d] = 0
  OBVIOUS
<1>2. ASSUME NEW d \in Chan
      PROVE  Process(d)'
  <2>1. Process(d)
    BY DEF ChanInv
  <2>2. peer'[d] = peer[d] /\ (d \in backlog' <=> d \in backlog)
    OBVIOUS
  <2>3. d \in backlog => fd'[d] = 0
    BY <1>1, <2>1 DEF Process
  <2>4. peer[d] = "dead" => out'[d] = Empty
    BY <2>1 DEF Process
  <2>5. peer[d] = "none" => d # c /\ out'[d] = Empty /\ fd'[d] = 0 /\ in'[d] = Empty
                            /\ d \notin backlog
    BY <1>1, <2>1 DEF Process
  <2> QED
    BY <2>2, <2>3, <2>4, <2>5 DEF Process
<1> QED
  BY <1>2

\* The name of a server is read: its entry is there, and no other is taken away that
\* has to be there.
LEMMA NameIsRead ==
    ASSUME ConnAssumption, ChanInv, NEW c \in ServerChan, ~ Named(c), fd[c] # 0,
           Named(c)', peer' = peer, backlog' = backlog, fd' = fd, early' = early,
           \A d \in ServerChan : d # c => in'[d] = in[d] /\ out'[d] = out[d],
           localMap' = [localMap EXCEPT ![c[1]] = c]
    PROVE  ServerInv'
<1>1. /\ \A d \in ServerChan : d # c => (Named(d)' <=> Named(d))
      /\ \A d \in ServerChan : Named(d) => Named(d)'
      /\ \A d \in ServerChan : NamedFirst(d)
      /\ c \in Chan /\ c[1] \in ServerId /\ peer[c] # "none"
  BY Chans DEF Named, ChanInv, ServerInv
<1>2. localMap'[c[1]] = c /\ \A s \in ServerId : s # c[1] => localMap'[s] = localMap[s]
  BY <1>1 DEF ChanInv, ConnTypeOK
<1>3. InTurn' /\ NotEarly'
  BY DEF ChanInv, ServerInv, InTurn, NotEarly
<1>4. MapLive'
  <2> SUFFICES ASSUME NEW s \in ServerId, NEW d, d = localMap'[s], d # NoChan
               PROVE  d \in Chan /\ d[1] = s /\ Named(d)' /\ (s = 0 => fd[d] # 0)
    BY Zenon DEF MapLive, Named
  <2>1. CASE s = c[1]
    BY <1>1, <1>2, <2>1
  <2>2. CASE s # c[1]
    <3>1. d \in Chan /\ d[1] = s /\ Named(d) /\ (s = 0 => fd[d] # 0)
      BY <1>2, <2>2 DEF ChanInv, ServerInv, MapLive
    <3>2. d \in ServerChan
      BY <3>1, Chans
    <3> QED
      BY <1>1, <3>1, <3>2
  <2> QED
    BY <2>1, <2>2
<1>5. EntryPresent'
  <2> SUFFICES ASSUME NEW x \in ServerChan, fd[x] # 0, Named(x)', x \notin early,
                      \A d \in Chan : x \in Before(d) => ~ Named(d)'
               PROVE  \/ localMap'[x[1]] = x
                      \/ x[1] = 0 /\ \E d \in Chan \ Client : d[1] # 0 /\ Gone(d)
    BY Zenon DEF EntryPresent, Open, ServerChan, Gone
  <2>1. x \in Chan /\ x[1] \in ServerId
    BY Chans
  <2>2. CASE x = c
    BY <1>2, <2>2
  <2>3. CASE x # c /\ x[1] = c[1]
    <3>1. x[2] \in Nat /\ c[2] \in Nat /\ x[2] # c[2]
      BY <2>3, Chans
    <3>2. CASE x[2] < c[2]
      <4>1. x \in Before(c)
        BY <2>1, <2>3, <3>2 DEF Before
      <4> QED
        BY <1>1, <4>1
    <3>3. CASE c[2] < x[2]
      <4>1. peer[x] # "none"
        BY <1>1, <2>3 DEF Named
      <4>2. fd[c] = 0
        BY <2>3, <3>3, <4>1 DEF ChanInv, ServerInv, NotEarly
      <4> QED
        BY <4>2
    <3> QED
      BY <3>1, <3>2, <3>3
  <2>4. CASE x[1] # c[1]
    <3>1. Named(x) /\ localMap'[x[1]] = localMap[x[1]]
      BY <1>1, <1>2, <2>1, <2>4
    <3>2. \A d \in Chan : x \in Before(d) => ~ Named(d)
      <4> SUFFICES ASSUME NEW d \in Chan, x \in Before(d)
                   PROVE  ~ Named(d)
        OBVIOUS
      <4>1. d \in ServerChan
        <5>1. d[1] = x[1]
          BY DEF Before
        <5> QED
          BY <2>1, <5>1, Chans
      <4> QED
        BY <1>1, <4>1
    <3> QED
      BY <3>1, <3>2 DEF ChanInv, ServerInv, EntryPresent, Open, ServerChan
  <2> QED
    BY <2>2, <2>3, <2>4
<1>6. \A d \in ServerChan : NamedFirst(d)'
  <2>1. NamedFirst(c)'
    <3>1. c \notin backlog
      BY <1>1 DEF ChanInv, Process
    <3> QED
      BY <3>1 DEF NamedFirst
  <2>2. ASSUME NEW d \in ServerChan, d # c
        PROVE  NamedFirst(d)'
    BY <1>1, <2>2 DEF NamedFirst
  <2> QED
    BY <2>1, <2>2
<1> QED
  BY <1>3, <1>4, <1>5, <1>6 DEF ServerInv

\* RtrServerConnectEvent.
LEMMA ServerConnectStep ==
    ASSUME ConnAssumption, ChanInv, NEW c \in Chan, ReadEvent(c), ConnectEvent(c),
           Head(in[c]) = ServerConnect
    PROVE  /\ ChanInv' /\ c \in ServerChan /\ out[c] = Empty
           /\ out' \in [Chan -> Seq(Message)]
           /\ \A d \in Chan :
                 out'[d] = IF d = c /\ peer[c] = "up" THEN pending[c[1]] ELSE out[d]
           /\ localMap' = [localMap EXCEPT ![c[1]] = c]
           /\ pending' = [pending EXCEPT ![c[1]] = Empty]
<1>1. /\ fd[c] # 0 /\ c \notin backlog /\ in[c] # Empty /\ peer[c] # "none"
      /\ in' \in [Chan -> Seq(Message \cup {ServerConnect})]
      /\ in'[c] = Tail(in[c])
      /\ \A d \in Chan : d # c => in'[d] = in[d]
      /\ UNCHANGED <<peer, backlog, asked, got, taken, fd, infos, early>>
  BY ReadFacts DEF ConnectEvent
<1>2. ConnTypeOK
  BY DEF ChanInv
<1>3. c \in ServerChan
  BY <1>1, ClientReads, Chans
<1>4. c[1] \in ServerId /\ NamedFirst(c)
  BY <1>3, Chans DEF ChanInv, ServerInv
<1>5. /\ localMap' = [localMap EXCEPT ![c[1]] = c]
      /\ pending' = [pending EXCEPT ![c[1]] = Empty]
      /\ Write([d \in {c} |-> pending[c[1]]])
  BY DEF ConnectEvent, addServer, Erased, Empty
<1>6. ~ Named(c)
  <2>1. in[c] \in Seq(Message \cup {ServerConnect})
    BY <1>2 DEF ConnTypeOK
  <2>2. ServerConnect \in Messages(in[c])
    BY <1>1, <2>1, MessagesTail
  <2> QED
    BY <2>2 DEF Named
<1>7. in[c] = <<ServerConnect>> /\ out[c] = Empty
  BY <1>1, <1>4, <1>6 DEF NamedFirst
<1>8. Named(c)'
  <2>1. Tail(<<ServerConnect>>) = <<>>
    OBVIOUS
  <2>2. in'[c] = Empty
    BY <1>1, <1>7, <2>1 DEF Empty
  <2> QED
    BY <1>1, <2>2 DEF Named, Messages, Empty
<1>9. /\ out' \in [Chan -> Seq(Message)]
      /\ \A d \in Chan :
            out'[d] = IF d = c /\ peer[c] = "up" THEN pending[c[1]] ELSE out[d]
  <2>1. PICK ws : ws = [d \in {c} |-> pending[c[1]]]
    OBVIOUS
  <2>2. DOMAIN ws = {c} /\ ws[c] = pending[c[1]] /\ ws[c] \in Seq(Message)
    BY <1>2, <1>4, <2>1 DEF ConnTypeOK
  <2>3. /\ out' \in [Chan -> Seq(Message)]
        /\ \A d \in Chan : out'[d] = IF d \in DOMAIN ws /\ peer[d] = "up" THEN out[d] \o ws[d]
                                                                          ELSE out[d]
    BY <1>2, <1>5, <2>1, <2>2, WriteFacts
  <2>4. out[c] \o pending[c[1]] = pending[c[1]]
    <3>1. PICK q \in Seq(Message) : q = pending[c[1]]
      BY <2>2
    <3>2. <<>> \o q = q
      BY ConcatEmptySeq
    <3> QED
      BY <1>7, <3>1, <3>2 DEF Empty
  <2> QED
    BY <2>2, <2>3, <2>4
<1>10. ConnTypeOK'
  <2>1. localMap' \in [ServerId -> Chan \cup {NoChan}]
    BY <1>2, <1>5 DEF ConnTypeOK
  <2>2. pending' \in [ServerId -> Seq(Message)]
    <3>1. Empty \in Seq(Message)
      BY EmptySeq DEF Empty
    <3> QED
      BY <1>2, <1>5, <3>1 DEF ConnTypeOK
  <2> QED
    BY <1>1, <1>2, <1>9, <2>1, <2>2 DEF ConnTypeOK
<1>11. \A d \in Chan : Process(d)'
  BY <1>1, <1>9, SentProcesses
<1>12. ServerInv'
  BY <1>1, <1>3, <1>5, <1>6, <1>8, <1>9, NameIsRead, Chans
<1>13. InfosOfClients' /\ SrcLive' /\ \A k \in Client : Mine(k)' = Mine(k)
  BY <1>1, SameInfos
<1>14. \A k \in Client : ClientCount(k)'
  BY <1>1, <1>3, <1>9, <1>13, SameClient, Chans DEF ChanInv
<1>15. ChanInv'
  BY <1>10, <1>11, <1>12, <1>13, <1>14 DEF ChanInv
<1> QED
  BY <1>3, <1>5, <1>7, <1>9, <1>15, Zenon

\* A request that is read is a new one.
LEMMA Counted ==
    ASSUME ConnAssumption, ChanInv, NEW k \in Client, in[k] # Empty,
           peer'[k] = peer[k], in'[k] = Tail(in[k]), out'[k] = out[k],
           asked'[k] = asked[k], got'[k] = got[k],
           Mine(k)' = IF Head(in[k]) \in Request THEN Mine(k) \cup {Head(in[k])}
                                                 ELSE Mine(k)
    PROVE  ClientCount(k)' /\ NextRead(k)' = NextRead(k) + 1
<1>1. PICK a \in Nat, n \in Nat, g \in Nat, o \in Nat, l \in Nat :
         a = asked[k] /\ n = NextRead(k) /\ g = got[k] /\ o = Len(out[k]) /\ l = Len(in[k])
  BY CountTypes
<1>2. PICK M, m : M = Mine(k) /\ m = Head(in[k])
  OBVIOUS
<1>3. PICK x \in Nat : x = Cardinality(M)
  BY <1>2, CountTypes
<1>4. /\ IsFiniteSet(M) /\ M \subseteq Request
      /\ m = <<k, n>> /\ n \in 0 .. MaxReq /\ m \in Message
      /\ \A r \in M : r[2] < n
      /\ MaxReq \in Nat
  BY <1>1, <1>2, CountTypes, ClientReads
<1>5. /\ n = a + 1 - l /\ l <= a + 1 /\ l > 0 /\ a <= MaxReq
      /\ \A i \in 1 .. l : in[k][i] = <<k, n + i - 1>>
      /\ peer[k] = "none" => a = 0 /\ g = 0
      /\ x + o + g <= IF n = 0 THEN 0 ELSE n - 1
  <2>1. in[k] \in Seq(Message \cup {ServerConnect})
    BY CountTypes
  <2>2. l > 0
    BY <1>1, <2>1, MessagesTail
  <2> QED
    BY <1>1, <1>2, <1>3, <2>2 DEF ChanInv, ClientCount, NextRead
<1>6. /\ Len(in'[k]) = l - 1
      /\ \A i \in 1 .. l - 1 : in'[k][i] = in[k][i + 1]
  <2>1. in[k] \in Seq(Message \cup {ServerConnect})
    BY CountTypes
  <2> QED
    BY <1>1, <2>1, MessagesTail
<1>7. NextRead(k)' = n + 1
  <2>1. NextRead(k)' = a + 1 - (l - 1)
    BY <1>1, <1>6 DEF NextRead
  <2> QED
    BY <1>5, <2>1
<1>8. \A i \in 1 .. l - 1 : in'[k][i] = <<k, (n + 1) + i - 1>>
  <2> SUFFICES ASSUME NEW i \in 1 .. l - 1
               PROVE  in'[k][i] = <<k, (n + 1) + i - 1>>
    OBVIOUS
  <2>1. i + 1 \in 1 .. l /\ n + (i + 1) - 1 = (n + 1) + i - 1
    OBVIOUS
  <2> QED
    BY <1>5, <1>6, <2>1
<1>9. Mine(k)' = IF m \in Request THEN M \cup {m} ELSE M
  BY <1>2
<1>10. PICK y \in Nat : y = Cardinality(Mine(k)') /\ y = IF n = 0 THEN x ELSE x + 1
  <2>1. CASE n = 0
    <3>1. m \notin Request
      BY <1>4, <2>1, MessageKinds
    <3> QED
      BY <1>3, <1>9, <2>1, <3>1
  <2>2. CASE n # 0
    <3>1. m \in Request
      BY <1>4, <2>2, MessageKinds
    <3>2. m \notin M
      BY <1>4
    <3>3. Cardinality(M \cup {m}) = x + 1
      BY <1>3, <1>4, <3>2, FS_AddElement
    <3> QED
      BY <1>9, <2>2, <3>1, <3>3
  <2> QED
    BY <2>1, <2>2
<1>11. y + o + g <= IF n + 1 = 0 THEN 0 ELSE (n + 1) - 1
  <2>1. CASE n = 0
    BY <1>5, <1>10, <2>1
  <2>2. CASE n # 0
    <3>1. x + o + g <= n - 1 /\ y = x + 1
      BY <1>5, <1>10, <2>2
    <3>2. y + o + g <= n
      BY <3>1
    <3> QED
      BY <3>2, <2>2
  <2> QED
    BY <2>1, <2>2
<1>12. \A r \in Mine(k)' : r[2] < n + 1
  <2>1. \A r \in M : r[2] \in Nat
    BY <1>4, MessageKinds
  <2> QED
    BY <1>4, <1>9, <2>1
<1>13. asked'[k] = a /\ got'[k] = g /\ Len(out'[k]) = o /\ l - 1 <= a + 1
  BY <1>1, <1>5
<1>14. /\ asked'[k] <= MaxReq /\ Len(in'[k]) <= asked'[k] + 1
       /\ peer'[k] = "none" => asked'[k] = 0 /\ got'[k] = 0
  BY <1>5, <1>6, <1>13
<1>15. /\ \A i \in 1 .. Len(in'[k]) : in'[k][i] = <<k, NextRead(k)' + i - 1>>
       /\ \A r \in Mine(k)' : r[2] < NextRead(k)'
  BY <1>6, <1>7, <1>8, <1>12
<1>16. Cardinality(Mine(k)') + Len(out'[k]) + got'[k]
         <= IF NextRead(k)' = 0 THEN 0 ELSE NextRead(k)' - 1
  <2>1. Cardinality(Mine(k)') + Len(out'[k]) + got'[k] = y + o + g
    BY <1>10, <1>13, Zenon
  <2> QED
    BY <1>7, <1>11, <2>1
<1>17. ClientCount(k)'
  BY <1>14, <1>15, <1>16 DEF ClientCount
<1> QED
  BY <1>1, <1>7, <1>17

\* RtrCommCreateEvent and RtrCommReqEvent.
LEMMA ClientEventStep ==
    ASSUME ConnAssumption, ChanInv, NEW c \in Client, ReadEvent(c), ClientEvent(Head(in[c]))
    PROVE  ChanInv'
<1>1. /\ fd[c] # 0 /\ c \notin backlog /\ in[c] # Empty /\ peer[c] # "none"
      /\ in' \in [Chan -> Seq(Message \cup {ServerConnect})]
      /\ in'[c] = Tail(in[c])
      /\ \A d \in Chan : d # c => in'[d] = in[d]
      /\ UNCHANGED <<peer, backlog, asked, got, taken, fd, localMap, early>>
  BY ReadFacts, Chans DEF ClientEvent
<1>2. ConnTypeOK /\ MapLive /\ c \in Chan /\ c \notin ServerChan
  BY Chans DEF ChanInv, ServerInv
<1>3. PICK m : m = Head(in[c])
  OBVIOUS
<1>4. /\ m = <<c, NextRead(c)>> /\ m \in Message
      /\ m \in Request => m[1] = c
  BY <1>1, <1>3, ClientReads
<1>5. /\ SendAll(m)
      /\ infos' = IF m \in Request
                  THEN [r \in DOMAIN infos \cup {m} |-> IF r = m THEN ServerId ELSE infos[r]]
                  ELSE infos
  BY <1>3 DEF ClientEvent
<1>6. /\ out' \in [Chan -> Seq(Message)] /\ pending' \in [ServerId -> Seq(Message)]
      /\ \A k \in Client : out'[k] = out[k]
      /\ \A d \in ServerChan :
            out'[d] = IF localMap[d[1]] = d /\ peer[d] = "up" THEN Append(out[d], m)
                                                             ELSE out[d]
  BY <1>2, <1>4, <1>5, SendAllFacts
<1>7. ConnTypeOK'
  BY <1>1, <1>2, <1>6 DEF ConnTypeOK
<1>8. \A d \in Chan : Process(d)'
  <2>1. \A d \in Chan : out'[d] = out[d] \/ peer[d] = "up"
    BY <1>6, Chans
  <2> QED
    BY <1>1, <1>2, <2>1, SentProcesses
<1>9. ServerInv'
  <2>1. \A d \in ServerChan : StillServer(d)
    BY <1>1, <1>2, <1>6, MapNamed, Chans DEF StillServer
  <2> QED
    BY <1>1, <2>1, StillServers
<1>10. DOMAIN infos' = IF m \in Request THEN DOMAIN infos \cup {m} ELSE DOMAIN infos
  BY <1>5
<1>11. InfosOfClients' /\ SrcLive'
  BY <1>1, <1>2, <1>4, <1>10 DEF ChanInv, InfosOfClients, SrcLive, Open, Gone, Outstanding
<1>12. \A k \in Client : ClientCount(k)'
  <2>1. Mine(c)' = IF m \in Request THEN Mine(c) \cup {m} ELSE Mine(c)
    BY <1>4, <1>10 DEF Mine
  <2>2. ClientCount(c)'
    BY <1>1, <1>3, <1>6, <2>1, Counted
  <2>3. ASSUME NEW k \in Client, k # c
        PROVE  ClientCount(k)'
    <3>1. Mine(k)' = Mine(k)
      BY <1>4, <1>10, <2>3 DEF Mine
    <3> QED
      BY <1>1, <1>6, <2>3, <3>1, SameClient, Chans DEF ChanInv
  <2> QED
    BY <2>2, <2>3
<1> QED
  BY <1>7, <1>8, <1>9, <1>11, <1>12 DEF ChanInv

\* The client that the last answer of a request is sent to.
LEMMA Answered ==
    ASSUME ConnAssumption, ChanInv, NEW r \in DOMAIN infos
    PROVE  r \in Request /\ r \in Message /\ r[1] \in Client /\ r \in Mine(r[1])
  BY MessageKinds DEF ChanInv, InfosOfClients, Mine

\* An answer is added to what the client has to read, or the client has ended.
LEMMA AnswerCounted ==
    ASSUME ConnAssumption, ChanInv, NEW k \in Client, NEW r \in Mine(k),
           peer'[k] = peer[k], in'[k] = in[k], asked'[k] = asked[k], got'[k] = got[k],
           out'[k] = out[k] \/ out'[k] = Append(out[k], r),
           Mine(k)' = Mine(k) \ {r}
    PROVE  ClientCount(k)'
<1>1. PICK n \in Nat, x \in Nat, g \in Nat, o \in Nat, M \in {Mine(k)} :
         /\ n = NextRead(k) /\ M = Mine(k) /\ x = Cardinality(M)
         /\ g = got[k] /\ o = Len(out[k])
  BY CountTypes
<1>2. Cardinality(M \ {r}) = x - 1
  BY <1>1, CountTypes, FS_RemoveElement
<1>3. Len(out'[k]) \in {o, o + 1}
  <2>1. r \in Message /\ out[k] \in Seq(Message)
    BY CountTypes, MessageKinds
  <2> QED
    BY <1>1, <2>1, MessagesAppend
<1>4. NextRead(k)' = n
  BY <1>1 DEF NextRead
<1>5. x + o + g <= IF n = 0 THEN 0 ELSE n - 1
  BY <1>1 DEF ChanInv, ClientCount
<1>6. Cardinality(Mine(k)') + Len(out'[k]) + got'[k]
        <= IF NextRead(k)' = 0 THEN 0 ELSE NextRead(k)' - 1
  <2>1. PICK l \in {o, o + 1} : l = Len(out'[k])
    BY <1>3
  <2>2. (x - 1) + l + g <= IF n = 0 THEN 0 ELSE n - 1
    BY <1>5
  <2>3. Cardinality(Mine(k)') = x - 1
    BY <1>1, <1>2
  <2> QED
    BY <1>1, <1>4, <2>1, <2>2, <2>3
<1>7. \A q \in Mine(k)' : q[2] < NextRead(k)'
  BY <1>1, <1>4 DEF ChanInv, ClientCount
<1> QED
  BY <1>1, <1>4, <1>6, <1>7 DEF ChanInv, ClientCount

\* RtrCommRespEvent.
LEMMA AnswerEventStep ==
    ASSUME ConnAssumption, ChanInv, NEW c \in ServerChan, ReadEvent(c),
           Head(in[c]) # ServerConnect, AnswerEvent(c[1], Head(in[c]))
    PROVE  ChanInv' /\ \A d \in ServerChan : out'[d] = out[d]
<1>1. /\ fd[c] # 0 /\ c \notin backlog /\ in[c] # Empty /\ peer[c] # "none"
      /\ in' \in [Chan -> Seq(Message \cup {ServerConnect})]
      /\ in'[c] = Tail(in[c])
      /\ \A d \in Chan : d # c => in'[d] = in[d]
      /\ UNCHANGED <<peer, backlog, asked, got, taken, fd, early, localMap, pending>>
  BY ReadFacts, Chans DEF AnswerEvent
<1>2. ConnTypeOK /\ c \in Chan /\ c \notin Client
  BY Chans DEF ChanInv
<1>3. PICK r : r = Head(in[c])
  OBVIOUS
<1>4. r \in DOMAIN infos
  BY <1>3 DEF AnswerEvent
<1>5. PICK k \in Client : k = r[1] /\ r \in Message /\ r \in Mine(k) /\ k \in Chan
  BY <1>4, Answered, Chans
<1>6. /\ out' \in [Chan -> Seq(Message)]
      /\ \A d \in Chan : d # k => out'[d] = out[d]
      /\ peer[k] # "up" => out'[k] = out[k]
      /\ \/ DOMAIN infos' = DOMAIN infos /\ out' = out
         \/ /\ DOMAIN infos' = DOMAIN infos \ {r}
            /\ out'[k] = out[k] \/ out'[k] = Append(out[k], r)
  <2>1. CASE DOMAIN infos' = DOMAIN infos /\ out' = out
    BY <1>2, <2>1 DEF ConnTypeOK
  <2>2. CASE infos' = Deleted(r) /\ Write([d \in {k} |-> <<r>>])
    <3>1. PICK ws : ws = [d \in {k} |-> <<r>>]
      OBVIOUS
    <3>2. DOMAIN ws = {k} /\ ws[k] = <<r>> /\ <<r>> \in Seq(Message)
      BY <1>5, <3>1
    <3>3. /\ out' \in [Chan -> Seq(Message)]
          /\ \A d \in Chan : out'[d] = IF d \in DOMAIN ws /\ peer[d] = "up"
                                       THEN out[d] \o ws[d] ELSE out[d]
      BY <1>2, <1>5, <2>2, <3>1, <3>2, WriteFacts
    <3>4. out[k] \o <<r>> = Append(out[k], r)
      <4>1. out[k] \in Seq(Message)
        BY <1>2, <1>5 DEF ConnTypeOK
      <4> QED
        BY <1>5, <4>1, AppendIsConcat
    <3>5. DOMAIN infos' = DOMAIN infos \ {r}
      BY <2>2 DEF Deleted
    <3> QED
      BY <1>5, <3>2, <3>3, <3>4, <3>5
  <2> QED
    BY <1>3, <1>5, <2>1, <2>2 DEF AnswerEvent
<1>7. ConnTypeOK'
  BY <1>1, <1>2, <1>6 DEF ConnTypeOK
<1>8. \A d \in Chan : Process(d)'
  <2>1. \A d \in Chan : out'[d] = out[d] \/ peer[d] = "up"
    BY <1>6
  <2> QED
    BY <1>1, <1>2, <2>1, SentProcesses
<1>9. \A d \in ServerChan : out'[d] = out[d]
  BY <1>6, Chans
<1>10. ServerInv'
  <2>1. NamedFirst(c) /\ in[c] \in Seq(Message \cup {ServerConnect})
    BY <1>2 DEF ChanInv, ServerInv, ConnTypeOK
  <2>2. Named(c)
    <3>1. in[c] # <<ServerConnect>>
      BY <1>1
    <3> QED
      BY <1>1, <2>1, <3>1 DEF NamedFirst
  <2>3. Messages(in'[c]) \subseteq Messages(in[c])
    BY <1>1, <2>1, MessagesTail
  <2>4. SameServer(c)
    BY <1>1, <2>2, <2>3 DEF SameServer, Named
  <2>5. ASSUME NEW d \in ServerChan, d # c
        PROVE  SameServer(d)
    BY <1>1, <1>9, <2>5, Chans DEF SameServer, Named
  <2> QED
    BY <1>1, <2>4, <2>5, SameServers
<1>11. InfosOfClients' /\ SrcLive'
  <2>1. DOMAIN infos' \subseteq DOMAIN infos
    BY <1>6
  <2> QED
    BY <1>1, <2>1, FewerInfos DEF Gone, Open, Outstanding
<1>12. \A j \in Client : ClientCount(j)'
  <2>1. CASE DOMAIN infos' = DOMAIN infos /\ out' = out
    <3>1. \A j \in Client : Mine(j)' = Mine(j)
      BY <2>1 DEF Mine
    <3> QED
      BY <1>1, <1>2, <2>1, <3>1, SameClient, Chans DEF ChanInv
  <2>2. CASE /\ DOMAIN infos' = DOMAIN infos \ {r}
             /\ out'[k] = out[k] \/ out'[k] = Append(out[k], r)
    <3>1. ASSUME NEW j \in Client, j # k
          PROVE  ClientCount(j)'
      <4>1. Mine(j)' = Mine(j)
        BY <1>5, <2>2, <3>1 DEF Mine
      <4> QED
        BY <1>1, <1>2, <1>6, <3>1, <4>1, SameClient, Chans DEF ChanInv
    <3>2. Mine(k)' = Mine(k) \ {r}
      BY <2>2 DEF Mine
    <3>3. in'[k] = in[k]
      BY <1>1, <1>2, <1>5
    <3>4. ClientCount(k)'
      BY <1>1, <1>5, <2>2, <3>2, <3>3, AnswerCounted
    <3> QED
      BY <3>1, <3>4
  <2> QED
    BY <1>6, <2>1, <2>2
<1> QED
  BY <1>7, <1>8, <1>9, <1>10, <1>11, <1>12 DEF ChanInv

\* EventData::process.
LEMMA ReadEventStep ==
    ASSUME ConnAssumption, ChanInv, NEW c \in Chan, ReadEvent(c)
    PROVE  ChanInv'
<1>1. CASE Head(in[c]) = ServerConnect
  BY <1>1, ServerConnectStep DEF ReadEvent
<1>2. CASE Head(in[c]) # ServerConnect /\ c \in Client
  BY <1>2, ClientEventStep DEF ReadEvent
<1>3. CASE Head(in[c]) # ServerConnect /\ c \notin Client
  <2>1. c \in ServerChan
    BY <1>3, Chans
  <2> QED
    BY <1>3, <2>1, AnswerEventStep DEF ReadEvent
<1> QED
  BY <1>1, <1>2, <1>3

\* The end of a client's connection.
LEMMA ClientEndStep ==
    ASSUME ConnAssumption, ChanInv, NEW c \in Client, ReadEnd(c)
    PROVE  ChanInv'
<1>1. /\ fd[c] # 0 /\ in[c] = Empty /\ peer[c] = "dead"
      /\ fd' = [fd EXCEPT ![c] = 0]
      /\ UNCHANGED <<peer, backlog, in, infos, asked, got, taken, localMap, early>>
      /\ SendAll(Destroy(c))
  BY DEF ReadEnd, Selected, Ready, Open, delClient, Empty
<1>2. /\ ConnTypeOK /\ MapLive /\ c \in Chan /\ c \notin ServerChan
      /\ Destroy(c) \in Message /\ c \notin backlog
  BY <1>1, Chans, MessageKinds DEF ChanInv, ServerInv, Process
<1>3. fd' \in [Chan -> Nat] /\ fd'[c] = 0 /\ \A d \in Chan : d # c => fd'[d] = fd[d]
  BY <1>1, <1>2 DEF ConnTypeOK
<1>4. /\ out' \in [Chan -> Seq(Message)] /\ pending' \in [ServerId -> Seq(Message)]
      /\ \A k \in Client : out'[k] = out[k]
      /\ \A d \in ServerChan :
            out'[d] = IF localMap[d[1]] = d /\ peer[d] = "up"
                      THEN Append(out[d], Destroy(c)) ELSE out[d]
  BY <1>1, <1>2, SendAllFacts
<1>5. ConnTypeOK'
  BY <1>1, <1>2, <1>3, <1>4 DEF ConnTypeOK
<1>6. \A d \in Chan : Process(d)'
  <2>1. \A d \in Chan : out'[d] = out[d] \/ peer[d] = "up"
    BY <1>4, Chans
  <2> QED
    BY <1>1, <1>2, <1>3, <2>1, SentProcesses
<1>7. ServerInv'
  <2>1. \A d \in ServerChan : StillServer(d)
    BY <1>1, <1>2, <1>3, <1>4, MapNamed, Chans DEF StillServer
  <2> QED
    BY <1>1, <2>1, StillServers
<1>8. SrcLive'
  <2> SUFFICES ASSUME NEW r \in DOMAIN infos
               PROVE  fd'[r[1]] # 0 \/ (Gone(r[1])' /\ Outstanding(r[1])')
    <3>1. \A r \in DOMAIN infos : r[1] \in Chan
      BY Answered, Chans
    <3> QED
      BY <1>1, <3>1 DEF SrcLive, Open
  <2>1. PICK k \in Client : k = r[1] /\ r \in Mine(k) /\ k \in Chan
    BY Answered, Chans
  <2>2. CASE k = c
    <3>1. Outstanding(c)
      BY <2>1, <2>2, AskerWaits
    <3> QED
      BY <1>1, <1>2, <1>3, <2>1, <2>2, <3>1 DEF Gone, Open, Outstanding
  <2>3. CASE k # c
    <3>1. fd[k] # 0 \/ (Gone(k) /\ Outstanding(k))
      BY <2>1 DEF ChanInv, SrcLive, Open
    <3> QED
      BY <1>1, <1>3, <2>1, <2>3, <3>1 DEF Gone, Open, Outstanding
  <2> QED
    BY <2>2, <2>3
<1>9. InfosOfClients' /\ \A k \in Client : Mine(k)' = Mine(k)
  BY <1>1 DEF ChanInv, InfosOfClients, Mine
<1>10. \A k \in Client : ClientCount(k)'
  BY <1>1, <1>4, <1>9, SameClient DEF ChanInv
<1> QED
  BY <1>5, <1>6, <1>7, <1>8, <1>9, <1>10 DEF ChanInv

\* The end of the connection of a server: the entry that has to be there and is erased
\* is that of server 0 when another server has gone.
LEMMA ServerGoes ==
    ASSUME ConnAssumption, ChanInv, NEW c \in ServerChan, fd[c] # 0, in[c] = Empty,
           peer[c] = "dead", fd' = [fd EXCEPT ![c] = 0],
           UNCHANGED <<peer, backlog, in, out, early>>,
           localMap' = [s \in ServerId |-> IF s = 0 THEN NoChan ELSE localMap[s]]
    PROVE  ServerInv'
<1>1. /\ c \in Chan /\ c \notin Client /\ c[1] \in ServerId /\ ConnTypeOK /\ Named(c)
      /\ c \notin backlog
  BY Chans DEF ChanInv, Named, Messages, Empty, Process
<1>2. fd'[c] = 0 /\ \A d \in Chan : d # c => fd'[d] = fd[d]
  BY <1>1 DEF ConnTypeOK
<1>3. \A d : Named(d)' <=> Named(d)
  BY DEF Named
<1>4. InTurn'
  BY DEF ChanInv, ServerInv, InTurn
<1>5. NotEarly'
  <2> SUFFICES ASSUME NEW x \in ServerChan, NEW d \in ServerChan, x[1] = d[1], d[2] < x[2],
                      peer[x] # "none", x \notin early
               PROVE  fd'[d] = 0 /\ d \notin backlog
    BY DEF NotEarly
  <2>1. fd[d] = 0 /\ d \notin backlog
    BY DEF ChanInv, ServerInv, NotEarly
  <2> QED
    BY <1>2, <2>1, Chans
<1>6. MapLive'
  <2> SUFFICES ASSUME NEW s \in ServerId, NEW d, d = localMap'[s], d # NoChan
               PROVE  d \in Chan /\ d[1] = s /\ Named(d)' /\ (s = 0 => fd'[d] # 0)
    BY Zenon DEF MapLive, Named
  <2>1. s # 0 /\ d = localMap[s]
    OBVIOUS
  <2>2. d \in Chan /\ d[1] = s /\ Named(d)
    BY <2>1 DEF ChanInv, ServerInv, MapLive
  <2> QED
    BY <1>3, <2>1, <2>2
<1>7. EntryPresent'
  <2> SUFFICES ASSUME NEW x \in ServerChan, fd'[x] # 0, Named(x)', x \notin early,
                      \A d \in Chan : x \in Before(d) => ~ Named(d)'
               PROVE  \/ localMap'[x[1]] = x
                      \/ x[1] = 0 /\ \E d \in Chan \ Client : d[1] # 0 /\ Gone(d)'
    BY DEF EntryPresent, Open, ServerChan
  <2>1. /\ x # c /\ fd[x] # 0 /\ Named(x) /\ x \in Chan /\ x[1] \in ServerId
        /\ \A d \in Chan : x \in Before(d) => ~ Named(d)
    BY <1>2, <1>3, Chans
  <2>2. \/ localMap[x[1]] = x
        \/ x[1] = 0 /\ \E d \in Chan \ Client : d[1] # 0 /\ Gone(d)
    BY <2>1 DEF ChanInv, ServerInv, EntryPresent, Open, ServerChan
  <2>3. \A d \in Chan : Gone(d) => Gone(d)'
    BY <1>2 DEF Gone, Open
  <2>4. CASE x[1] # 0
    BY <2>1, <2>2, <2>4
  <2>5. CASE x[1] = 0 /\ c[1] # 0
    <3>1. Gone(c)'
      BY <1>1, <1>2 DEF Gone, Open
    <3> QED
      BY <1>1, <2>5, <3>1
  <2>6. CASE x[1] = 0 /\ c[1] = 0
    <3>1. x[2] \in Nat /\ c[2] \in Nat /\ x[2] # c[2]
      BY <2>1, <2>6, Chans
    <3>2. CASE x[2] < c[2]
      <4>1. x \in Before(c)
        BY <2>1, <2>6, <3>2 DEF Before
      <4> QED
        BY <1>1, <2>1, <4>1
    <3>3. CASE c[2] < x[2]
      <4>1. peer[x] # "none"
        BY <2>1 DEF Named
      <4> QED
        BY <2>6, <3>3, <4>1 DEF ChanInv, ServerInv, NotEarly
    <3> QED
      BY <3>1, <3>2, <3>3
  <2> QED
    BY <2>4, <2>5, <2>6
<1>8. \A d \in ServerChan : NamedFirst(d)'
  BY <1>3 DEF ChanInv, ServerInv, NamedFirst
<1> QED
  BY <1>4, <1>5, <1>6, <1>7, <1>8 DEF ServerInv

LEMMA ServerEndStep ==
    ASSUME ConnAssumption, ChanInv, NEW c \in ServerChan, ReadEnd(c)
    PROVE  ChanInv'
<1>1. c \in Chan /\ c \notin Client
  BY Chans
<1>2. /\ fd[c] # 0 /\ in[c] = Empty /\ peer[c] = "dead"
      /\ fd' = [fd EXCEPT ![c] = 0]
      /\ UNCHANGED <<peer, backlog, in, out, infos, asked, got, taken, pending, early>>
      /\ localMap' = [s \in ServerId |-> IF s = 0 THEN NoChan ELSE localMap[s]]
  BY <1>1 DEF ReadEnd, Selected, Ready, Open, delServer, Empty
<1>3. ConnTypeOK
  BY DEF ChanInv
<1>4. fd' \in [Chan -> Nat] /\ fd'[c] = 0 /\ \A d \in Chan : d # c => fd'[d] = fd[d]
  BY <1>1, <1>2, <1>3 DEF ConnTypeOK
<1>5. ConnTypeOK'
  <2>1. localMap' \in [ServerId -> Chan \cup {NoChan}]
    BY <1>2, <1>3 DEF ConnTypeOK
  <2> QED
    BY <1>2, <1>3, <1>4, <2>1 DEF ConnTypeOK
<1>6. \A d \in Chan : Process(d)'
  BY <1>1, <1>2, <1>4, SentProcesses
<1>7. ServerInv'
  BY <1>2, ServerGoes
<1>8. InfosOfClients' /\ SrcLive' /\ \A k \in Client : Mine(k)' = Mine(k)
  BY <1>1, <1>2, <1>4, SameInfos, Chans
<1>9. \A k \in Client : ClientCount(k)'
  BY <1>2, <1>8, SameClient DEF ChanInv
<1> QED
  BY <1>5, <1>6, <1>7, <1>8, <1>9 DEF ChanInv

LEMMA ReadEndStep ==
    ASSUME ConnAssumption, ChanInv, NEW c \in Chan, ReadEnd(c)
    PROVE  ChanInv'
  BY ClientEndStep, ServerEndStep, Chans

LEMMA StillConn ==
    ASSUME ConnAssumption, ChanInv,
           UNCHANGED <<peer, backlog, in, out, fd, localMap, pending, infos, asked, got,
                       taken, early>>
    PROVE  ChanInv'
<1>1. ConnTypeOK' /\ \A c \in Chan : Process(c)'
  BY DEF ChanInv, ConnTypeOK, Process
<1>2. ServerInv'
  BY StillServers DEF StillServer
<1>3. InfosOfClients' /\ SrcLive' /\ \A k \in Client : Mine(k)' = Mine(k)
  BY SameInfos
<1>4. \A k \in Client : ClientCount(k)'
  BY <1>3, SameClient DEF ChanInv
<1> QED
  BY <1>1, <1>2, <1>3, <1>4 DEF ChanInv

LEMMA NextConn ==
    ASSUME ConnAssumption, ChanInv, [Next]_vars
    PROVE  ChanInv'
<1>1. CASE \E c \in Chan : Connect(c)
  BY <1>1, ConnectStep
<1>2. CASE \E c \in Chan : Leave(c)
  BY <1>2, LeaveStep
<1>3. CASE \E c \in Chan : ServerTake(c)
  BY <1>3, ServerTakeStep
<1>4. CASE \E c \in Chan : Accept(c)
  BY <1>4, AcceptStep
<1>5. CASE \E c \in Chan : ReadEvent(c)
  BY <1>5, ReadEventStep
<1>6. CASE \E c \in Chan : ReadEnd(c)
  BY <1>6, ReadEndStep
<1>7. CASE \E c \in Chan : ReadReset(c)
  <2>1. UNCHANGED <<peer, backlog, in, out, fd, localMap, pending, infos, asked, got,
                    taken, early>>
    BY <1>7 DEF ReadReset, router
  <2> QED
    BY <2>1, StillConn
<1>8. CASE \E c \in Client : ClientTake(c)
  BY <1>8, ClientTakeStep
<1>9. CASE \E c \in Client : ClientAsks(c)
  BY <1>9, ClientAsksStep
<1>10. CASE UNCHANGED vars
  <2>1. UNCHANGED <<peer, backlog, in, out, fd, localMap, pending, infos, asked, got,
                    taken, early>>
    BY <1>10 DEF vars, router
  <2> QED
    BY <2>1, StillConn
<1> QED
  BY <1>1, <1>2, <1>3, <1>4, <1>5, <1>6, <1>7, <1>8, <1>9, <1>10 DEF Next

LEMMA InitConn ==
    ASSUME ConnAssumption, Init
    PROVE  ChanInv
<1>1. /\ \A c \in Chan : /\ peer[c] = "none" /\ fd[c] = 0 /\ c \notin backlog
                         /\ in[c] = Empty /\ out[c] = Empty
      /\ \A s \in ServerId : localMap[s] = NoChan
      /\ DOMAIN infos = {}
      /\ \A k \in Client : asked[k] = 0 /\ got[k] = 0
  BY DEF Init, Empty
<1>2. ConnTypeOK
  <2>1. \A E : <<>> \in Seq(E)
    BY EmptySeq
  <2> QED
    BY <2>1 DEF Init, ConnTypeOK
<1>3. (\A c \in Chan : Process(c)) /\ InTurn /\ NotEarly
  BY <1>1, Chans DEF Process, InTurn, NotEarly
<1>4. MapLive /\ EntryPresent /\ \A c \in ServerChan : NamedFirst(c)
  BY <1>1, Chans DEF MapLive, EntryPresent, Open, NamedFirst
<1>5. InfosOfClients /\ SrcLive
  BY <1>1 DEF InfosOfClients, SrcLive
<1>6. ASSUME NEW k \in Client
      PROVE  ClientCount(k)
  <2>1. Mine(k) = {}
    BY <1>1 DEF Mine
  <2>2. Cardinality(Mine(k)) = 0 /\ Len(in[k]) = 0 /\ Len(out[k]) = 0
    BY <1>1, <2>1, FS_EmptySet, Chans DEF Empty
  <2>3. asked[k] = 0 /\ got[k] = 0 /\ peer[k] = "none" /\ NextRead(k) = 1
    BY <1>1, <2>2, Chans DEF NextRead
  <2> QED
    BY <2>1, <2>2, <2>3 DEF ClientCount, ConnAssumption
<1> QED
  BY <1>2, <1>3, <1>4, <1>5, <1>6 DEF ChanInv, ServerInv

\* No two connections share a descriptor: accept takes a free one.
LEMMA OwnDescriptorStep ==
    ASSUME ConnAssumption, ConnTypeOK, OwnDescriptor, [Next]_vars,
           \A c \in Chan : c \in backlog => fd[c] = 0
    PROVE  OwnDescriptor'
<1>1. ASSUME NEW c \in Chan, Accept(c)
      PROVE  OwnDescriptor'
  <2>1. fd[c] = 0
    BY <1>1 DEF Accept
  <2>2. PICK f : f = Min((1 .. Cardinality(Chan)) \ {fd[d] : d \in Open})
    OBVIOUS
  <2>3. f \in Nat \ {0} /\ \A d \in Open : fd[d] # f
    BY <2>1, <2>2, FreeDescriptor
  <2>4. fd' = [fd EXCEPT ![c] = f]
    BY <1>1, <2>2 DEF Accept
  <2>5. fd'[c] = f /\ \A d \in Chan : d # c => fd'[d] = fd[d]
    BY <2>4 DEF ConnTypeOK
  <2> QED
    BY <2>3, <2>5 DEF OwnDescriptor, Open
<1>2. ASSUME NEW c \in Chan, ReadEnd(c)
      PROVE  OwnDescriptor'
  <2>1. fd' = [fd EXCEPT ![c] = 0]
    BY <1>2 DEF ReadEnd
  <2>2. fd'[c] = 0 /\ \A d \in Chan : d # c => fd'[d] = fd[d]
    BY <2>1 DEF ConnTypeOK
  <2> QED
    BY <2>2 DEF OwnDescriptor, Open
<1>3. CASE fd' = fd
  BY <1>3 DEF OwnDescriptor, Open
<1>4. ASSUME NEW c \in Chan, Connect(c) \/ Leave(c) \/ ServerTake(c) \/ ReadEvent(c) \/ ReadReset(c)
      PROVE  fd' = fd
  BY <1>4 DEF Connect, Leave, ServerTake, ReadEvent, ReadReset, router, ConnectEvent,
              ClientEvent, AnswerEvent
<1>5. ASSUME NEW c \in Client, ClientTake(c) \/ ClientAsks(c)
      PROVE  fd' = fd
  BY <1>5 DEF ClientTake, ClientAsks, router
<1>6. CASE UNCHANGED vars
  BY <1>6, <1>3 DEF vars, router
<1> QED
  BY <1>1, <1>2, <1>3, <1>4, <1>5, <1>6 DEF Next

\* Whoever ends, closes or starts, and when: no two connections have one descriptor, the
\* entry of server 0 is an open connection, a named server has its entry but for the two
\* exceptions of EntryPresent (router.h:105-125), and a CommReqInfo has its client, but
\* for one that closed while it waited (commReqEvent.h:41).
THEOREM ChannelsLiveCorrect ==
    ASSUME ConnAssumption
    PROVE  Spec => []ChannelsLive
<1>1. Init => ChanInv /\ OwnDescriptor
  BY InitConn DEF OwnDescriptor, Open, Init
<1>2. ChanInv /\ OwnDescriptor /\ [Next]_vars => ChanInv' /\ OwnDescriptor'
  BY NextConn, OwnDescriptorStep DEF ChanInv, Process
<1>3. ChanInv /\ OwnDescriptor => ChannelsLive
  BY DEF ChanInv, ServerInv, MapLive, ChannelsLive, LocalMapLive, EntryLives, Open
<1> QED
  BY <1>1, <1>2, <1>3, PTL DEF Spec

-----------------------------------------------------------------------------
(* The order in which a server takes the messages of a client.             *)

\* What was read stays read.
StaysRead ==
    \A k \in Client : peer[k] # "none" =>
        /\ peer'[k] # "none"
        /\ Ended(k) => Ended(k)'
        /\ NextRead(k) \in Nat /\ NextRead(k)' \in Nat /\ NextRead(k) <= NextRead(k)'

LEMMA SameRead ==
    ASSUME ConnAssumption, ChanInv, NEW k \in Client, peer'[k] = peer[k],
           fd[k] = 0 /\ k \notin backlog => fd'[k] = 0 /\ k \notin backlog',
           in'[k] = in[k], asked'[k] = asked[k]
    PROVE  /\ peer[k] # "none" => peer'[k] # "none"
           /\ Ended(k) => Ended(k)'
           /\ NextRead(k) \in Nat /\ NextRead(k)' \in Nat /\ NextRead(k) <= NextRead(k)'
<1>1. NextRead(k) \in Nat /\ NextRead(k)' = NextRead(k)
  BY CountTypes DEF NextRead
<1>2. Ended(k) => Ended(k)'
  BY DEF Ended
<1> QED
  BY <1>1, <1>2

LEMMA ReadsOne ==
    ASSUME ConnAssumption, ChanInv, NEW k \in Client, in[k] # Empty, in'[k] = Tail(in[k]),
           asked'[k] = asked[k]
    PROVE  NextRead(k) \in Nat /\ NextRead(k)' = NextRead(k) + 1
<1>1. PICK a \in Nat, n \in Nat, q \in Seq(Message \cup {ServerConnect}) :
         a = asked[k] /\ q = in[k] /\ n = Len(q)
  BY CountTypes
<1>2. Len(in'[k]) = n - 1
  BY <1>1, MessagesTail
<1>3. NextRead(k) = a + 1 - n /\ NextRead(k)' = a + 1 - (n - 1)
  BY <1>1, <1>2 DEF NextRead
<1>4. NextRead(k)' = NextRead(k) + 1
  BY <1>3
<1> QED
  BY <1>4, CountTypes

LEMMA ReadStays ==
    ASSUME ConnAssumption, ChanInv, [Next]_vars
    PROVE  StaysRead
<1> SUFFICES ASSUME NEW k \in Client, peer[k] # "none"
             PROVE  /\ peer'[k] # "none"
                    /\ Ended(k) => Ended(k)'
                    /\ NextRead(k) \in Nat /\ NextRead(k)' \in Nat
                    /\ NextRead(k) <= NextRead(k)'
  BY DEF StaysRead
<1>1. ConnTypeOK /\ k \in Chan /\ NextRead(k) \in Nat
  BY CountTypes DEF ChanInv
<1>2. ASSUME NEW c \in Chan, Connect(c)
      PROVE  /\ peer'[k] = peer[k] /\ fd' = fd /\ (k \notin backlog => k \notin backlog')
             /\ in'[k] = in[k] /\ asked' = asked
  BY <1>1, <1>2 DEF Connect, router, ConnTypeOK
<1>3. ASSUME NEW c \in Chan, Leave(c)
      PROVE  /\ peer'[k] # "none" /\ (Ended(k) => Ended(k)') /\ NextRead(k)' = NextRead(k)
  BY <1>1, <1>3 DEF Leave, End, router, Ended, ConnTypeOK, NextRead
<1>4. ASSUME NEW c \in Chan, ServerTake(c)
      PROVE  /\ peer'[k] = peer[k] /\ fd' = fd /\ backlog' = backlog
             /\ in'[k] = in[k] /\ asked' = asked
  <2>1. k # c
    BY <1>4 DEF ServerTake
  <2> QED
    BY <1>1, <1>4, <2>1 DEF ServerTake, End, router, ConnTypeOK
<1>5. ASSUME NEW c \in Chan, Accept(c)
      PROVE  /\ peer' = peer /\ in' = in /\ asked' = asked
             /\ (fd[k] = 0 /\ k \notin backlog => fd'[k] = 0 /\ k \notin backlog')
  BY <1>1, <1>5 DEF Accept, ConnTypeOK
<1>6. ASSUME NEW c \in Chan, ReadEvent(c)
      PROVE  /\ peer'[k] # "none" /\ (Ended(k) => Ended(k)')
             /\ NextRead(k)' \in Nat /\ NextRead(k) <= NextRead(k)'
  <2>1. /\ in[c] # Empty /\ in'[c] = Tail(in[c])
        /\ \A d \in Chan : d # c => in'[d] = in[d]
        /\ UNCHANGED <<peer, backlog, asked, fd>>
    BY <1>6, ReadFacts
  <2>2. peer'[k] # "none" /\ (Ended(k) => Ended(k)')
    BY <2>1 DEF Ended
  <2>3. CASE k = c
    <3>1. NextRead(k)' = NextRead(k) + 1
      BY <2>1, <2>3, ReadsOne
    <3> QED
      BY <1>1, <2>2, <3>1
  <2>4. CASE k # c
    BY <1>1, <2>1, <2>2, <2>4 DEF NextRead
  <2> QED
    BY <2>3, <2>4
<1>7. ASSUME NEW c \in Chan, ReadEnd(c)
      PROVE  /\ peer' = peer /\ in' = in /\ asked' = asked /\ backlog' = backlog
             /\ (fd[k] = 0 => fd'[k] = 0)
  BY <1>1, <1>7 DEF ReadEnd, ConnTypeOK
<1>8. ASSUME NEW c \in Chan, ReadReset(c)
      PROVE  UNCHANGED <<peer, in, asked, backlog, fd>>
  BY <1>8 DEF ReadReset, router
<1>9. ASSUME NEW c \in Client, ClientTake(c)
      PROVE  UNCHANGED <<peer, in, asked, backlog, fd>>
  BY <1>9 DEF ClientTake, router
<1>10. ASSUME NEW c \in Client, ClientAsks(c)
       PROVE  /\ UNCHANGED <<peer, backlog, fd>> /\ NextRead(k)' = NextRead(k)
  <2>1. /\ UNCHANGED <<peer, backlog, fd>>
        /\ asked' = [asked EXCEPT ![c] = @ + 1]
        /\ in' = [in EXCEPT ![c] = Append(@, <<c, asked[c] + 1>>)]
    BY <1>10 DEF ClientAsks, router
  <2>2. CASE k = c
    <3>1. PICK a \in Nat, n \in Nat, q \in Seq(Message \cup {ServerConnect}) :
             a = asked[k] /\ q = in[k] /\ n = Len(q)
      BY CountTypes
    <3>2. <<k, a + 1>> \in Message \cup {ServerConnect}
      BY DEF Message
    <3>3. Len(in'[k]) = n + 1
      BY <1>1, <2>1, <2>2, <3>1, <3>2, MessagesAppend DEF ConnTypeOK
    <3>4. asked'[k] = a + 1
      BY <1>1, <2>1, <2>2, <3>1 DEF ConnTypeOK
    <3>5. NextRead(k) = a + 1 - n /\ NextRead(k)' = (a + 1) + 1 - (n + 1)
      BY <3>1, <3>3, <3>4 DEF NextRead
    <3> QED
      BY <2>1, <3>1, <3>5
  <2>3. CASE k # c
    BY <1>1, <2>1, <2>3 DEF NextRead, ConnTypeOK
  <2> QED
    BY <2>2, <2>3
<1>11. ASSUME UNCHANGED vars
       PROVE  UNCHANGED <<peer, in, asked, backlog, fd>>
  BY <1>11 DEF vars, router
<1>12. CASE \E c \in Chan : Leave(c) \/ ReadEvent(c)
  BY <1>1, <1>3, <1>6, <1>12
<1>13. CASE \E c \in Client : ClientAsks(c)
  <2>1. UNCHANGED <<peer, backlog, fd>> /\ NextRead(k)' = NextRead(k)
    BY <1>10, <1>13
  <2> QED
    BY <1>1, <2>1 DEF Ended
<1>14. CASE \/ \E c \in Chan : \/ Connect(c) \/ ServerTake(c) \/ Accept(c) \/ ReadEnd(c)
                               \/ ReadReset(c)
            \/ \E c \in Client : ClientTake(c)
            \/ UNCHANGED vars
  <2>1. /\ peer'[k] = peer[k] /\ in'[k] = in[k] /\ asked'[k] = asked[k]
        /\ fd[k] = 0 /\ k \notin backlog => fd'[k] = 0 /\ k \notin backlog'
    BY <1>2, <1>4, <1>5, <1>7, <1>8, <1>9, <1>11, <1>14
  <2> QED
    BY <2>1, SameRead
<1> QED
  BY <1>12, <1>13, <1>14 DEF Next

LEMMA StillRead ==
    ASSUME ConnAssumption, StaysRead, NEW m \in Message, Read(m)
    PROVE  Read(m)'
<1>1. PICK k \in Client, n \in Nat : m[1] = k /\ m[2] = n
  BY MessageKinds
<1>2. peer[k] # "none" /\ (Ended(k) \/ n < NextRead(k))
  BY <1>1 DEF Read
<1>3. peer'[k] # "none" /\ (Ended(k)' \/ n < NextRead(k)')
  BY <1>2 DEF StaysRead
<1> QED
  BY <1>1, <1>3 DEF Read

\* What is in a queue is a message.
LEMMA QueueTypes ==
    ASSUME ConnAssumption, ConnTypeOK
    PROVE  /\ \A s \in ServerId : /\ Messages(pending[s]) \subseteq Message
                                  /\ Messages(taken[s]) \subseteq Message
                                  /\ pending[s] \in Seq(Message) /\ taken[s] \in Seq(Message)
           /\ \A c \in Chan : Messages(out[c]) \subseteq Message /\ out[c] \in Seq(Message)
<1>1. ASSUME NEW q \in Seq(Message)
      PROVE  Messages(q) \subseteq Message
  BY ElementOfSeq DEF Messages
<1> QED
  BY <1>1 DEF ConnTypeOK

LEMMA EmptyQueue == Messages(Empty) = {} /\ Rising(Empty)
  BY DEF Messages, Rising, Empty

\* A step that moves no message, or drops those to a process that ends.
LEMMA SameLine ==
    ASSUME ConnAssumption, ChanInv, InLine, StaysRead, taken' = taken, pending' = pending,
           \A d \in ServerChan : out'[d] = out[d] \/ out'[d] = Empty,
           \A s \in ServerId : localMap[s] = NoChan => localMap'[s] = NoChan
    PROVE  InLine'
<1>1. \A m \in Message : Read(m) => Read(m)'
  BY StillRead
<1>2. ASSUME NEW s \in ServerId
      PROVE  ServerInLine(s)'
  <2>1. ServerInLine(s) /\ Messages(pending[s]) \subseteq Message
                        /\ Messages(taken[s]) \subseteq Message
    BY QueueTypes DEF ChanInv, InLine
  <2> QED
    BY <1>1, <2>1 DEF ServerInLine
<1>3. ASSUME NEW c \in ServerChan
      PROVE  ChanInLine(c)'
  <2>1. ChanInLine(c) /\ Messages(out[c]) \subseteq Message
    BY QueueTypes, Chans DEF ChanInv, InLine
  <2>2. CASE out'[c] = out[c]
    BY <1>1, <2>1, <2>2 DEF ChanInLine
  <2>3. CASE out'[c] = Empty
    BY <2>3, EmptyQueue DEF ChanInLine, Earlier
  <2> QED
    BY <2>2, <2>3
<1> QED
  BY <1>2, <1>3 DEF InLine

\* One message to all servers, later than all of its client that were sent.
LEMMA SentLine ==
    ASSUME ConnAssumption, ChanInv, InLine, StaysRead, NEW m \in Message, SendAll(m), Read(m)',
           \A n \in Message : Read(n) /\ n[1] = m[1] => n[2] < m[2],
           taken' = taken, localMap' = localMap
    PROVE  InLine'
<1>1. \A n \in Message : Read(n) => Read(n)'
  BY StillRead
<1>2. ASSUME NEW q \in Seq(Message), Rising(q), \A n \in Messages(q) : Read(n)
      PROVE  /\ Rising(Append(q, m)) /\ Messages(Append(q, m)) = Messages(q) \cup {m}
             /\ \A n \in Messages(Append(q, m)) : Read(n)'
  <2>1. Messages(q) \subseteq Message
    BY ElementOfSeq DEF Messages
  <2>2. Earlier(Messages(q), m)
    BY <1>2, <2>1 DEF Earlier
  <2>3. Messages(Append(q, m)) = Messages(q) \cup {m}
    BY MessagesAppend
  <2> QED
    BY <1>1, <1>2, <2>1, <2>2, <2>3, RisingAppend
<1>3. ConnTypeOK /\ MapLive
  BY DEF ChanInv, ServerInv
<1>4. /\ \A c \in ServerChan :
            out'[c] = IF localMap[c[1]] = c /\ peer[c] = "up" THEN Append(out[c], m)
                                                             ELSE out[c]
      /\ \A s \in ServerId :
            pending'[s] = IF localMap[s] = NoChan THEN Append(pending[s], m)
                                                  ELSE pending[s]
  BY <1>3, SendAllFacts
<1>5. \A s \in ServerId : Earlier(Messages(taken[s]), m)
  BY <1>3, QueueTypes DEF InLine, ServerInLine, Earlier
<1>6. ASSUME NEW s \in ServerId
      PROVE  ServerInLine(s)'
  <2>1. /\ ServerInLine(s) /\ Messages(pending[s]) \subseteq Message
        /\ Messages(taken[s]) \subseteq Message /\ pending[s] \in Seq(Message)
    BY <1>3, QueueTypes DEF InLine
  <2>2. Rising(pending[s]) /\ \A n \in Messages(pending[s]) : Read(n)
    BY <2>1 DEF ServerInLine
  <2>3. CASE localMap[s] = NoChan
    <3>1. pending'[s] = Append(pending[s], m)
      BY <1>4, <2>3
    <3>2. /\ Rising(pending'[s]) /\ Messages(pending'[s]) = Messages(pending[s]) \cup {m}
          /\ \A n \in Messages(pending'[s]) : Read(n)'
      BY <1>2, <2>1, <2>2, <3>1
    <3> QED
      BY <1>1, <1>5, <2>1, <2>3, <3>2 DEF ServerInLine
  <2>4. CASE localMap[s] # NoChan
    <3>1. pending'[s] = pending[s]
      BY <1>4, <2>4
    <3> QED
      BY <1>1, <2>1, <3>1 DEF ServerInLine
  <2> QED
    BY <2>3, <2>4
<1>7. ASSUME NEW c \in ServerChan
      PROVE  ChanInLine(c)'
  <2>1. /\ ChanInLine(c) /\ Messages(out[c]) \subseteq Message /\ out[c] \in Seq(Message)
        /\ c[1] \in ServerId /\ c # NoChan /\ ServerInLine(c[1])
        /\ pending[c[1]] \in Seq(Message)
    BY <1>3, QueueTypes, Chans DEF InLine
  <2>2. Rising(out[c]) /\ \A n \in Messages(out[c]) : Read(n)
    BY <2>1 DEF ChanInLine
  <2>3. CASE out'[c] = Append(out[c], m) /\ localMap[c[1]] # NoChan
    <3>1. /\ Rising(out'[c]) /\ Messages(out'[c]) = Messages(out[c]) \cup {m}
          /\ \A n \in Messages(out'[c]) : Read(n)'
      BY <1>2, <2>1, <2>2, <2>3
    <3>2. Messages(pending'[c[1]]) = {}
      BY <1>4, <2>1, <2>3, EmptyQueue DEF ServerInLine
    <3> QED
      BY <1>1, <1>5, <2>1, <3>1, <3>2 DEF ChanInLine
  <2>4. CASE out'[c] = out[c] /\ localMap[c[1]] # NoChan
    BY <1>1, <1>4, <2>1, <2>4 DEF ChanInLine
  <2>5. CASE localMap[c[1]] = NoChan
    <3>1. out'[c] = out[c] /\ pending'[c[1]] = Append(pending[c[1]], m)
      BY <1>4, <2>1, <2>5
    <3>2. Messages(pending'[c[1]]) = Messages(pending[c[1]]) \cup {m}
      BY <2>1, <3>1, MessagesAppend
    <3>3. Earlier(Messages(out[c]), m)
      BY <2>1, <2>2 DEF Earlier
    <3> QED
      BY <1>1, <2>1, <3>1, <3>2, <3>3 DEF ChanInLine
  <2> QED
    BY <1>4, <2>3, <2>4, <2>5
<1> QED
  BY <1>6, <1>7 DEF InLine

\* Of the processes of a server one has something to read.
LEMMA OneReads ==
    ASSUME ConnAssumption, ChanInv, NEW c \in ServerChan, NEW d \in ServerChan,
           c[1] = d[1], out[c] # Empty, out[d] # Empty
    PROVE  c = d
<1>1. peer[c] = "up" /\ peer[d] = "up"
  BY MapNamed
<1>2. c[2] \in Nat /\ d[2] \in Nat /\ c = <<c[1], c[2]>> /\ d = <<d[1], d[2]>>
  BY Chans
<1>3. ~ (c[2] < d[2]) /\ ~ (d[2] < c[2])
  BY <1>1 DEF ChanInv, ServerInv, InTurn
<1>4. c[2] = d[2]
  BY <1>2, <1>3
<1> QED
  BY <1>2, <1>4

LEMMA ServerTakeLine ==
    ASSUME ConnAssumption, ChanInv, InLine, StaysRead, NEW c \in Chan, ServerTake(c)
    PROVE  InLine'
<1>1. \A n \in Message : Read(n) => Read(n)'
  BY StillRead
<1>2. PICK h : h = Head(out[c])
  OBVIOUS
<1>3. /\ c \in ServerChan /\ out[c] # Empty
      /\ taken' = [taken EXCEPT ![c[1]] = Append(@, h)]
      /\ pending' = pending /\ localMap' = localMap
      /\ out' = [out EXCEPT ![c] = <<>>] \/ out' = [out EXCEPT ![c] = Tail(@)]
  BY <1>2 DEF ServerTake, router, ServerChan, Empty, End
<1>4. c[1] \in ServerId
  BY <1>3, Chans
<1>5. ConnTypeOK /\ ChanInLine(c) /\ ServerInLine(c[1])
  BY <1>3, <1>4 DEF ChanInv, InLine
<1>6. /\ out[c] \in Seq(Message) /\ taken[c[1]] \in Seq(Message)
      /\ Messages(out[c]) \subseteq Message /\ Messages(taken[c[1]]) \subseteq Message
  BY <1>4, <1>5, QueueTypes
<1>7. /\ h \in Message /\ h \in Messages(out[c])
      /\ Messages(Tail(out[c])) \subseteq Messages(out[c])
      /\ Rising(Tail(out[c]))
      /\ \A m \in Messages(Tail(out[c])) : h[1] = m[1] => h[2] < m[2]
  <2>1. Messages(out[c]) = {h} \cup Messages(Tail(out[c]))
    BY <1>2, <1>3, <1>6, MessagesTail
  <2>2. Rising(out[c])
    BY <1>5 DEF ChanInLine
  <2> QED
    BY <1>2, <1>3, <1>6, <2>1, <2>2, RisingTail
<1>8. /\ taken'[c[1]] = Append(taken[c[1]], h)
      /\ \A s \in ServerId : s # c[1] => taken'[s] = taken[s]
  BY <1>3, <1>4, <1>5 DEF ConnTypeOK
<1>9. Messages(taken'[c[1]]) = Messages(taken[c[1]]) \cup {h}
  BY <1>6, <1>7, <1>8, MessagesAppend
<1>10. ServerInLine(c[1])'
  <2>1. Earlier(Messages(taken[c[1]]), h) /\ Read(h)
    BY <1>5, <1>7 DEF ChanInLine
  <2>2. Rising(taken'[c[1]])
    BY <1>5, <1>6, <1>7, <1>8, <2>1, RisingAppend DEF ServerInLine
  <2>3. \A m \in Messages(pending[c[1]]) : Earlier(Messages(taken'[c[1]]), m) /\ Read(m)'
    <3> SUFFICES ASSUME NEW m \in Messages(pending[c[1]])
                 PROVE  Earlier(Messages(taken[c[1]]) \cup {h}, m) /\ Read(m)'
      BY <1>9
    <3>1. /\ Earlier(Messages(taken[c[1]]), m) /\ Earlier(Messages(out[c]), m) /\ Read(m)
          /\ m \in Message
      BY <1>4, <1>5, QueueTypes DEF ServerInLine, ChanInLine
    <3> QED
      BY <1>1, <1>7, <3>1 DEF Earlier
  <2>4. \A m \in Messages(taken'[c[1]]) : Read(m)'
    BY <1>1, <1>5, <1>6, <1>7, <1>9, <2>1 DEF ServerInLine
  <2> QED
    BY <1>3, <1>5, <2>2, <2>3, <2>4 DEF ServerInLine
<1>11. ASSUME NEW s \in ServerId, s # c[1]
       PROVE  ServerInLine(s)'
  <2>1. ServerInLine(s) /\ Messages(pending[s]) \subseteq Message
                        /\ Messages(taken[s]) \subseteq Message
    BY <1>5, QueueTypes DEF InLine
  <2> QED
    BY <1>1, <1>3, <1>8, <1>11, <2>1 DEF ServerInLine
<1>12. ChanInLine(c)'
  <2>1. CASE out'[c] = Empty
    BY <2>1, EmptyQueue DEF ChanInLine, Earlier
  <2>2. CASE out'[c] = Tail(out[c])
    <3> SUFFICES ASSUME NEW m \in Messages(Tail(out[c]))
                 PROVE  Earlier(Messages(taken[c[1]]) \cup {h}, m) /\ Read(m)'
      <4>1. \A m \in Messages(pending[c[1]]) : Earlier(Messages(Tail(out[c])), m)
        BY <1>5, <1>7 DEF ChanInLine, Earlier
      <4> QED
        BY <1>3, <1>7, <1>9, <2>2, <4>1 DEF ChanInLine
    <3>1. m \in Message /\ Read(m) /\ Earlier(Messages(taken[c[1]]), m)
      BY <1>5, <1>6, <1>7 DEF ChanInLine
    <3> QED
      BY <1>1, <1>7, <3>1 DEF Earlier
  <2> QED
    BY <1>3, <1>5, <2>1, <2>2 DEF ConnTypeOK, ServerChan, Empty
<1>13. ASSUME NEW d \in ServerChan, d # c
       PROVE  ChanInLine(d)'
  <2>1. /\ ChanInLine(d) /\ Messages(out[d]) \subseteq Message /\ d[1] \in ServerId
        /\ d \in Chan
    BY <1>5, QueueTypes, Chans DEF InLine
  <2>2. out'[d] = out[d]
    BY <1>3, <1>5, <1>13, <2>1 DEF ConnTypeOK
  <2>3. CASE d[1] = c[1]
    <3>1. out[d] = Empty
      BY <1>3, <1>13, <2>3, OneReads
    <3> QED
      BY <2>2, <3>1, EmptyQueue DEF ChanInLine, Earlier
  <2>4. CASE d[1] # c[1]
    BY <1>1, <1>3, <1>8, <2>1, <2>2, <2>4 DEF ChanInLine
  <2> QED
    BY <2>3, <2>4
<1> QED
  BY <1>10, <1>11, <1>12, <1>13 DEF InLine

LEMMA ConnectLine ==
    ASSUME ConnAssumption, ChanInv, InLine, StaysRead, NEW c \in Chan, ReadEvent(c),
           ConnectEvent(c), Head(in[c]) = ServerConnect
    PROVE  InLine'
<1>1. \A n \in Message : Read(n) => Read(n)'
  BY StillRead
<1>2. /\ c \in ServerChan
      /\ \A d \in Chan :
            out'[d] = IF d = c /\ peer[c] = "up" THEN pending[c[1]] ELSE out[d]
      /\ localMap' = [localMap EXCEPT ![c[1]] = c]
      /\ pending' = [pending EXCEPT ![c[1]] = Empty]
  BY ServerConnectStep
<1>3. taken' = taken
  BY ReadFacts
<1>4. ConnTypeOK /\ c[1] \in ServerId /\ c # NoChan /\ ServerInLine(c[1])
  BY <1>2, Chans DEF ChanInv, InLine
<1>5. /\ pending'[c[1]] = Empty
      /\ \A s \in ServerId : s # c[1] => pending'[s] = pending[s] /\ localMap'[s] = localMap[s]
  BY <1>2, <1>4 DEF ConnTypeOK
<1>6. ASSUME NEW s \in ServerId
      PROVE  ServerInLine(s)'
  <2>1. ServerInLine(s) /\ Messages(pending[s]) \subseteq Message
                        /\ Messages(taken[s]) \subseteq Message
    BY <1>4, QueueTypes DEF InLine
  <2>2. CASE s = c[1]
    BY <1>1, <1>3, <1>5, <2>1, <2>2, EmptyQueue DEF ServerInLine
  <2>3. CASE s # c[1]
    BY <1>1, <1>3, <1>5, <2>1, <2>3 DEF ServerInLine
  <2> QED
    BY <2>2, <2>3
<1>7. ASSUME NEW d \in ServerChan
      PROVE  ChanInLine(d)'
  <2>1. ChanInLine(d) /\ Messages(out[d]) \subseteq Message /\ d \in Chan /\ d[1] \in ServerId
    BY <1>4, QueueTypes, Chans DEF InLine
  <2>2. \A m \in Messages(pending'[d[1]]) : Earlier(Messages(out'[d]), m)
    <3>1. CASE d[1] = c[1]
      BY <1>5, <3>1, EmptyQueue
    <3>2. CASE d[1] # c[1]
      BY <1>2, <1>5, <2>1, <3>2 DEF ChanInLine
    <3> QED
      BY <3>1, <3>2
  <2>3. CASE out'[d] = out[d]
    BY <1>1, <1>3, <2>1, <2>2, <2>3 DEF ChanInLine
  <2>4. CASE out'[d] = pending[c[1]] /\ d = c
    <3>1. Messages(pending[c[1]]) \subseteq Message
      BY <1>4, QueueTypes
    <3> QED
      BY <1>1, <1>3, <1>4, <2>2, <2>4, <3>1 DEF ServerInLine, ChanInLine
  <2> QED
    BY <1>2, <2>1, <2>3, <2>4
<1> QED
  BY <1>6, <1>7 DEF InLine

LEMMA ClientEventLine ==
    ASSUME ConnAssumption, ChanInv, InLine, StaysRead, NEW c \in Client, ReadEvent(c),
           ClientEvent(Head(in[c]))
    PROVE  InLine'
<1>1. /\ fd[c] # 0 /\ in[c] # Empty /\ peer[c] # "none" /\ in'[c] = Tail(in[c])
      /\ UNCHANGED <<peer, asked, taken, localMap>>
  BY ReadFacts, Chans DEF ClientEvent
<1>2. PICK m \in Message : m = Head(in[c]) /\ m[1] = c /\ m[2] = NextRead(c)
  BY <1>1, ClientReads
<1>3. NextRead(c) \in Nat /\ NextRead(c)' = NextRead(c) + 1
  BY <1>1, ReadsOne
<1>4. Read(m)'
  BY <1>1, <1>2, <1>3 DEF Read
<1>5. \A n \in Message : Read(n) /\ n[1] = m[1] => n[2] < m[2]
  BY <1>1, <1>2 DEF Read, Ended
<1>6. SendAll(m)
  BY <1>2 DEF ClientEvent
<1> QED
  BY <1>1, <1>4, <1>5, <1>6, SentLine

LEMMA ClientEndLine ==
    ASSUME ConnAssumption, ChanInv, InLine, StaysRead, NEW c \in Client, ReadEnd(c)
    PROVE  InLine'
<1>1. /\ fd[c] # 0 /\ peer[c] = "dead" /\ fd' = [fd EXCEPT ![c] = 0]
      /\ UNCHANGED <<peer, backlog, taken, localMap>>
      /\ SendAll(Destroy(c))
  BY DEF ReadEnd, Selected, Ready, Open, delClient
<1>2. c \notin backlog /\ fd'[c] = 0
  BY <1>1, Chans DEF ChanInv, Process, ConnTypeOK
<1>3. PICK m \in Message : m = Destroy(c) /\ m[1] = c /\ m[2] = MaxReq + 1
  BY MessageKinds DEF Destroy
<1>4. Read(m)'
  BY <1>1, <1>2, <1>3 DEF Read, Ended
<1>5. ASSUME NEW n \in Message, Read(n), n[1] = m[1]
      PROVE  n[2] < m[2]
  <2>1. n[2] < NextRead(c) /\ n[2] \in Nat
    BY <1>1, <1>3, <1>5, MessageKinds DEF Read, Ended
  <2>2. NextRead(c) <= asked[c] + 1 /\ asked[c] <= MaxReq /\ NextRead(c) \in Nat
        /\ asked[c] \in Nat /\ MaxReq \in Nat
    BY CountTypes DEF ChanInv, ClientCount
  <2> QED
    BY <1>3, <2>1, <2>2
<1> QED
  BY <1>1, <1>3, <1>4, <1>5, SentLine

LEMMA NextLine ==
    ASSUME ConnAssumption, ChanInv, InLine, [Next]_vars
    PROVE  InLine'
<1>1. StaysRead
  BY ReadStays
<1>2. ConnTypeOK
  BY DEF ChanInv
<1>3. ASSUME NEW c \in Chan, ServerTake(c)
      PROVE  InLine'
  BY <1>1, <1>3, ServerTakeLine
<1>4. ASSUME NEW c \in Chan, ReadEvent(c)
      PROVE  InLine'
  <2>1. CASE Head(in[c]) = ServerConnect
    BY <1>1, <1>4, <2>1, ConnectLine DEF ReadEvent
  <2>2. CASE Head(in[c]) # ServerConnect /\ c \in Client
    BY <1>1, <1>4, <2>2, ClientEventLine DEF ReadEvent
  <2>3. CASE Head(in[c]) # ServerConnect /\ c \notin Client
    <3>1. c \in ServerChan /\ AnswerEvent(c[1], Head(in[c]))
      BY <1>4, <2>3, Chans DEF ReadEvent
    <3>2. \A d \in ServerChan : out'[d] = out[d]
      BY <1>4, <2>3, <3>1, AnswerEventStep
    <3>3. UNCHANGED <<taken, pending, localMap>>
      BY <1>4, <3>1, ReadFacts DEF AnswerEvent
    <3> QED
      BY <1>1, <3>2, <3>3, SameLine
  <2> QED
    BY <2>1, <2>2, <2>3
<1>5. ASSUME NEW c \in Chan, ReadEnd(c)
      PROVE  InLine'
  <2>1. CASE c \in Client
    BY <1>1, <1>5, <2>1, ClientEndLine
  <2>2. CASE c \notin Client
    <3>1. /\ UNCHANGED <<taken, pending, out>>
          /\ localMap' = [s \in ServerId |-> IF s = 0 THEN NoChan ELSE localMap[s]]
      BY <1>5, <2>2 DEF ReadEnd, delServer
    <3> QED
      BY <1>1, <3>1, SameLine
  <2> QED
    BY <2>1, <2>2
<1>6. ASSUME NEW c \in Chan, Leave(c)
      PROVE  InLine'
  <2>1. UNCHANGED <<taken, pending, localMap>> /\ out' = [out EXCEPT ![c] = Empty]
    BY <1>6 DEF Leave, End, router, Empty
  <2>2. \A d \in ServerChan : out'[d] = out[d] \/ out'[d] = Empty
    BY <1>2, <2>1, Chans DEF ConnTypeOK
  <2> QED
    BY <1>1, <2>1, <2>2, SameLine
<1>7. ASSUME NEW c \in Chan, Connect(c) \/ Accept(c) \/ ReadReset(c)
      PROVE  InLine'
  <2>1. UNCHANGED <<taken, pending, localMap, out>>
    BY <1>7 DEF Connect, Accept, ReadReset, router
  <2> QED
    BY <1>1, <2>1, SameLine
<1>8. ASSUME NEW c \in Client, ClientTake(c)
      PROVE  InLine'
  <2>1. UNCHANGED <<taken, pending, localMap>> /\ \A d \in ServerChan : out'[d] = out[d]
    BY <1>2, <1>8, Chans DEF ClientTake, router, ConnTypeOK
  <2> QED
    BY <1>1, <2>1, SameLine
<1>9. ASSUME NEW c \in Client, ClientAsks(c)
      PROVE  InLine'
  <2>1. UNCHANGED <<taken, pending, localMap, out>>
    BY <1>9 DEF ClientAsks, router
  <2> QED
    BY <1>1, <2>1, SameLine
<1>10. CASE UNCHANGED vars
  <2>1. UNCHANGED <<taken, pending, localMap, out>>
    BY <1>10 DEF vars, router
  <2> QED
    BY <1>1, <2>1, SameLine
<1> QED
  BY <1>3, <1>4, <1>5, <1>6, <1>7, <1>8, <1>9, <1>10 DEF Next

LEMMA InitLine ==
    ASSUME ConnAssumption, Init
    PROVE  InLine
<1>1. /\ \A s \in ServerId : taken[s] = Empty /\ pending[s] = Empty
      /\ \A c \in Chan : out[c] = Empty
  BY DEF Init, Empty
<1> QED
  BY <1>1, EmptyQueue, Chans DEF InLine, ServerInLine, ChanInLine

LEMMA OrderFromLine ==
    ASSUME ChanInv, InLine
    PROVE  TakenInOrder
<1>1. \A s \in ServerId : taken[s] \in Seq(Message) /\ Rising(taken[s])
  BY DEF ChanInv, ConnTypeOK, InLine, ServerInLine
<1>2. ASSUME NEW s \in ServerId
      PROVE  DOMAIN taken[s] = 1 .. Len(taken[s])
  BY <1>1
<1> QED
  BY <1>1, <1>2 DEF TakenInOrder, Rising

-----------------------------------------------------------------------------
(* No request is lost by the router.                                       *)

\* The request waits for its server, is on the way to it or back, or was written to
\* a connection that had ended.
Held(r, s) ==
    \/ r \in Messages(pending[s])
    \/ \E c \in ServerChan : c[1] = s /\ r \in Messages(out[c]) \cup Messages(in[c])
    \/ <<r, s>> \in lost
NoneLost == \A r \in DOMAIN infos : \A s \in infos[r] : s \in ServerId /\ Held(r, s)

\* What is held stays held.
StaysHeld == \A r \in Request, s \in ServerId : Held(r, s) => Held(r, s)'

\* A step that adds to the queues of the servers only.
LEMMA MoreHeld ==
    ASSUME NEW r, NEW s, Held(r, s), lost \subseteq lost',
           r \in Messages(pending[s]) => r \in Messages(pending'[s]),
           \A c \in ServerChan :
               r \in Messages(out[c]) \cup Messages(in[c]) =>
                   r \in Messages(out'[c]) \cup Messages(in'[c]) \/ <<r, c[1]>> \in lost'
    PROVE  Held(r, s)'
  BY DEF Held

LEMMA WriteLost ==
    ASSUME NEW ws, Write(ws)
    PROVE  /\ lost \subseteq lost'
           /\ \A c \in DOMAIN ws : ws[c] # <<>> /\ peer[c] = "dead" =>
                 \A m \in Messages(ws[c]) : <<m, c[1]>> \in lost'
  BY DEF Write

\* A message sent to all servers is with each of them.
LEMMA SendAllHeld ==
    ASSUME ConnAssumption, ChanInv, NEW m \in Message, SendAll(m),
           \A d \in ServerChan : in'[d] = in[d]
    PROVE  /\ \A s \in ServerId : Held(m, s)'
           /\ \A r, s : s \in ServerId /\ Held(r, s) => Held(r, s)'
<1>1. ConnTypeOK /\ MapLive
  BY DEF ChanInv, ServerInv
<1>2. /\ \A c \in ServerChan :
            out'[c] = IF localMap[c[1]] = c /\ peer[c] = "up" THEN Append(out[c], m)
                                                             ELSE out[c]
      /\ \A s \in ServerId :
            pending'[s] = IF localMap[s] = NoChan THEN Append(pending[s], m)
                                                  ELSE pending[s]
  BY <1>1, SendAllFacts
<1>3. ASSUME NEW q \in Seq(Message)
      PROVE  Messages(Append(q, m)) = Messages(q) \cup {m}
  BY MessagesAppend
<1>4. PICK ws : ws = [c \in {localMap[s] : s \in ServerId} \ {NoChan} |-> <<m>>]
  OBVIOUS
<1>5. Write(ws)
  BY <1>4 DEF SendAll
<1>6. /\ lost \subseteq lost'
      /\ \A c \in DOMAIN ws : ws[c] # <<>> /\ peer[c] = "dead" =>
            \A n \in Messages(ws[c]) : <<n, c[1]>> \in lost'
  BY <1>5, WriteLost
<1>7. ASSUME NEW s \in ServerId
      PROVE  Held(m, s)'
  <2>1. CASE localMap[s] = NoChan
    <3>1. m \in Messages(pending'[s])
      BY <1>1, <1>2, <1>3, <2>1, QueueTypes
    <3> QED
      BY <3>1 DEF Held
  <2>2. CASE localMap[s] # NoChan
    <3>1. PICK c : c = localMap[s]
      OBVIOUS
    <3>2. c \in Chan /\ c[1] = s /\ Named(c) /\ c \in ServerChan
      BY <1>1, <2>2, <3>1, Chans DEF MapLive
    <3>3. peer[c] = "up" \/ peer[c] = "dead"
      BY <1>1, <3>2 DEF Named, ConnTypeOK
    <3>4. CASE peer[c] = "up"
      <4>1. m \in Messages(out'[c])
        BY <1>1, <1>2, <1>3, <3>1, <3>2, <3>4, QueueTypes
      <4> QED
        BY <3>2, <4>1 DEF Held
    <3>5. CASE peer[c] = "dead"
      <4>1. c \in DOMAIN ws /\ ws[c] = <<m>>
        BY <1>4, <2>2, <3>1
      <4>2. PICK q : q = <<m>>
        OBVIOUS
      <4>3. 1 \in DOMAIN q /\ q[1] = m /\ q # <<>>
        BY <4>2
      <4>4. m \in Messages(q)
        BY <4>3 DEF Messages
      <4>5. <<m, s>> \in lost'
        BY <1>6, <3>2, <3>5, <4>1, <4>2, <4>3, <4>4
      <4> QED
        BY <4>5 DEF Held
    <3> QED
      BY <3>3, <3>4, <3>5
  <2> QED
    BY <2>1, <2>2
<1>8. ASSUME NEW r, NEW s \in ServerId, Held(r, s)
      PROVE  Held(r, s)'
  <2>1. r \in Messages(pending[s]) => r \in Messages(pending'[s])
    BY <1>1, <1>2, <1>3, QueueTypes
  <2>2. \A c \in ServerChan : r \in Messages(out[c]) => r \in Messages(out'[c])
    BY <1>1, <1>2, <1>3, QueueTypes, Chans
  <2> QED
    BY <1>6, <1>8, <2>1, <2>2, MoreHeld
<1> QED
  BY <1>7, <1>8

LEMMA SameHeld ==
    ASSUME lost \subseteq lost', pending' = pending,
           \A c \in ServerChan :
               Messages(out[c]) \cup Messages(in[c])
                   \subseteq Messages(out'[c]) \cup Messages(in'[c])
    PROVE  StaysHeld
  BY MoreHeld DEF StaysHeld

LEMMA LeaveHeld ==
    ASSUME ConnAssumption, ChanInv, NEW c \in Chan, Leave(c)
    PROVE  StaysHeld
<1> SUFFICES ASSUME NEW r \in Request, NEW s \in ServerId, Held(r, s)
             PROVE  Held(r, s)'
  BY DEF StaysHeld
<1>1. /\ out' = [out EXCEPT ![c] = <<>>] /\ in' = in /\ pending' = pending
      /\ lost' = lost \cup (Messages(out[c]) \X {c[1]})
  BY DEF Leave, End, router
<1>2. ASSUME NEW d \in ServerChan, r \in Messages(out[d])
      PROVE  r \in Messages(out'[d]) \/ <<r, d[1]>> \in lost'
  <2>1. CASE d = c
    BY <1>1, <1>2, <2>1
  <2>2. CASE d # c
    BY <1>1, <1>2, <2>2, Chans DEF ChanInv, ConnTypeOK
  <2> QED
    BY <2>1, <2>2
<1> QED
  BY <1>1, <1>2, MoreHeld

LEMMA ServerTakeHeld ==
    ASSUME ConnAssumption, ChanInv, NEW c \in Chan, ServerTake(c)
    PROVE  StaysHeld
<1> SUFFICES ASSUME NEW r \in Request, NEW s \in ServerId, Held(r, s)
             PROVE  Held(r, s)'
  BY DEF StaysHeld
<1>1. ConnTypeOK /\ pending' = pending /\ out[c] # Empty
  BY DEF ServerTake, router, ChanInv, Empty
<1>2. /\ out[c] \in Seq(Message) /\ in[c] \in Seq(Message \cup {ServerConnect})
      /\ Head(out[c]) \in Message
      /\ Messages(out[c]) = {Head(out[c])} \cup Messages(Tail(out[c]))
  <2>1. out[c] \in Seq(Message) /\ in[c] \in Seq(Message \cup {ServerConnect})
    BY <1>1 DEF ConnTypeOK
  <2> QED
    BY <1>1, <2>1, MessagesTail
<1>3. CASE End(c) /\ in' = in
  <2>1. /\ out' = [out EXCEPT ![c] = <<>>]
        /\ lost' = lost \cup (Messages(out[c]) \X {c[1]})
    BY <1>3 DEF End
  <2>2. ASSUME NEW d \in ServerChan, r \in Messages(out[d])
        PROVE  r \in Messages(out'[d]) \/ <<r, d[1]>> \in lost'
    <3>1. CASE d = c
      BY <2>1, <2>2, <3>1
    <3>2. CASE d # c
      BY <1>1, <2>1, <2>2, <3>2, Chans DEF ConnTypeOK
    <3> QED
      BY <3>1, <3>2
  <2> QED
    BY <1>1, <1>3, <2>1, <2>2, MoreHeld
<1>4. CASE /\ out' = [out EXCEPT ![c] = Tail(@)]
           /\ in' = IF Head(out[c]) \in Request THEN [in EXCEPT ![c] = Append(@, Head(out[c]))]
                                                ELSE in
           /\ lost' = lost
  <2>1. ASSUME NEW d \in ServerChan, r \in Messages(out[d]) \cup Messages(in[d])
        PROVE  r \in Messages(out'[d]) \cup Messages(in'[d])
    <3>1. CASE d = c
      <4>1. Messages(Append(in[c], Head(out[c]))) = Messages(in[c]) \cup {Head(out[c])}
        BY <1>2, MessagesAppend
      <4>2. out'[c] = Tail(out[c])
            /\ (Head(out[c]) \in Request => in'[c] = Append(in[c], Head(out[c])))
            /\ (Head(out[c]) \notin Request => in'[c] = in[c])
        BY <1>1, <1>4 DEF ConnTypeOK
      <4> QED
        BY <1>2, <2>1, <3>1, <4>1, <4>2
    <3>2. CASE d # c
      BY <1>1, <1>4, <2>1, <3>2, Chans DEF ConnTypeOK
    <3> QED
      BY <3>1, <3>2
  <2> QED
    BY <1>1, <1>4, <2>1, MoreHeld
<1> QED
  BY <1>3, <1>4 DEF ServerTake

LEMMA ConnectHeld ==
    ASSUME ConnAssumption, ChanInv, NEW c \in Chan, ReadEvent(c), ConnectEvent(c),
           Head(in[c]) = ServerConnect
    PROVE  StaysHeld /\ infos' = infos
<1>1. /\ c \in ServerChan /\ out[c] = Empty
      /\ \A d \in Chan :
            out'[d] = IF d = c /\ peer[c] = "up" THEN pending[c[1]] ELSE out[d]
      /\ pending' = [pending EXCEPT ![c[1]] = Empty]
  BY ServerConnectStep DEF ChanInv, ConnTypeOK
<1>2. /\ in[c] # Empty /\ peer[c] # "none" /\ in'[c] = Tail(in[c])
      /\ \A d \in Chan : d # c => in'[d] = in[d]
  BY ReadFacts
<1>3. /\ c[1] \in ServerId /\ pending[c[1]] \in Seq(Message)
      /\ Write([d \in {c} |-> pending[c[1]]])
  BY <1>1, QueueTypes, Chans DEF ChanInv, ConnectEvent
<1>4. PICK ws : ws = [d \in {c} |-> pending[c[1]]]
  OBVIOUS
<1>5. DOMAIN ws = {c} /\ ws[c] = pending[c[1]] /\ Write(ws)
  BY <1>3, <1>4
<1>6. /\ lost \subseteq lost'
      /\ pending[c[1]] # <<>> /\ peer[c] = "dead" =>
            \A m \in Messages(pending[c[1]]) : <<m, c[1]>> \in lost'
  BY <1>5, WriteLost
<1>7. Messages(in[c]) = {ServerConnect} \cup Messages(in'[c])
  <2>1. in[c] \in Seq(Message \cup {ServerConnect})
    BY DEF ChanInv, ConnTypeOK
  <2> QED
    BY <1>2, <2>1, MessagesTail
<1>8. ASSUME NEW r \in Request, NEW s \in ServerId, Held(r, s)
      PROVE  Held(r, s)'
  <2>1. r # ServerConnect
    BY MessageKinds
  <2>2. ASSUME NEW d \in ServerChan
        PROVE  r \in Messages(out[d]) \cup Messages(in[d]) =>
                   r \in Messages(out'[d]) \cup Messages(in'[d])
    BY <1>1, <1>2, <1>7, <2>1, EmptyQueue, Chans
  <2>3. CASE r \in Messages(pending[s]) /\ s = c[1]
    <3>1. pending[c[1]] # <<>>
      BY <2>3, EmptyQueue DEF Empty
    <3>2. peer[c] = "up" \/ peer[c] = "dead"
      BY <1>2 DEF ChanInv, ConnTypeOK
    <3>3. r \in Messages(out'[c]) \/ <<r, s>> \in lost'
      BY <1>1, <1>6, <2>3, <3>1, <3>2
    <3> QED
      BY <1>1, <2>3, <3>3 DEF Held
  <2>4. CASE ~ (r \in Messages(pending[s]) /\ s = c[1])
    <3>1. r \in Messages(pending[s]) => r \in Messages(pending'[s])
      BY <1>1, <2>4 DEF ChanInv, ConnTypeOK
    <3> QED
      BY <1>6, <1>8, <2>2, <3>1, MoreHeld
  <2> QED
    BY <2>3, <2>4
<1> QED
  BY <1>8 DEF StaysHeld, ConnectEvent

\* A new request is held for every server.
LEMMA ClientEventHeld ==
    ASSUME ConnAssumption, ChanInv, NoneLost, NEW c \in Client, ReadEvent(c),
           ClientEvent(Head(in[c]))
    PROVE  NoneLost'
<1>1. in[c] # Empty /\ \A d \in Chan : d # c => in'[d] = in[d]
  BY ReadFacts, Chans
<1>2. PICK m : m = Head(in[c])
  OBVIOUS
<1>3. /\ m \in Message /\ SendAll(m)
      /\ infos' = IF m \in Request
                  THEN [r \in DOMAIN infos \cup {m} |-> IF r = m THEN ServerId ELSE infos[r]]
                  ELSE infos
  BY <1>1, <1>2, ClientReads DEF ClientEvent
<1>4. \A d \in ServerChan : in'[d] = in[d]
  BY <1>1, Chans
<1>5. /\ \A s \in ServerId : Held(m, s)'
      /\ \A r, s : s \in ServerId /\ Held(r, s) => Held(r, s)'
  BY <1>3, <1>4, SendAllHeld
<1>6. ASSUME NEW r \in DOMAIN infos', NEW s \in infos'[r]
      PROVE  s \in ServerId /\ Held(r, s)'
  <2>1. CASE r = m /\ m \in Request
    BY <1>3, <1>5, <1>6, <2>1
  <2>2. CASE ~ (r = m /\ m \in Request)
    <3>1. r \in DOMAIN infos /\ s \in infos[r]
      BY <1>3, <1>6, <2>2
    <3> QED
      BY <1>5, <3>1 DEF NoneLost
  <2> QED
    BY <2>1, <2>2
<1> QED
  BY <1>6 DEF NoneLost

\* An answer that is read is no longer waited for.
LEMMA AnswerHeld ==
    ASSUME ConnAssumption, ChanInv, NoneLost, NEW c \in ServerChan, ReadEvent(c),
           Head(in[c]) # ServerConnect, AnswerEvent(c[1], Head(in[c]))
    PROVE  NoneLost'
<1>1. /\ c \in Chan /\ in[c] # Empty /\ in'[c] = Tail(in[c])
      /\ \A d \in Chan : d # c => in'[d] = in[d]
      /\ in[c] \in Seq(Message \cup {ServerConnect})
  BY ReadFacts, Chans DEF ChanInv, ConnTypeOK
<1>2. \A d \in ServerChan : out'[d] = out[d]
  BY AnswerEventStep
<1>3. PICK r : r = Head(in[c])
  OBVIOUS
<1>4. Messages(in[c]) = {r} \cup Messages(in'[c])
  BY <1>1, <1>3, MessagesTail
<1>5. /\ DOMAIN infos' \subseteq DOMAIN infos
      /\ \A q \in DOMAIN infos' : infos'[q] = IF q = r THEN infos[r] \ {c[1]} ELSE infos[q]
      /\ lost \subseteq lost' /\ pending' = pending
  <2>1. CASE infos' = [infos EXCEPT ![r] = infos[r] \ {c[1]}] /\ lost' = lost
             /\ pending' = pending
    BY <2>1
  <2>2. CASE infos' = Deleted(r) /\ pending' = pending /\ Write([d \in {r[1]} |-> <<r>>])
    BY <2>2, WriteLost DEF Deleted
  <2> QED
    BY <1>3, <2>1, <2>2 DEF AnswerEvent
<1>6. ASSUME NEW q \in DOMAIN infos', NEW s \in infos'[q]
      PROVE  s \in ServerId /\ Held(q, s)'
  <2>1. /\ q \in DOMAIN infos /\ s \in infos[q] /\ ~ (q = r /\ s = c[1])
        /\ s \in ServerId /\ Held(q, s)
    BY <1>5, <1>6 DEF NoneLost
  <2>2. CASE q \in Messages(pending[s]) \/ <<q, s>> \in lost
    <3>1. Held(q, s)'
      BY <1>5, <2>2 DEF Held
    <3> QED
      BY <2>1, <3>1
  <2>3. CASE \E d \in ServerChan : d[1] = s /\ q \in Messages(out[d]) \cup Messages(in[d])
    <3>1. PICK d \in ServerChan : d[1] = s /\ q \in Messages(out[d]) \cup Messages(in[d])
      BY <2>3
    <3>2. q \in Messages(out'[d]) \cup Messages(in'[d])
      BY <1>1, <1>2, <1>4, <2>1, <3>1, Chans
    <3> QED
      BY <2>1, <3>1, <3>2 DEF Held
  <2> QED
    BY <2>1, <2>2, <2>3 DEF Held
<1> QED
  BY <1>6 DEF NoneLost

LEMMA NextHeld ==
    ASSUME ConnAssumption, ChanInv, NoneLost, [Next]_vars
    PROVE  NoneLost'
<1>1. ConnTypeOK /\ DOMAIN infos \subseteq Request
  BY DEF ChanInv, InfosOfClients
<1>2. ASSUME StaysHeld, infos' = infos
      PROVE  NoneLost'
  BY <1>1, <1>2 DEF NoneLost, StaysHeld
<1>3. CASE \E c \in Chan : Leave(c)
  <2>1. infos' = infos
    BY <1>3 DEF Leave, router
  <2> QED
    BY <1>2, <1>3, <2>1, LeaveHeld
<1>4. CASE \E c \in Chan : ServerTake(c)
  <2>1. infos' = infos
    BY <1>4 DEF ServerTake, router
  <2> QED
    BY <1>2, <1>4, <2>1, ServerTakeHeld
<1>5. ASSUME NEW c \in Chan, ReadEvent(c)
      PROVE  NoneLost'
  <2>1. CASE Head(in[c]) = ServerConnect
    BY <1>2, <1>5, <2>1, ConnectHeld DEF ReadEvent
  <2>2. CASE Head(in[c]) # ServerConnect /\ c \in Client
    BY <1>5, <2>2, ClientEventHeld DEF ReadEvent
  <2>3. CASE Head(in[c]) # ServerConnect /\ c \notin Client
    <3>1. c \in ServerChan /\ AnswerEvent(c[1], Head(in[c]))
      BY <1>5, <2>3, Chans DEF ReadEvent
    <3> QED
      BY <1>5, <2>3, <3>1, AnswerHeld
  <2> QED
    BY <2>1, <2>2, <2>3
<1>6. ASSUME NEW c \in Chan, ReadEnd(c)
      PROVE  NoneLost'
  <2>1. infos' = infos /\ in' = in
    BY <1>6 DEF ReadEnd
  <2>2. CASE c \in Client
    <3>1. SendAll(Destroy(c)) /\ Destroy(c) \in Message
      BY <1>6, <2>2, MessageKinds DEF ReadEnd, delClient
    <3>2. \A r, s : s \in ServerId /\ Held(r, s) => Held(r, s)'
      BY <2>1, <3>1, SendAllHeld
    <3> QED
      BY <1>2, <2>1, <3>2 DEF StaysHeld
  <2>3. CASE c \notin Client
    <3>1. UNCHANGED <<in, out, pending, lost>>
      BY <1>6, <2>3 DEF ReadEnd
    <3> QED
      BY <1>2, <2>1, <3>1, SameHeld
  <2> QED
    BY <2>2, <2>3
<1>7. ASSUME NEW c \in Chan, Connect(c)
      PROVE  NoneLost'
  <2>1. /\ in[c] = Empty /\ UNCHANGED <<out, pending, lost, infos>>
        /\ \A d \in Chan : d # c => in'[d] = in[d]
    BY <1>1, <1>7 DEF Connect, router, ChanInv, Process, ConnTypeOK
  <2>2. \A d \in ServerChan : Messages(in[d]) \subseteq Messages(in'[d])
    BY <2>1, EmptyQueue, Chans
  <2> QED
    BY <1>2, <2>1, <2>2, SameHeld
<1>8. ASSUME NEW c \in Chan, Accept(c) \/ ReadReset(c)
      PROVE  NoneLost'
  <2>1. UNCHANGED <<in, out, pending, lost, infos>>
    BY <1>8 DEF Accept, ReadReset, router
  <2> QED
    BY <1>2, <2>1, SameHeld
<1>9. ASSUME NEW c \in Client, ClientTake(c) \/ ClientAsks(c)
      PROVE  NoneLost'
  <2>1. /\ UNCHANGED <<pending, lost, infos>>
        /\ \A d \in ServerChan : in'[d] = in[d] /\ out'[d] = out[d]
    BY <1>1, <1>9, Chans DEF ClientTake, ClientAsks, router, ConnTypeOK
  <2> QED
    BY <1>2, <2>1, SameHeld
<1>10. CASE UNCHANGED vars
  <2>1. UNCHANGED <<in, out, pending, lost, infos>>
    BY <1>10 DEF vars, router
  <2> QED
    BY <1>2, <2>1, SameHeld
<1> QED
  BY <1>3, <1>4, <1>5, <1>6, <1>7, <1>8, <1>9, <1>10 DEF Next

LEMMA HeldIsThere == NoneLost => NoneMislaid
  BY DEF NoneLost, Held, NoneMislaid, ServerChan

\* Whoever ends, closes or starts, and when: what the processes of a server take of a
\* client is in the order in which the client sent it and nothing is taken twice, and the
\* router itself loses no request: one that is waited for was written to a connection
\* that had ended if it is nowhere else.
THEOREM TakenOnceCorrect ==
    ASSUME ConnAssumption
    PROVE  Spec => []TakenOnce
<1>1. Init => ChanInv /\ InLine /\ NoneLost
  BY InitConn, InitLine DEF NoneLost, Init
<1>2. ChanInv /\ InLine /\ NoneLost /\ [Next]_vars => ChanInv' /\ InLine' /\ NoneLost'
  BY NextConn, NextLine, NextHeld
<1>3. ChanInv /\ InLine /\ NoneLost => TakenOnce
  BY OrderFromLine, HeldIsThere DEF TakenOnce
<1> QED
  BY <1>1, <1>2, <1>3, PTL DEF Spec
=============================================================================
