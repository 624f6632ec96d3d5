-------------------------- MODULE DistGroupProofs --------------------------
(***************************************************************************)
(* Proofs about DistGroup.  SetOnce holds because the two vectors a set    *)
(* runs over have no duplicates and no object in common, and because an    *)
(* object that is not in the group was neither asked for nor set.          *)
(* PureInPlace holds because the vector of a group of one kind is          *)
(* m_allObjs, in its order, as long as nothing was added twice, and        *)
(* because the communicator has the first of the remote objects in theirs. *)
(***************************************************************************)
EXTENDS DistGroup, FiniteSetTheorems, SequenceTheorems, TLAPS

Distinct(seq) == \A i, j \in 1 .. Len(seq) : seq[i] = seq[j] => i = j

GroupTypeOK ==
    /\ list \in Seq(Local)
    /\ distObjs \in Seq(Obj \ Local)
    /\ comm \in Seq(Obj \ Local)
    /\ allObjs \in Seq(Obj)
    /\ asked \in [Obj -> Nat]
    /\ applied \in [Obj -> Nat]

\* The members of the three vectors, and of the communicator.
Members ==
    /\ Distinct(list)
    /\ Distinct(distObjs)
    /\ Distinct(comm)
    /\ Range(comm) \subseteq Range(distObjs)
    /\ Range(allObjs) = Range(list) \cup Range(distObjs)

Fresh == \A o \in Obj \ Range(allObjs) : asked[o] = 0 /\ applied[o] = 0

GInv == GroupTypeOK /\ Members /\ Fresh /\ SetOnce

-----------------------------------------------------------------------------
\* How often an object is in a vector without duplicates.
LEMMA TimesDistinct ==
    ASSUME NEW S, NEW seq \in Seq(S), Distinct(seq), NEW o
    PROVE  Times(o, seq) = IF o \in Range(seq) THEN 1 ELSE 0
<1> DEFINE P == {i \in 1 .. Len(seq) : seq[i] = o}
<1>1. CASE o \in Range(seq)
  <2>1. PICK i \in 1 .. Len(seq) : seq[i] = o
    BY <1>1 DEF Range
  <2>2. P = {i}
    BY <2>1 DEF Distinct
  <2> QED BY <2>2, <1>1, FS_Singleton DEF Times
<1>2. CASE o \notin Range(seq)
  <2>1. P = {}
    BY <1>2 DEF Range
  <2> QED BY <2>1, <1>2, FS_EmptySet DEF Times
<1> QED BY <1>1, <1>2

\* What appending does to the members of a vector.
LEMMA RangeAppend ==
    ASSUME NEW S, NEW seq \in Seq(S), NEW o \in S
    PROVE  /\ Append(seq, o) \in Seq(S)
           /\ Range(Append(seq, o)) = Range(seq) \cup {o}
           /\ Distinct(seq) /\ o \notin Range(seq) => Distinct(Append(seq, o))
<1> DEFINE new == Append(seq, o)
<1>1. /\ new \in Seq(S)
      /\ Len(new) = Len(seq) + 1
      /\ \A i \in 1 .. Len(seq) : new[i] = seq[i]
      /\ new[Len(seq) + 1] = o
      /\ Len(seq) \in Nat
      /\ DOMAIN new = 1 .. Len(seq) + 1
      /\ DOMAIN seq = 1 .. Len(seq)
  OBVIOUS
<1>2. Range(new) = Range(seq) \cup {o}
  <2>1. ASSUME NEW x \in Range(new) PROVE x \in Range(seq) \cup {o}
    BY <1>1 DEF Range
  <2>2. ASSUME NEW x \in Range(seq) PROVE x \in Range(new)
    BY <1>1 DEF Range
  <2>3. o \in Range(new)
    BY <1>1 DEF Range
  <2> QED BY <2>1, <2>2, <2>3
<1>3. ASSUME Distinct(seq), o \notin Range(seq) PROVE Distinct(new)
  <2>1. \A i \in 1 .. Len(seq) : seq[i] # o
    BY <1>1, <1>3 DEF Range
  <2> QED BY <1>1, <1>3, <2>1 DEF Distinct
<1> QED BY <1>1, <1>2, <1>3

LEMMA InitGroup == Init => GInv
<1> SUFFICES ASSUME Init PROVE GInv
  OBVIOUS
<1>1. Range(<<>>) = {}
  BY DEF Range
<1>2. GroupTypeOK
  BY DEF Init, GroupTypeOK
<1>3. Members
  BY <1>1 DEF Init, Members, Distinct
<1> QED BY <1>1, <1>2, <1>3 DEF Init, GInv, Fresh, SetOnce, Joined

\* Which vector an object can be in, and that a call uses a communicator
\* without duplicates whose members are in the group.
LEMMA JoinedFacts ==
    ASSUME GInv
    PROVE  /\ Joined \in Seq(Obj \ Local)
           /\ Distinct(Joined)
           /\ Range(Joined) \subseteq Range(distObjs)
           /\ Range(list) \subseteq Local
           /\ Range(distObjs) \subseteq Obj \ Local
           /\ Range(Joined) \cap Range(list) = {}
<1>1. /\ list \in Seq(Local)
      /\ distObjs \in Seq(Obj \ Local)
      /\ Joined \in Seq(Obj \ Local)
      /\ Distinct(Joined)
  BY DEF GInv, GroupTypeOK, Members, Joined
<1>2. Range(Joined) \subseteq Range(distObjs)
  BY DEF GInv, Members, Joined
<1>3. \A S : \A seq \in Seq(S) : Range(seq) \subseteq S
  BY DEF Range
<1>4. Range(list) \subseteq Local /\ Range(distObjs) \subseteq Obj \ Local
  BY <1>1, <1>3
<1> QED BY <1>1, <1>2, <1>4

LEMMA AddLocalStep ==
    ASSUME GInv, NEW o \in Obj, AddLocal(o)
    PROVE  GInv'
<1> USE GroupAssumption
<1>1. /\ allObjs' \in Seq(Obj)
      /\ Range(allObjs') = Range(allObjs) \cup {o}
  BY RangeAppend DEF AddLocal, GInv, GroupTypeOK
<1>2. /\ list' \in Seq(Local)
      /\ Distinct(list')
      /\ Range(list') = Range(list) \cup {o}
  <2>1. CASE o \in Range(list)
    BY <2>1 DEF AddLocal, Join, GInv, GroupTypeOK, Members
  <2>2. CASE o \notin Range(list)
    BY <2>2, RangeAppend DEF AddLocal, Join, GInv, GroupTypeOK, Members
  <2> QED BY <2>1, <2>2
<1>3. UNCHANGED <<distObjs, comm, asked, applied>> /\ Joined' = Joined
  BY DEF AddLocal, Joined
<1>4. GroupTypeOK' /\ Members'
  BY <1>1, <1>2, <1>3 DEF GInv, GroupTypeOK, Members, Distinct
<1>5. Fresh'
  BY <1>1, <1>3 DEF GInv, Fresh
<1>6. SetOnce'
  <2>1. applied[o] = asked[o]
    <3>1. CASE o \in Range(allObjs)
      BY <3>1, JoinedFacts DEF GInv, Members, SetOnce, AddLocal
    <3>2. CASE o \notin Range(allObjs)
      BY <3>2 DEF GInv, Fresh
    <3> QED BY <3>1, <3>2
  <2> QED BY <2>1, <1>2, <1>3 DEF GInv, SetOnce
<1> QED BY <1>4, <1>5, <1>6 DEF GInv

LEMMA AddRemoteStep ==
    ASSUME GInv, NEW o \in Obj, AddRemote(o)
    PROVE  GInv'
<1> USE GroupAssumption
<1>1. /\ allObjs' \in Seq(Obj)
      /\ Range(allObjs') = Range(allObjs) \cup {o}
  BY RangeAppend DEF AddRemote, GInv, GroupTypeOK
<1>2. /\ distObjs' \in Seq(Obj \ Local)
      /\ Distinct(distObjs')
      /\ Range(distObjs') = Range(distObjs) \cup {o}
  BY RangeAppend DEF AddRemote, GInv, GroupTypeOK, Members
<1>3. UNCHANGED <<list, comm, asked, applied>>
  BY DEF AddRemote
<1>4. Range(Joined') \subseteq Range(Joined) \cup {o}
  BY <1>2, <1>3 DEF Joined
<1>5. GroupTypeOK' /\ Members'
  BY <1>1, <1>2, <1>3 DEF GInv, GroupTypeOK, Members, Distinct
<1>6. Fresh'
  BY <1>1, <1>3 DEF GInv, Fresh
<1>7. SetOnce'
  <2>1. applied[o] = asked[o]
    <3>1. o \notin Range(allObjs)
      BY JoinedFacts DEF GInv, Members, AddRemote
    <3> QED BY <3>1 DEF GInv, Fresh
  <2> QED BY <2>1, <1>3, <1>4 DEF GInv, SetOnce
<1> QED BY <1>5, <1>6, <1>7 DEF GInv

\* Using the communicator makes it, and changes nothing else about the vectors.
LEMMA UseComm ==
    ASSUME GInv, comm' = Joined, UNCHANGED <<list, distObjs, allObjs>>
    PROVE  /\ list' \in Seq(Local)
           /\ distObjs' \in Seq(Obj \ Local)
           /\ comm' \in Seq(Obj \ Local)
           /\ allObjs' \in Seq(Obj)
           /\ Members'
           /\ Joined' = Joined
<1>1. Joined' = Joined
  BY DEF Joined
<1>2. Members'
  BY JoinedFacts DEF GInv, Members, Distinct
<1> QED BY <1>1, <1>2, JoinedFacts DEF GInv, GroupTypeOK

LEMMA SetStep ==
    ASSUME GInv, SetValues
    PROVE  GInv'
<1> DEFINE n(o) == IF o \in Range(list) \cup Range(Joined) THEN 1 ELSE 0
<1>1. UNCHANGED <<list, distObjs, allObjs>> /\ comm' = Joined
  BY DEF SetValues
<1>2. ASSUME NEW o \in Obj
      PROVE  /\ Times(o, list) \in Nat
             /\ Times(o, Joined) \in Nat
             /\ Times(o, list) + Times(o, Joined) = n(o)
  <2>1. Times(o, list) = IF o \in Range(list) THEN 1 ELSE 0
    <3>1. list \in Seq(Local) /\ Distinct(list)
      BY DEF GInv, GroupTypeOK, Members
    <3> QED BY <3>1, TimesDistinct
  <2>2. Times(o, Joined) = IF o \in Range(Joined) THEN 1 ELSE 0
    BY TimesDistinct, JoinedFacts
  <2> QED BY <2>1, <2>2, JoinedFacts
<1>3. \A o \in Obj : applied'[o] = applied[o] + n(o)
  BY <1>2 DEF SetValues, GInv, GroupTypeOK
<1>4. \A o \in Obj :
         asked'[o] = IF o \in Range(allObjs) THEN asked[o] + 1 ELSE asked[o]
  BY DEF SetValues, GInv, GroupTypeOK
<1>5. GroupTypeOK' /\ Members' /\ Joined' = Joined
  <2>1. asked' \in [Obj -> Nat] /\ applied' \in [Obj -> Nat]
    BY <1>2 DEF SetValues, GInv, GroupTypeOK
  <2> QED BY <2>1, <1>1, UseComm DEF GroupTypeOK
<1>6. \A o \in Obj : n(o) = 1 => o \in Range(allObjs)
  BY JoinedFacts DEF GInv, Members
<1>7. Fresh'
  BY <1>1, <1>3, <1>4, <1>6 DEF GInv, Fresh
<1>8. SetOnce'
  BY <1>1, <1>3, <1>4, <1>5, <1>6 DEF GInv, SetOnce, GroupTypeOK
<1> QED BY <1>5, <1>7, <1>8 DEF GInv

LEMMA GetStep ==
    ASSUME GInv, GetValues
    PROVE  GInv'
<1>1. UNCHANGED <<list, distObjs, allObjs, asked, applied>> /\ comm' = Joined
  BY DEF GetValues
<1>2. Members' /\ Joined' = Joined /\ GroupTypeOK'
  BY <1>1, UseComm DEF GInv, GroupTypeOK
<1> QED BY <1>1, <1>2 DEF GInv, Fresh, SetOnce

LEMMA NextGroup == GInv /\ [Next]_vars => GInv'
<1> SUFFICES ASSUME GInv, [Next]_vars PROVE GInv'
  OBVIOUS
<1>1. ASSUME NEW o \in Obj, AddLocal(o) PROVE GInv'
  BY <1>1, AddLocalStep
<1>2. ASSUME NEW o \in Obj, AddRemote(o) PROVE GInv'
  BY <1>2, AddRemoteStep
<1>3. CASE GetValues
  BY <1>3, GetStep
<1>4. CASE SetValues
  BY <1>4, SetStep
<1>5. CASE UNCHANGED vars
  BY <1>5 DEF vars, GInv, GroupTypeOK, Members, Distinct, Fresh, SetOnce, Joined
<1> QED BY <1>1, <1>2, <1>3, <1>4, <1>5 DEF Next

-----------------------------------------------------------------------------
\* DistGrp::attrSetValues sets each object of the group once, except a remote
\* object that was added after the communicator was made, for any number of
\* objects and calls, in any order.
THEOREM SetOnceCorrect == Spec => []SetOnce
<1>1. GInv => SetOnce
  BY DEF GInv
<1> QED BY <1>1, InitGroup, NextGroup, PTL DEF Spec
-----------------------------------------------------------------------------
\* The communicator has the first of the remote objects, in their order.
CommIsPrefix ==
    /\ Len(comm) <= Len(distObjs)
    /\ \A i \in 1 .. Len(comm) : comm[i] = distObjs[i]

\* In a group of one kind without duplicates the vectors agree.
OneVector ==
    NoDuplicates => /\ distObjs = <<>> => list = allObjs
                    /\ list = <<>> => distObjs = allObjs

\* The buffer of an earlier read has no value for an object added since.
BufferOfGroup == DOMAIN buffer \subseteq Slots(allObjs)

BInv == CommIsPrefix /\ OneVector /\ BufferOfGroup /\ PureInPlace

\* The object and the attribute of a value are there.
LEMMA SlotOf ==
    ASSUME NEW n \in Nat, NEW p \in 1 .. n * NAttr
    PROVE  ObjOf(p) \in 1 .. n /\ AttrOf(p) \in 1 .. NAttr
<1> USE GroupAssumption
<1>1. PICK q \in Int : q = (p - 1) \div NAttr
  OBVIOUS
<1>2. PICK r \in Int : r = (p - 1) % NAttr
  OBVIOUS
<1>3. p - 1 \in Nat /\ p - 1 < n * NAttr
  OBVIOUS
<1>4. p - 1 = NAttr * q + r /\ r \in 0 .. NAttr - 1
  BY <1>1, <1>2, <1>3
<1>5. q >= 0
  BY <1>3, <1>4
<1>6. q < n
  BY <1>3, <1>4, <1>5
<1> QED BY <1>1, <1>2, <1>4, <1>5, <1>6 DEF ObjOf, AttrOf

\* Adding an object to m_allObjs leaves the values of the others where they are.
LEMMA Kept ==
    ASSUME GInv, BInv, NEW o \in Obj, allObjs' = Append(allObjs, o),
           UNCHANGED <<buffer, status>>
    PROVE  /\ BufferOfGroup'
           /\ NoDuplicates' => NoDuplicates /\ o \notin Range(allObjs)
           /\ ValuesInPlace => ValuesInPlace'
<1> USE GroupAssumption
<1>1. PICK n \in Nat : n = Len(allObjs)
  BY DEF GInv, GroupTypeOK
<1>2. /\ Len(allObjs') = n + 1
      /\ \A i \in 1 .. n : allObjs'[i] = allObjs[i]
      /\ allObjs'[n + 1] = o
  BY <1>1 DEF GInv, GroupTypeOK
<1>3. BufferOfGroup'
  <2>1. n * NAttr \in Nat /\ (n + 1) * NAttr \in Nat /\ n * NAttr <= (n + 1) * NAttr
    OBVIOUS
  <2> QED BY <2>1, <1>1, <1>2 DEF BInv, BufferOfGroup, Slots
<1>4. ASSUME NoDuplicates' PROVE NoDuplicates /\ o \notin Range(allObjs)
  <2>1. NoDuplicates
    BY <1>1, <1>2, <1>4 DEF NoDuplicates
  <2>2. ASSUME NEW i \in 1 .. n, allObjs[i] = o PROVE FALSE
    <3>1. i \in 1 .. Len(allObjs') /\ n + 1 \in 1 .. Len(allObjs')
      BY <1>2
    <3>2. i = n + 1
      BY <3>1, <2>2, <1>2, <1>4 DEF NoDuplicates
    <3> QED BY <3>2
  <2> QED BY <2>1, <2>2, <1>1 DEF GInv, GroupTypeOK, Range
<1>5. ASSUME ValuesInPlace PROVE ValuesInPlace'
  <2> SUFFICES ASSUME NEW p \in DOMAIN buffer PROVE InPlace(p)'
    BY DEF ValuesInPlace
  <2>1. ObjOf(p) \in 1 .. n
    BY <1>1, SlotOf DEF BInv, BufferOfGroup, Slots
  <2>2. allObjs'[ObjOf(p)] = allObjs[ObjOf(p)]
    BY <2>1, <1>2
  <2> QED BY <1>5, <2>2 DEF ValuesInPlace, InPlace
<1> QED BY <1>3, <1>4, <1>5

LEMMA AddLocalBuffer ==
    ASSUME GInv, BInv, NEW o \in Obj, AddLocal(o)
    PROVE  BInv'
<1>1. allObjs' = Append(allObjs, o) /\ UNCHANGED <<buffer, status, distObjs, comm>>
  BY DEF AddLocal
<1>2. list' # <<>>
  <2>1. list \in Seq(Local) /\ o \in Local
    BY DEF AddLocal, GInv, GroupTypeOK
  <2>2. CASE o \in Range(list)
    <3>1. list # <<>>
      BY <2>2 DEF Range
    <3> QED BY <3>1, <2>2 DEF AddLocal, Join
  <2>3. CASE o \notin Range(list)
    <3>1. Append(list, o) # <<>>
      BY <2>1, AppendProperties
    <3> QED BY <3>1, <2>3 DEF AddLocal, Join
  <2> QED BY <2>2, <2>3
<1>3. OneVector'
  <2> SUFFICES ASSUME NoDuplicates', distObjs = <<>> PROVE list' = allObjs'
    BY <1>1, <1>2 DEF OneVector
  <2>1. NoDuplicates /\ o \notin Range(allObjs)
    BY <1>1, Kept
  <2>2. list = allObjs
    BY <2>1 DEF BInv, OneVector
  <2> QED BY <2>1, <2>2 DEF AddLocal, Join
<1>4. PureInPlace'
  <2> SUFFICES ASSUME NoDuplicates', distObjs = <<>> PROVE ValuesInPlace'
    BY <1>1, <1>2 DEF PureInPlace
  <2> QED BY <1>1, Kept DEF BInv, PureInPlace
<1> QED BY <1>1, <1>3, <1>4, Kept DEF BInv, CommIsPrefix

LEMMA AddRemoteBuffer ==
    ASSUME GInv, BInv, NEW o \in Obj, AddRemote(o)
    PROVE  BInv'
<1>1. allObjs' = Append(allObjs, o) /\ UNCHANGED <<buffer, status, list, comm>>
  BY DEF AddRemote
<1>2. /\ Len(distObjs') = Len(distObjs) + 1
      /\ \A i \in 1 .. Len(distObjs) : distObjs'[i] = distObjs[i]
      /\ distObjs' # <<>>
      /\ Len(distObjs) \in Nat
      /\ Len(comm) \in Nat
  <2>1. /\ distObjs \in Seq(Obj \ Local)
        /\ comm \in Seq(Obj \ Local)
        /\ o \in Obj \ Local
        /\ distObjs' = Append(distObjs, o)
    BY DEF AddRemote, GInv, GroupTypeOK
  <2>2. Append(distObjs, o) # <<>>
    BY <2>1, AppendProperties
  <2> QED BY <2>1, <2>2
<1>3. OneVector'
  <2> SUFFICES ASSUME NoDuplicates', list = <<>> PROVE distObjs' = allObjs'
    BY <1>1, <1>2 DEF OneVector
  <2>1. distObjs = allObjs
    BY <1>1, Kept DEF BInv, OneVector
  <2> QED BY <2>1 DEF AddRemote
<1>4. PureInPlace'
  <2> SUFFICES ASSUME NoDuplicates', list = <<>> PROVE ValuesInPlace'
    BY <1>1, <1>2 DEF PureInPlace
  <2> QED BY <1>1, Kept DEF BInv, PureInPlace
<1>5. CommIsPrefix'
  BY <1>1, <1>2 DEF BInv, CommIsPrefix
<1> QED BY <1>1, <1>3, <1>4, <1>5, Kept DEF BInv

\* The communicator a call uses has the first of the remote objects.
LEMMA JoinedPrefix ==
    ASSUME GInv, BInv, comm' = Joined, UNCHANGED distObjs
    PROVE  CommIsPrefix' /\ (RequestFits => Joined = distObjs)
<1>1. /\ distObjs \in Seq(Obj \ Local)
      /\ Joined \in Seq(Obj \ Local)
      /\ Len(Joined) <= Len(distObjs)
      /\ \A i \in 1 .. Len(Joined) : Joined[i] = distObjs[i]
  BY DEF GInv, GroupTypeOK, BInv, CommIsPrefix, Joined
<1>2. RequestFits => Joined = distObjs
  BY <1>1 DEF RequestFits
<1> QED BY <1>1, <1>2 DEF CommIsPrefix

\* What attrGetValues stores is where the caller looks for it.
LEMMA GetBuffer ==
    ASSUME GInv, BInv, GetValues
    PROVE  BInv'
<1> USE GroupAssumption
<1>1. /\ UNCHANGED <<list, distObjs, allObjs>>
      /\ comm' = Joined
      /\ RequestFits
  BY DEF GetValues
<1>2. PICK done \in [Range(allObjs) -> 0 .. NAttr] :
         buffer' = Filled(done) /\ status' = Errors(done)
  BY DEF GetValues
<1>3. DOMAIN buffer' = Slots(allObjs)
  BY <1>2 DEF Filled
<1>4. PureInPlace'
  <2> SUFFICES ASSUME NoDuplicates, list = <<>> \/ distObjs = <<>>,
                      NEW p \in Slots(allObjs)
               PROVE  InPlace(p)'
    BY <1>1, <1>3 DEF PureInPlace, NoDuplicates, ValuesInPlace
  <2> DEFINE o == allObjs[ObjOf(p)]
             k == AttrOf(p)
  <2>1. PICK n \in Nat : n = Len(allObjs)
    BY DEF GInv, GroupTypeOK
  <2>2. ObjOf(p) \in 1 .. n /\ k \in 1 .. NAttr
    BY <2>1, SlotOf DEF Slots
  <2>3. o \in Range(allObjs) /\ done[o] \in 0 .. NAttr
    <3>1. o \in Range(allObjs)
      BY <2>1, <2>2 DEF Range, GInv, GroupTypeOK
    <3> QED BY <3>1, <1>2
  <2>4. CASE distObjs = <<>>
    <3>1. list = allObjs
      BY <2>4 DEF BInv, OneVector
    <3>2. Slots(distObjs) = {}
      BY <2>4 DEF Slots
    <3>3. buffer'[p] = LocalValue(o, k, done)
      BY <1>2, <3>1, <3>2 DEF Filled
    <3>4. o \in Local
      BY <3>1, <2>3, JoinedFacts
    <3>5. CASE k <= done[o]
      <4>1. k # done[o] + 1
        BY <3>5, <2>2, <2>3
      <4>2. LocalValue(o, k, done) = Reading(o, k)
        BY <3>5, <4>1 DEF LocalValue
      <4> QED BY <4>2, <3>3, <1>1 DEF InPlace
    <3>6. CASE ~(k <= done[o])
      <4>1. done[o] < NAttr /\ done[o] + 1 \in 1 .. k
        BY <3>6, <2>2, <2>3
      <4>2. <<o, done[o] + 1>> \in status'
        BY <4>1, <3>1, <2>3, <1>2 DEF Errors
      <4> QED BY <4>1, <4>2, <3>4, <1>1 DEF InPlace
    <3> QED BY <3>5, <3>6
  <2>5. CASE list = <<>>
    <3>1. distObjs = allObjs /\ Joined = distObjs
      BY <2>5, <1>1, JoinedPrefix DEF BInv, OneVector
    <3>2. buffer'[p] = RemoteValue(o, k, done)
      BY <1>2, <3>1 DEF Filled
    <3>3. o \notin Local
      BY <3>1, <2>3, JoinedFacts
    <3> QED BY <3>2, <3>3, <1>1 DEF RemoteValue, InPlace
  <2> QED BY <2>4, <2>5
<1>5. OneVector' /\ BufferOfGroup'
  BY <1>1, <1>3 DEF BInv, OneVector, NoDuplicates, BufferOfGroup
<1> QED BY <1>1, <1>4, <1>5, JoinedPrefix DEF BInv

LEMMA SetBuffer ==
    ASSUME GInv, BInv, SetValues
    PROVE  BInv'
<1>1. UNCHANGED <<list, distObjs, allObjs, buffer, status>> /\ comm' = Joined
  BY DEF SetValues
<1>2. PureInPlace' /\ OneVector' /\ BufferOfGroup'
  BY <1>1 DEF BInv, PureInPlace, OneVector, BufferOfGroup, NoDuplicates,
              ValuesInPlace, InPlace
<1> QED BY <1>1, <1>2, JoinedPrefix DEF BInv

LEMMA InitBuffer == Init => BInv
BY DEF Init, BInv, CommIsPrefix, OneVector, BufferOfGroup, PureInPlace,
       ValuesInPlace

LEMMA NextBuffer == GInv /\ BInv /\ [Next]_vars => BInv'
<1> SUFFICES ASSUME GInv, BInv, [Next]_vars PROVE BInv'
  OBVIOUS
<1>1. ASSUME NEW o \in Obj, AddLocal(o) PROVE BInv'
  BY <1>1, AddLocalBuffer
<1>2. ASSUME NEW o \in Obj, AddRemote(o) PROVE BInv'
  BY <1>2, AddRemoteBuffer
<1>3. CASE GetValues
  BY <1>3, GetBuffer
<1>4. CASE SetValues
  BY <1>4, SetBuffer
<1>5. CASE UNCHANGED vars
  BY <1>5 DEF vars, BInv, CommIsPrefix, OneVector, BufferOfGroup, PureInPlace,
              NoDuplicates, ValuesInPlace, InPlace
<1> QED BY <1>1, <1>2, <1>3, <1>4, <1>5 DEF Next

\* In a group of local objects, or of remote ones, each added once,
\* DistGrp::attrGetValues stores the values of object j of m_allObjs at its
\* place in the caller's buffer, or there is an error for them, for any number
\* of objects and attributes and wherever a device fails.
THEOREM PureInPlaceCorrect == Spec => []PureInPlace
<1>1. BInv => PureInPlace
  BY DEF BInv
<1> QED BY <1>1, InitGroup, NextGroup, InitBuffer, NextBuffer, PTL DEF Spec
=============================================================================
