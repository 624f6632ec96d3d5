----------------------------- MODULE DistGroup -----------------------------
(***************************************************************************)
(* A DistGrp: a group whose objects are partly local and partly behind the *)
(* router.  The objects are kept in three vectors: m_list (local),         *)
(* m_distObjs (remote) and m_allObjs (what the caller counts and indexes). *)
(* The communicator of the remote ones is made at the first use and kept.  *)
(*                                                                         *)
(* The caller's buffer has NAttr values for each object, object by object. *)
(* What happens behind the communicator is in module Daemon: here a        *)
(* blocking call is one step, and a value stands for the object and the    *)
(* attribute it was read from.                                             *)
(***************************************************************************)
EXTENDS Naturals, Sequences, FiniteSets, Functions

CONSTANTS
    Obj,        \* objects of the context
    Local,      \* those without a communicator (isLocal)
    NAttr,      \* attributes of one call
    MaxObjs,    \* bound on the calls of add that succeed
    MaxCalls,   \* bound on the calls that read or set
    Zero,       \* the value 0, stored before the device is read
    Unset       \* what the caller's buffer held before the call

VARIABLES
    list,       \* m_list
    distObjs,   \* m_distObjs
    allObjs,    \* m_allObjs
    comm,       \* the objects of m_comm, <<>> while it is NULL
    buffer,     \* the caller's buffer after the last read
    status,     \* the errors of the last read, as <<object, attribute>>
    asked,      \* how many set calls an object was a member for
    applied,    \* how many times it was set
    calls       \* calls so far

vars == <<list, distObjs, allObjs, comm, buffer, status, asked, applied, calls>>

ASSUME GroupAssumption ==
    /\ Local \subseteq Obj
    /\ NAttr \in Nat \ {0}
    /\ MaxObjs \in Nat
    /\ MaxCalls \in Nat

Init ==
    /\ list = <<>>
    /\ distObjs = <<>>
    /\ allObjs = <<>>
    /\ comm = <<>>
    /\ buffer = <<>>
    /\ status = {}
    /\ asked = [o \in Obj |-> 0]
    /\ applied = [o \in Obj |-> 0]
    /\ calls = 0

-----------------------------------------------------------------------------
\* Grp::add keeps an object once.  A mutant does not look.
JoinAgain(o) == Append(list, o)
Join(o) == IF o \in Range(list) THEN list ELSE Append(list, o)

\* DistGrp::add of a local object: what Grp::add returns is not looked at.
AddLocal(o) ==
    /\ o \in Local
    /\ Len(allObjs) < MaxObjs
    /\ list' = Join(o)
    /\ allObjs' = Append(allObjs, o)
    /\ UNCHANGED <<distObjs, comm, buffer, status, asked, applied, calls>>

\* DistGrp::add of a remote object; a duplicate is refused.
AddRemote(o) ==
    /\ o \in Obj \ Local
    /\ o \notin Range(distObjs)
    /\ Len(allObjs) < MaxObjs
    /\ distObjs' = Append(distObjs, o)
    /\ allObjs' = Append(allObjs, o)
    /\ UNCHANGED <<list, comm, buffer, status, asked, applied, calls>>

-----------------------------------------------------------------------------
\* The communicator a call uses: the one there is, or a DistGrpComm of the
\* remote objects there are now.
Joined == IF comm = <<>> THEN distObjs ELSE comm

\* "assert( value.size() == ev->value.size() )" in DistRequest::getValue: the
\* answer has a list for each object of the communicator, the request one for
\* each remote object of the group.
RequestFits == Len(distObjs) = Len(Joined)

\* Value p of the buffer is for attribute AttrOf(p) of the object at ObjOf(p).
ObjOf(p) == ((p - 1) \div NAttr) + 1
AttrOf(p) == ((p - 1) % NAttr) + 1
Slots(seq) == 1 .. Len(seq) * NAttr

Reading(o, k) == [obj |-> o, attr |-> k]

\* Object::attrGetValues sets each value to 0 before it reads the device and
\* stops at the first attribute that fails: done[o] of them succeed.
LocalValue(o, k, done) ==
    CASE k <= done[o] -> Reading(o, k)
      [] k = done[o] + 1 -> Zero
      [] OTHER -> Unset

\* A server does the same in a buffer of zeros, and its errors are lost.
RemoteValue(o, k, done) == IF k <= done[o] THEN Reading(o, k) ELSE Zero

NoErrors(done) == {}
Errors(done) ==
    {<<o, done[o] + 1>> : o \in {o \in Range(list) : done[o] < NAttr}}

\* DistGrp::attrGetValues.  The local objects are read to the start of the
\* buffer one after the other.  For the remote ones, j is the position in
\* m_allObjs that the inner loop finds, but the address is made of i, the
\* position in m_distObjs.
Filled(done) ==
    [p \in Slots(allObjs) |->
        CASE p \in Slots(distObjs) -> RemoteValue(Joined[ObjOf(p)], AttrOf(p), done)
          [] p \in Slots(list) \ Slots(distObjs) ->
                LocalValue(list[ObjOf(p)], AttrOf(p), done)
          [] OTHER -> Unset]

GetValues ==
    /\ calls < MaxCalls
    /\ RequestFits
    /\ comm' = Joined
    /\ \E done \in [Range(allObjs) -> 0 .. NAttr] :
         /\ buffer' = Filled(done)
         /\ status' = Errors(done)
    /\ calls' = calls + 1
    /\ UNCHANGED <<list, distObjs, allObjs, asked, applied>>

Times(o, seq) == Cardinality({i \in 1 .. Len(seq) : seq[i] = o})

\* DistGrp::attrSetValues: every object of m_list, then the communicator.  A
\* failure at one object does not keep the others from being set.
SetValues ==
    /\ calls < MaxCalls
    /\ comm' = Joined
    /\ asked' = [o \in Obj |-> IF o \in Range(allObjs) THEN asked[o] + 1 ELSE asked[o]]
    /\ applied' = [o \in Obj |-> applied[o] + Times(o, list) + Times(o, Joined)]
    /\ calls' = calls + 1
    /\ UNCHANGED <<list, distObjs, allObjs, buffer, status>>

Next ==
    \/ \E o \in Obj : AddLocal(o) \/ AddRemote(o)
    \/ GetValues
    \/ SetValues

Spec == Init /\ [][Next]_vars

-----------------------------------------------------------------------------
\* Value p is the one the caller expects there, or there is an error for it.
InPlace(p) ==
    LET o == allObjs[ObjOf(p)]
        k == AttrOf(p)
    IN  \/ buffer[p] = Reading(o, k)
        \/ o \in Local /\ \E e \in 1 .. k : <<o, e>> \in status
        \/ o \notin Local /\ buffer[p] = Zero

ValuesInPlace == \A p \in DOMAIN buffer : InPlace(p)

\* An object is added once: Grp::add refuses a duplicate (group.h:41-46).
NoDuplicates == \A i, j \in 1 .. Len(allObjs) : allObjs[i] = allObjs[j] => i = j

\* The loggers look for the values of object j from j * num on (mult.h:79).
UniqueInPlace == NoDuplicates => ValuesInPlace

\* It is so in a group of local objects, or of remote objects, added once each:
\* what was read is where the caller looks for it, and what was not read has an
\* error, if it is local.
PureInPlace ==
    (NoDuplicates /\ (list = <<>> \/ distObjs = <<>>)) => ValuesInPlace

\* A set reaches every object of the group once, but not a remote object that
\* was added after the first use: the communicator does not know it.
SetOnce ==
    \A o \in Obj :
        /\ applied[o] <= asked[o]
        /\ o \in Range(list) \cup Range(Joined) => applied[o] = asked[o]
=============================================================================
