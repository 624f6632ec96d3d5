------------------------------ MODULE Topology ------------------------------
(***************************************************************************)
(* What the configuration file and the route table fix before the first    *)
(* event: who talks to the router, which communicators exist and which     *)
(* remote objects they name.                                               *)
(*                                                                         *)
(* A remote object is the root object of exactly one server                *)
(* (routeTable.txt has one line per server), so a server stands for the    *)
(* object it serves.  The lists of a communicator are the result of        *)
(* DistCntxt::traverse, which runs once per object and never again.        *)
(***************************************************************************)
EXTENDS Naturals, Sequences, FiniteSets

CONSTANTS
    App,        \* application contexts, clients of the router
    Server,     \* pwrdaemon servers; ServerID and root object in one
    Comm,       \* communicators (DistComm, DistGrpComm), named by their commID
    NoComm,     \* not a communicator
    Owner,      \* the context that builds a communicator
    Members,    \* its lists of remote objects: one for a DistComm, one per
                \* remote object of the group for a DistGrpComm
    Slots,      \* Slots[m][s]: the lists of m that name s, in increasing order
    Nested,     \* the communicator of the root object's aggregated attribute
                \* at a server, NoComm if all its sources are local
    Device,     \* the servers that read and set a device of their own
    Flaky       \* the servers whose device may fail

\* A context is anything that holds a DistCntxt connected to the router: an
\* application, or a server started with POWERAPI_SERVER.
Ctx == App \cup Server

Lists(m) == 1 .. Len(Members[m])

\* One list with one object in it: what the log and sample requests support.
OneObject(m) == Len(Members[m]) = 1 /\ Cardinality(Members[m][1]) = 1

\* One object per list: what a request on an attribute that is not aggregated
\* (canAggregate is false) can be addressed to.
Plain(m) == \A g \in Lists(m) : Cardinality(Members[m][g]) = 1

ASSUME PartiesAssumption ==
    /\ App \cap Server = {}
    /\ IsFiniteSet(Server)
    /\ IsFiniteSet(Comm)
    /\ Flaky \subseteq Device
    /\ Device \subseteq Server

\* The constructor of DistObject asserts that no attribute has both devices and
\* a communicator.
ASSUME CommAssumption ==
    /\ NoComm \notin Comm
    /\ Owner \in [Comm -> Ctx]
    /\ Members \in [Comm -> Seq((SUBSET Server) \ {{}})]
    /\ Nested \in [Server -> Comm \cup {NoComm}]
    /\ \A m \in Comm : Len(Members[m]) > 0
    /\ \A s \in Server : Nested[s] # NoComm =>
         /\ s \notin Device
         /\ Owner[Nested[s]] = s
         /\ Len(Members[Nested[s]]) = 1

ASSUME SlotsAssumption ==
    /\ Slots \in [Comm -> [Server -> Seq(Nat)]]
    /\ \A m \in Comm, s \in Server :
         LET slots == Slots[m][s]
         IN  /\ \A k \in 1 .. Len(slots) :
                    slots[k] \in Lists(m) /\ s \in Members[m][slots[k]]
             /\ \A g \in Lists(m) :
                    s \in Members[m][g] => \E k \in 1 .. Len(slots) : slots[k] = g
             /\ \A j, k \in 1 .. Len(slots) : j < k => slots[j] < slots[k]

\* The remote sources of an attribute are below its object in the hierarchy of
\* the configuration, so no attribute is among its own sources: of any set of
\* servers one has no source in the set.
ASSUME NestingAssumption ==
    \A S \in SUBSET Server :
        S # {} => \E s \in S : Nested[s] # NoComm => Members[Nested[s]][1] \cap S = {}

-----------------------------------------------------------------------------
\* A value is the bag of the devices it was read from, so that a reading that
\* is lost or counted twice on its way shows in the sum.
Value == [Server -> Nat]
Zero == [s \in Server |-> 0]
Reading(s) == [Zero EXCEPT ![s] = 1]
fpAdd(u, v) == [s \in Server |-> u[s] + v[s]]
=============================================================================
