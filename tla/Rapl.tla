-------------------------------- MODULE Rapl --------------------------------
(***************************************************************************)
(* The RAPL plugin: how it finds the packages, which MSR file it opens for *)
(* each, and what a read of energy adds up while the counters, which are   *)
(* 32 bits wide, go on.                                                    *)
(*                                                                         *)
(* A counter is kept as the energy since boot; the MSR shows it modulo     *)
(* Counts.  Units are those of the MSR.                                   *)
(***************************************************************************)
EXTENDS Naturals, Sequences, FiniteSets, SequencesExt, FiniteSetsExt

CONSTANTS
    CpuTable,     \* physical_package_id of cpu 0, 1, ..., for each system
    CpuModel,     \* "client" (SANDY, IVY, HASWELL) or "EP" (SANDY_EP, IVY_EP)
    Counts,       \* how many values a counter has: 2^32
    MaxEnergy,    \* bound on the energy of the system since boot
    Fails,        \* whether opening or reading an MSR may fail
    MaxReads,     \* bound on the reads
    Nothing       \* NULL, and the value of a read that failed

Domain == {"PP0", "PP1", "DRAM"}
Type == {"SOCKET", "MEM"}

RaplAssumption ==
    /\ CpuTable # {}
    /\ \A t \in CpuTable : t \in Seq(Nat) /\ t # <<>>
    /\ CpuModel \in {"client", "EP"}
    /\ Counts \in Nat \ {0} /\ MaxEnergy \in Nat /\ MaxReads \in Nat
    /\ Fails \in BOOLEAN
    /\ Nothing \notin Nat

VARIABLES
    packageOf,  \* the system: package of each cpu
    consumed,   \* energy since boot of each package and domain
    pkgs,       \* priv->pkgs: number of the cpu whose MSRs are read, or NULL
    fd,         \* the open handle: [type, index, dev]
    call,       \* the read in progress: [pc, energy, before]
    reads       \* results of the reads of fd: [energy, before, after]

vars == <<packageOf, consumed, pkgs, fd, call, reads>>

Package == Range(packageOf)
Boot(E) == [p \in Package |-> [d \in Domain |-> E]]

-----------------------------------------------------------------------------
(* Initialisation.                                                         *)

\* _pwr_rapldev_init( core ): opens the MSR file of cpu `core` and reads its
\* units; NULL when that fails.
InitPackage(core, ok) == IF ok THEN core ELSE Nothing

\* The loop of pwr_rapldev_init over the cpus: a package number above those
\* seen so far is a new package.  A mutant takes every change of the number.
NewAtChange(found, k) == k = 1 \/ packageOf[k] # packageOf[k - 1]
NewPackage(found, k) == packageOf[k] + 1 > Len(found)

\* The argument of _pwr_rapldev_init is the number of the package.
Found(ok) ==
    FoldLeft(LAMBDA found, k :
                 IF NewPackage(found, k)
                 THEN Append(found, InitPackage(Len(found), ok[Len(found)]))
                 ELSE found,
             <<>>, [k \in 1 .. Len(packageOf) |-> k])

RaplInit ==
    /\ packageOf \in CpuTable
    /\ consumed = Boot(0)
    /\ \E ok \in [0 .. Len(packageOf) - 1 -> IF Fails THEN BOOLEAN ELSE {TRUE}] :
           pkgs = Found(ok)
    /\ fd = Nothing
    /\ call = [pc |-> 0]
    /\ reads = <<>>

-----------------------------------------------------------------------------
(* The counters.                                                           *)

Consume(p, d) ==
    /\ MapThenSumSet(LAMBDA q : MapThenSumSet(LAMBDA e : consumed[q][e], Domain),
                     Package) < MaxEnergy
    /\ consumed' = [consumed EXCEPT ![p][d] = @ + 1]
    /\ UNCHANGED <<packageOf, pkgs, fd, call, reads>>

\* The MSRs of a cpu are those of the package it is on.
Msr(cpu, d) == consumed[packageOf[cpu + 1]][d] % Counts

-----------------------------------------------------------------------------
(* open, read, close.                                                      *)

\* rapldev_parse_open: "dram" is another name of "pp1".  A mutant has one layer
\* too many.
LayersAndMore(type) == <<"pp0", "pp1", "pp1">>
Layers(type) == IF type = "SOCKET" THEN <<"pp0", "pp1">> ELSE <<"pp1">>

\* rapldev_gather: which counter is behind a layer depends on the model.
DomainOf(layer) ==
    CASE layer = "pp0" -> "PP0"
      [] layer = "pp1" /\ CpuModel = "client" -> "PP1"
      [] OTHER -> "DRAM"

\* assert( global_index < info->numPkgs ).
CanOpen(index) == index < Len(pkgs)

Open(type, index) ==
    /\ fd = Nothing /\ CanOpen(index)
    /\ fd' = [type |-> type, index |-> index, dev |-> pkgs[index + 1]]
    /\ UNCHANGED <<packageOf, consumed, pkgs, call, reads>>

\* A read of PWR_ATTR_ENERGY.  Reading through a NULL device ends the process.
Read ==
    /\ fd # Nothing /\ call.pc = 0 /\ Len(reads) < MaxReads
    /\ fd.dev # Nothing
    /\ call' = [pc |-> 1, energy |-> 0, before |-> consumed]
    /\ UNCHANGED <<packageOf, consumed, pkgs, fd, reads>>

\* energy += value.  A mutant assigns.
Assigned(energy, value) == value
Added(energy, value) == energy + value

\* One turn of the loop over the layers; the counters go on between turns.
Gather ==
    /\ call.pc > 0 /\ call.pc <= Len(Layers(fd.type))
    /\ LET d == DomainOf(Layers(fd.type)[call.pc])
       IN  call' = [call EXCEPT !.pc = @ + 1,
                                !.energy = Added(@, Msr(fd.dev, d))]
    /\ UNCHANGED <<packageOf, consumed, pkgs, fd, reads>>

\* A layer that cannot be read ends the call with -1.
GatherFails ==
    /\ Fails
    /\ call.pc > 0 /\ call.pc <= Len(Layers(fd.type))
    /\ call' = [pc |-> 0]
    /\ reads' = Append(reads, [energy |-> Nothing, before |-> call.before,
                               after |-> consumed])
    /\ UNCHANGED <<packageOf, consumed, pkgs, fd>>

Return ==
    /\ call.pc > 0 /\ call.pc = Len(Layers(fd.type)) + 1
    /\ call' = [pc |-> 0]
    /\ reads' = Append(reads, [energy |-> call.energy, before |-> call.before,
                               after |-> consumed])
    /\ UNCHANGED <<packageOf, consumed, pkgs, fd>>

Close ==
    /\ fd # Nothing /\ call.pc = 0
    /\ fd' = Nothing
    /\ reads' = <<>>
    /\ UNCHANGED <<packageOf, consumed, pkgs, call>>

Next ==
    \/ \E p \in Package, d \in Domain : Consume(p, d)
    \/ \E type \in Type, index \in 0 .. Cardinality(Package) - 1 :
           Open(type, index)
    \/ Read \/ Gather \/ GatherFails \/ Return \/ Close

Spec == RaplInit /\ [][Next]_vars

-----------------------------------------------------------------------------
\* The counters that make up the energy of the open handle.
Domains == {DomainOf(Layers(fd.type)[i]) : i \in DOMAIN Layers(fd.type)}
Own == packageOf[fd.dev + 1]
Energy(at) == MapThenSumSet(LAMBDA d : at[Own][d], Domains)
Wrapped(from, to) ==
    \E d \in Domains : from[Own][d] \div Counts # to[Own][d] \div Counts

\* Every variable keeps its type.
TypeOK ==
    /\ packageOf \in CpuTable
    /\ consumed \in [Package -> [Domain -> 0 .. MaxEnergy]]
    /\ \A i \in DOMAIN pkgs : pkgs[i] \in (0 .. Len(packageOf) - 1) \cup {Nothing}
    /\ fd # Nothing => fd.type \in Type /\ fd.index \in Nat
    /\ call.pc \in 0 .. 3
    /\ \A i \in DOMAIN reads : reads[i].energy \in Nat \cup {Nothing}

\* What a caller computes from two reads of one handle (pwr_rapldev.c:531-546):
\* unless a counter has wrapped between the beginning of the first and the end
\* of the second, the difference is at least what was consumed between the
\* calls and at most what was consumed from the beginning of the first to the
\* end of the second, although the layers are read one after the other.
DifferenceIsConsumption ==
    \A i, j \in DOMAIN reads :
        LET a == reads[i]
            b == reads[j]
        IN  (i < j /\ Nothing \notin {a.energy, b.energy}
             /\ ~Wrapped(a.before, b.after)) =>
            /\ b.energy + Energy(a.after) >= a.energy + Energy(b.before)
            /\ b.energy + Energy(a.before) <= a.energy + Energy(b.after)

\* pwr_rapldev.c:499, "assert( global_index < info->numPkgs )": a system with
\* n packages has sockets 0 .. n - 1, and each can be opened.
SocketCanBeOpened == \A index \in 0 .. Cardinality(Package) - 1 : CanOpen(index)

\* The debug output of pwr_rapldev.c:348, "cpu %d is on package num %d", and
\* the parameter "int core" of _pwr_rapldev_init (371): the MSRs read for a
\* package are those of a cpu on it.
OwnPackage == fd # Nothing /\ fd.dev # Nothing => Own = fd.index

\* README:208, "the energy value for the socket object is derived from adding
\* PP0 and PP1. The energy value for the memory object is based on RAPL DRAM":
\* layers pp1 and dram are one, DRAM on the EP models and PP1 on the others.
LayersAsDocumented ==
    fd # Nothing =>
    Domains = IF fd.type = "SOCKET" THEN {"PP0", "PP1"} ELSE {"DRAM"}

\* distCntxt.cc:392, "assert( m_devMap[ dev.name ].second )": a device whose
\* init failed is not used.  A package that failed is kept as NULL.
HandleHasDevice == fd # Nothing => fd.dev # Nothing
=============================================================================
