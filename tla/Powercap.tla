------------------------------ MODULE Powercap ------------------------------
(***************************************************************************)
(* The powercap plugin on one package: the energy of its memory is that of *)
(* subzone 0, the energy of its socket is the package's less subzone 0's,  *)
(* both since init.  The two files of a socket are read one after the      *)
(* other while energy is consumed; a file wraps at its max_energy_range.   *)
(***************************************************************************)
EXTENDS Integers

CONSTANTS
    NumZones,     \* subzones of the package
    MaxRange,     \* energy_uj is shown modulo this
    MaxEnergy     \* bound on the energy consumed since boot

PowercapAssumption ==
    /\ NumZones \in Nat
    /\ MaxRange \in Nat \ {0}
    /\ MaxEnergy \in Nat

VARIABLES
    energy,       \* consumed since boot: [zone (in subzone 0), rest (elsewhere)]
    startValue,   \* of subzone 0 and of the package, [zone, pkg]; 0 before init
    ops,          \* "none", "live" or "final"
    call,         \* the read in progress: [pc, type, value0, at]
    reading,      \* the last one that returned: [type, value, from, to]
    energy0       \* history: energy at init

vars == <<energy, startValue, ops, call, reading, energy0>>

Zero == [zone |-> 0, rest |-> 0]
NoCall == [pc |-> 0, type |-> "SOCKET", value0 |-> 0, at |-> Zero]
NoReading == [type |-> "none", value |-> 0, from |-> Zero, to |-> Zero]

Init ==
    /\ energy \in [zone : 0 .. MaxRange, rest : 0 .. MaxRange]
    /\ energy.zone + energy.rest <= MaxEnergy
    /\ startValue = [zone |-> 0, pkg |-> 0]
    /\ ops = "none"
    /\ call = NoCall
    /\ reading = NoReading
    /\ energy0 = energy

Consume(part) ==
    /\ energy.zone + energy.rest < MaxEnergy
    /\ energy' = [energy EXCEPT ![part] = @ + 1]
    /\ UNCHANGED <<startValue, ops, call, reading, energy0>>

\* readValue: what energy_uj shows.
Consumed(e, part) == IF part = "zone" THEN e.zone ELSE e.zone + e.rest
Shown(part) == Consumed(energy, part) % MaxRange

\* readValue2: since init.  A mutant forgets the start.
SinceBoot(part) == Shown(part)
SinceInit(part) == Shown(part) - startValue[part]

\* initPkg and initZone.  Without a subzone the plugin reads what is after an
\* empty array; such a package is left out.
DevInit ==
    /\ ops = "none" /\ NumZones > 0
    /\ ops' = "live"
    /\ startValue' = [zone |-> Shown("zone"), pkg |-> Shown("pkg")]
    /\ energy0' = energy
    /\ UNCHANGED <<energy, call, reading>>

ReadMemory ==
    /\ ops = "live" /\ call.pc = 0
    /\ reading' = [type |-> "MEM", value |-> SinceInit("zone"),
                   from |-> energy, to |-> energy]
    /\ UNCHANGED <<energy, startValue, ops, call, energy0>>

\* A socket: subzone 0, then the package.  A mutant takes the package first.
PkgFirst == "pkg"
First == "zone"
Second == IF First = "zone" THEN "pkg" ELSE "zone"

ReadSocket ==
    /\ ops = "live" /\ call.pc = 0
    /\ call' = [NoCall EXCEPT !.pc = 1, !.value0 = SinceInit(First), !.at = energy]
    /\ UNCHANGED <<energy, startValue, ops, reading, energy0>>

ReadSocketPkg ==
    /\ call.pc = 1
    /\ call' = NoCall
    /\ LET other == SinceInit(Second)
           value == IF First = "zone" THEN other - call.value0
                    ELSE call.value0 - other
       IN  reading' = [type |-> "SOCKET", value |-> value,
                       from |-> call.at, to |-> energy]
    /\ UNCHANGED <<energy, startValue, ops, energy0>>

\* powercap_dev_final frees the array of zones once for each of them, which is
\* once when there is one.
Final ==
    /\ ops = "live" /\ call.pc = 0 /\ NumZones = 1
    /\ ops' = "final"
    /\ UNCHANGED <<energy, startValue, call, reading, energy0>>

Next ==
    \/ \E part \in {"zone", "rest"} : Consume(part)
    \/ DevInit \/ ReadMemory \/ ReadSocket \/ ReadSocketPkg \/ Final

Spec == Init /\ [][Next]_vars

-----------------------------------------------------------------------------
\* No file wrapped since init.
Unwrapped ==
    \A part \in {"zone", "pkg"} :
        Consumed(energy, part) \div MaxRange = Consumed(energy0, part) \div MaxRange

\* README:168, "the powercap plugin does not check for counter wrap around".
\* Until a file wraps, the energy of a socket (pwr_powercap.c:114-118) is at
\* least what the package consumed outside subzone 0 from init to the beginning
\* of the call, and more by no more than the package consumed during the call.
SocketBounds ==
    (reading.type = "SOCKET" /\ Unwrapped) =>
    /\ reading.value >= reading.from.rest - energy0.rest
    /\ reading.value <= reading.to.rest - energy0.rest
                        + reading.to.zone - reading.from.zone

\* A file that wraps makes the energy of a memory (pwr_powercap.c:92-97) smaller
\* than what was consumed since init by a multiple of its range, never larger.
WrapLosesRanges ==
    reading.type = "MEM" =>
    LET spent == reading.from.zone - energy0.zone
    IN  /\ reading.value <= spent
        /\ (spent - reading.value) % MaxRange = 0
=============================================================================
