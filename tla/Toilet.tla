------------------------------- MODULE Toilet -------------------------------
(***************************************************************************)
(* The core handles of the toilet plugin: the cpufreq files of the cpus.   *)
(* A write of one attribute is several writes of files, and stops at the   *)
(* first that fails.  Frequencies are in units of 100 MHz.                 *)
(***************************************************************************)
EXTENDS Integers, Sequences

CONSTANTS
    Cpu,          \* cpus
    Core,         \* core objects
    CpuOf,        \* [Core -> Cpu]: the cpu in the open string "coreN"
    Hwloc         \* whether the open strings are those of getDevOpenStr

ToiletAssumption ==
    /\ Cpu \subseteq Nat /\ 0 \in Cpu
    /\ CpuOf \in [Core -> Cpu]
    /\ Hwloc \in BOOLEAN

VARIABLE files    \* cpuN/cpufreq/scaling_*, of each cpu

LinuxGov == {"ondemand", "performance", "conservative", "powersave", "userspace", "schedutil"}

\* toilet_open: getDevOpenStr has neither "pkg" nor "core" in it, which leaves the
\* handle that of cpu 0.
Drives(c) == IF Hwloc THEN 0 ELSE CpuOf[c]

DefaultMax == 32
DefaultMin == 16

\* toilet_write of a core: the files in the order they are written.  A governor
\* that is not userspace comes after the default limits.  In a mutant it comes first.
File(name, value) == [name |-> name, value |-> value]
Governor(v) == IF v \in LinuxGov THEN v ELSE "schedutil"
GovernorFirst(v) ==
    IF v = "userspace" THEN <<File("governor", v)>>
    ELSE <<File("governor", Governor(v)), File("max", DefaultMax), File("min", DefaultMin)>>
GovWrites(v) ==
    IF v = "userspace" THEN <<File("governor", v)>>
    ELSE <<File("max", DefaultMax), File("min", DefaultMin), File("governor", Governor(v))>>

Writes(attr, v) ==
    CASE attr = "GOV" -> GovWrites(v)
      [] attr = "FREQ" -> <<File("setspeed", v), File("max", v), File("min", v)>>
      [] attr = "FREQ_LIMIT_MAX" -> <<File("max", v)>>
      [] attr = "FREQ_LIMIT_MIN" -> <<File("min", v)>>
      [] OTHER -> <<>>

\* The names of the first k files of an attribute, none of which is written twice, and
\* the files of a cpu after those of some names were.
Names(attr, v, k) == {Writes(attr, v)[i].name : i \in 1 .. k}
Value(attr, v, name) ==
    LET i == CHOOSE j \in 1 .. Len(Writes(attr, v)) : Writes(attr, v)[j].name = name
    IN  Writes(attr, v)[i].value
Overwritten(f, attr, v, names) ==
    [name \in DOMAIN f |-> IF name \in names THEN Value(attr, v, name) ELSE f[name]]

\* The files after the first k of the writes of an attribute of core c.
AfterWrites(fs, c, attr, v, k) ==
    [fs EXCEPT ![Drives(c)] = Overwritten(@, attr, v, Names(attr, v, k))]

\* All of them were written; FREQ returns nothing that can be relied on.
Complete(attr, v, k) == Writes(attr, v) # <<>> /\ k = Len(Writes(attr, v))

\* toilet_read: a governor that has no name here leaves the value as it was.
CoreAttr == {"FREQ", "FREQ_LIMIT_MAX", "FREQ_LIMIT_MIN", "GOV"}
ReadCore(c, attr, old) ==
    LET f == files[Drives(c)]
    IN  CASE attr = "FREQ_LIMIT_MAX" -> f.max
          [] attr = "FREQ_LIMIT_MIN" -> f.min
          [] attr = "GOV" -> IF f.governor \in LinuxGov THEN f.governor ELSE old
          [] OTHER -> old

InitFiles ==
    files = [p \in Cpu |-> [governor |-> "userspace", max |-> DefaultMax,
                            min |-> DefaultMin, setspeed |-> DefaultMin]]
=============================================================================
