------------------------------ MODULE Counters ------------------------------
(***************************************************************************)
(* The plugins that read a counter from a file of /sys: cpudev, xtpm and   *)
(* pmc.  All three read a file byte by byte up to a blank.  The counters   *)
(* of xtpm have a generation, which the kernel changes and a reading looks *)
(* at after the counter.                                                   *)
(***************************************************************************)
EXTENDS Integers, Sequences, FiniteSetsExt

CONSTANTS
    MaxGeneration,  \* bound on the generation
    MaxFds,         \* descriptors the process may have
    MaxCalls,       \* bound on the calls
    MaxAttrs        \* bound on the attributes of a readv

CountersAssumption ==
    /\ MaxGeneration \in Nat /\ MaxFds \in Nat /\ MaxCalls \in Nat
    /\ MaxAttrs \in Nat \ {0}

Plugin == {"cpudev", "xtpm", "pmc"}

\* The file of an attribute, or what the plugin says without one.
CpuFile(attr) ==
    CASE attr = "SSTATE" -> "online"
      [] attr = "FREQ" -> "cpufreq"
      [] attr \in {"PSTATE", "CSTATE", "TEMP"} -> "zero"
      [] OTHER -> "none"
XtpmFile(attr) ==
    CASE attr = "ENERGY" -> "energy"
      [] attr = "POWER" -> "power"
      [] attr = "POWER_LIMIT_MAX" -> "power_cap"
      [] OTHER -> "none"
PmcFile(attr) == IF attr \in {"ENERGY", "POWER", "POWER_LIMIT_MAX"} THEN "pmc" ELSE "none"
FileOf(p, attr) ==
    CASE p = "cpudev" -> CpuFile(attr)
      [] p = "xtpm" -> XtpmFile(attr)
      [] OTHER -> PmcFile(attr)
Attr == {"SSTATE", "FREQ", "TEMP", "ENERGY", "POWER_LIMIT_MAX"}

VARIABLES
    generation,   \* pm_counters/generation
    handle,       \* [state, generation] of each plugin's handle
    fds,          \* descriptors each plugin left open
    call,         \* the call in progress
    reading,      \* what the last one returned, if it was a reading
    crashed,      \* strval was overrun
    calls

vars == <<generation, handle, fds, call, reading, crashed, calls>>

NoCall == [step |-> 0]
NoReading == [plugin |-> "none"]

Init ==
    /\ generation = 1
    /\ handle = [p \in Plugin |-> [state |-> "closed", generation |-> 0]]
    /\ fds = [p \in Plugin |-> 0]
    /\ call = NoCall
    /\ reading = NoReading
    /\ crashed = FALSE
    /\ calls = 0

-----------------------------------------------------------------------------
\* cpudev_read forgets its descriptor, the others close it; a mutant of theirs forgets
\* it too.
EveryPlugin(p) == TRUE
Forgets(p) == p = "cpudev"
Open == fds["cpudev"] + fds["xtpm"] + fds["pmc"]

\* Reading a file: what may come of it.  cpufreq is a directory, which can be opened
\* and not read.  online ends without a blank, and read(2) says 0 at the end, not EOF:
\* the loop leaves strval until it meets a blank or what is not mapped.
Outcomes(file) ==
    CASE file = "cpufreq" -> {"failed", "unreadable"}
      [] file = "online" -> {"failed", "read", "overrun"}
      [] OTHER -> {"failed", "unreadable", "read"}

ReadFile(p, file, outcome) ==
    /\ outcome \in IF Open < MaxFds THEN Outcomes(file) ELSE {"failed"}
    /\ fds' = IF Forgets(p) /\ outcome # "failed" THEN [fds EXCEPT ![p] = @ + 1] ELSE fds
    /\ crashed' = (outcome = "overrun")

Idle == ~crashed /\ call = NoCall /\ calls < MaxCalls

\* pwr_xtpmdev_open reads the generation; a handle without one says 0 to everything.
OpenHandle(p) ==
    /\ Idle /\ handle[p].state = "closed"
    /\ IF p = "xtpm"
       THEN \E outcome \in {"failed", "unreadable", "read"} :
                /\ ReadFile(p, "generation", outcome)
                /\ handle' = [handle EXCEPT ![p] =
                                 IF outcome = "read"
                                 THEN [state |-> "open", generation |-> generation]
                                 ELSE [state |-> "null", generation |-> 0]]
       ELSE /\ handle' = [handle EXCEPT ![p].state = "open"]
            /\ UNCHANGED <<fds, crashed>>
    /\ reading' = NoReading
    /\ calls' = calls + 1
    /\ UNCHANGED <<generation, call>>

CloseHandle(p) ==
    /\ Idle /\ handle[p].state # "closed"
    /\ handle' = [handle EXCEPT ![p].state = "closed"]
    /\ reading' = NoReading
    /\ calls' = calls + 1
    /\ UNCHANGED <<generation, fds, call, crashed>>

\* read, readv of n attributes, of which each is read, and time.
Begin(p, attr, n) ==
    /\ Idle /\ handle[p].state # "closed"
    /\ call' = [step |-> 1, plugin |-> p, attr |-> attr, left |-> n,
                value |-> 0, old |-> handle[p].generation, warned |-> FALSE]
    /\ reading' = NoReading
    /\ calls' = calls + 1
    /\ UNCHANGED <<generation, handle, fds, crashed>>

\* The end of one reading; a readv goes on with the next, whatever came of this one.
Return(rc, c) ==
    /\ reading' = [plugin |-> c.plugin, rc |-> rc, value |-> c.value, old |-> c.old,
                   warned |-> c.warned]
    /\ call' = IF c.left > 1
               THEN [c EXCEPT !.step = 1, !.left = @ - 1, !.value = 0,
                              !.old = handle'[c.plugin].generation, !.warned = FALSE]
               ELSE NoCall

\* The value stands for the generation it was read in.  A mutant looks at the
\* generation first.
GenerationFirst(p) == IF p = "xtpm" THEN <<"generation", "value">> ELSE <<"value">>
Steps(p) == IF p = "xtpm" THEN <<"value", "generation">> ELSE <<"value">>

Goes(c) ==
    IF c.step < Len(Steps(c.plugin))
    THEN call' = [c EXCEPT !.step = @ + 1] /\ reading' = NoReading
    ELSE Return("SUCCESS", c)

\* A NULL handle and a constant need no file, an attribute that is not known leaves
\* the value as it was.
ReadValue ==
    LET p == call.plugin  file == FileOf(p, call.attr)
    IN  /\ ~crashed /\ call # NoCall
        /\ Steps(p)[call.step] = "value"
        /\ IF handle[p].state = "null"
           THEN UNCHANGED <<handle, fds, crashed>> /\ Return("SUCCESS", call)
           ELSE IF file \in {"zero", "none"}
           THEN UNCHANGED <<handle, fds, crashed>> /\ Goes(call)
           ELSE \E outcome \in {"failed", "unreadable", "read", "overrun"} :
                   /\ ReadFile(p, file, outcome)
                   /\ UNCHANGED handle
                   /\ IF outcome = "read" THEN Goes([call EXCEPT !.value = generation])
                      ELSE Return("FAILURE", call)
        /\ UNCHANGED <<generation, calls>>

\* The warning that the generation rolled over.
ReadGeneration ==
    LET p == call.plugin
    IN  /\ ~crashed /\ call # NoCall
        /\ Steps(p)[call.step] = "generation"
        /\ \E outcome \in {"failed", "unreadable", "read"} :
              /\ ReadFile(p, "generation", outcome)
              /\ IF outcome = "read"
                 THEN /\ handle' = [handle EXCEPT ![p].generation = generation]
                      /\ Goes([call EXCEPT !.warned = (handle[p].generation # generation)])
                 ELSE /\ UNCHANGED handle
                      /\ Return("FAILURE", call)
        /\ UNCHANGED <<generation, calls>>

\* The files the plugins write.  Writing closes what it opens.
CpuWrite == [SSTATE |-> "online", FREQ |-> "cpufreq"]
XtpmWrite == [POWER_LIMIT_MAX |-> "power_cap"]
PmcWrite == [POWER_LIMIT_MAX |-> "pmc"]
FileWritten(p, attr) ==
    LET file == CASE p = "cpudev" -> CpuWrite [] p = "xtpm" -> XtpmWrite [] OTHER -> PmcWrite
    IN  IF attr \in DOMAIN file THEN file[attr] ELSE "none"

\* A file that can be opened can be written or not.
Writable(file) == IF file # "none" /\ Open < MaxFds THEN BOOLEAN ELSE {FALSE}

\* A power cap that is written is a new generation.
Write(p, attr) ==
    LET file == FileWritten(p, attr)
    IN  /\ Idle /\ handle[p].state = "open"
        /\ \E written \in Writable(file) :
              generation' = IF written /\ file = "power_cap" /\ generation < MaxGeneration
                            THEN generation + 1 ELSE generation
        /\ reading' = NoReading
        /\ calls' = calls + 1
        /\ UNCHANGED <<handle, fds, call, crashed>>

\* The kernel or another process.
NewGeneration ==
    /\ generation < MaxGeneration
    /\ generation' = generation + 1
    /\ UNCHANGED <<handle, fds, call, reading, crashed, calls>>

Next ==
    \/ \E p \in Plugin : \/ OpenHandle(p) \/ CloseHandle(p)
                         \/ \E attr \in Attr : \/ \E n \in 1 .. MaxAttrs : Begin(p, attr, n)
                                               \/ Write(p, attr)
    \/ ReadValue \/ ReadGeneration
    \/ NewGeneration

Spec == Init /\ [][Next]_vars

-----------------------------------------------------------------------------
\* Every variable keeps its type.
TypeOK ==
    /\ generation \in 1 .. MaxGeneration
    /\ handle \in [Plugin -> [state : {"closed", "open", "null"}, generation : Nat]]
    /\ fds \in [Plugin -> Nat] /\ crashed \in BOOLEAN

\* A counter that xtpm reads without a warning is of the generation the reading before
\* had seen (pwr_xtpmdev.c:148-181): the generation is looked at after the counter, and
\* one that changes between the two is warned of, although the counter may be older.
SameGeneration ==
    (reading # NoReading /\ reading.plugin = "xtpm" /\ reading.rc = "SUCCESS"
     /\ reading.value # 0 /\ ~reading.warned)
    => reading.value = reading.old

\* Neither xtpm nor pmc leaves a descriptor open, whatever comes of a reading
\* (pwr_xtpmdev.c:50-77, pwr_pmcdev.c:58-83).
NoneLeftOpen == fds["xtpm"] = 0 /\ fds["pmc"] = 0
=============================================================================
