----------------------------- MODULE Statistics -----------------------------
(***************************************************************************)
(* Statistics: a DeviceStat starts and stops the logs of the devices of    *)
(* its object, or of the objects of its group, and reduces the samples of  *)
(* the devices to an average, a minimum or a maximum.  Statistics over one *)
(* object share its logs.  Time is counted in fractions of a period; 0 is  *)
(* PWR_TIME_UNINIT.                                                        *)
(***************************************************************************)
EXTENDS Integers, Sequences, SequencesExt, FiniteSetsExt

CONSTANTS
    Obj,          \* leaf objects, with one device each
    Stat,         \* statistics
    Members,      \* [Stat -> Seq(Obj)]: m_grp, or <<m_obj>>
    Groups,       \* the statistics that were made for a group
    Op,           \* [Stat -> {"Min", "Max", "Avg"}]: opPtr
    Period,       \* the period a start sets, 1.0/10.0
    Value,        \* values of samples
    MaxTime,      \* bound on the clock
    Unmatched     \* whether GetValues may be called for an object's statistic

StatisticsAssumption ==
    /\ Members \in [Stat -> Seq(Obj)] /\ Groups \subseteq Stat
    /\ \A s \in Stat : Len(Members[s]) > 0 /\ (s \notin Groups => Len(Members[s]) = 1)
    /\ Op \in [Stat -> {"Min", "Max", "Avg"}]
    /\ Period \in Nat \ {0} /\ MaxTime \in Nat \ {0}
    /\ Value \subseteq Nat \ {0}
    /\ Unmatched \in BOOLEAN

VARIABLES
    now,          \* getTime()
    stat,         \* [life, isLogging, startTime, stopTime] of each statistic
    log,          \* whether the device of an object logs
    reading,      \* the reading of the step before, if it was one
    crashed,      \* a NULL group was dereferenced
    stopFailed    \* history: a device failed to stop its log

vars == <<now, stat, log, reading, crashed, stopFailed>>

UNINIT == 0
NewStat == [life |-> "none", isLogging |-> FALSE,
            startTime |-> UNINIT, stopTime |-> UNINIT]
NoReading == [stat |-> "none"]

Init ==
    /\ now = 1
    /\ stat = [s \in Stat |-> NewStat]
    /\ log = [o \in Obj |-> FALSE]
    /\ reading = NoReading
    /\ crashed = FALSE
    /\ stopFailed = FALSE

-----------------------------------------------------------------------------
\* opMin and opMax: the first position of the value that is returned; opAvg has
\* none.  The average is left as the sum.  A mutant takes the last position.
BeatsOrTies(op, new, old) == IF op = "Min" THEN new <= old ELSE new >= old
Beats(op, new, old) == IF op = "Min" THEN new < old ELSE new > old
Reduce(op, values) ==
    IF op = "Avg" THEN [value |-> FoldLeft(LAMBDA a, b : a + b, 0, values), pos |-> 0]
    ELSE FoldLeftDomain(
             LAMBDA best, i : IF Beats(op, values[i], best.value)
                              THEN [value |-> values[i], pos |-> i] ELSE best,
             [value |-> values[1], pos |-> 1], values)

\* startGrp and stopGrp return at the first member whose device fails; k members
\* come before it.
FirstMembers(s, k) == {Members[s][i] : i \in 1 .. k}
Switched(s, k, on) ==
    [o \in Obj |-> IF o \in FirstMembers(s, k) THEN on ELSE log[o]]

Create(s) ==
    /\ stat[s].life = "none"
    /\ stat' = [stat EXCEPT ![s].life = "live"]
    /\ reading' = NoReading
    /\ UNCHANGED <<now, log, crashed, stopFailed>>

\* start sets isLogging before the devices are asked.  A mutant sets it after
\* they all started.
AfterSuccess(s, k) == stat[s].isLogging \/ k = Len(Members[s])
Before(s, k) == TRUE

Start(s) ==
    \E k \in 0 .. Len(Members[s]) :
        /\ stat[s].life = "live"
        /\ stat' = [stat EXCEPT ![s].isLogging = Before(s, k),
                                ![s].startTime = now]
        /\ log' = Switched(s, k, TRUE)
        /\ reading' = NoReading
        /\ UNCHANGED <<now, crashed, stopFailed>>

\* stop takes the time.  One mutant does not, one has its unit wrong.
StopScaled(s) == now * Period
StopForgets(s) == stat[s].stopTime
StopTime(s) == now

StopAt(s, k, life) ==
    /\ stat' = [stat EXCEPT ![s] = [@ EXCEPT !.isLogging = FALSE, !.life = life,
                                             !.stopTime = StopTime(s)]]
    /\ log' = Switched(s, k, FALSE)
    /\ stopFailed' = (stopFailed \/ k < Len(Members[s]))

Stop(s) ==
    \E k \in 0 .. Len(Members[s]) :
        /\ stat[s].life = "live"
        /\ StopAt(s, k, "live")
        /\ reading' = NoReading
        /\ UNCHANGED <<now, crashed>>

\* PWR_StatClear calls stop; DeviceStat::clear is not called.
Clear(s) == Stop(s)

\* ~DeviceStat stops what is logging.
Destroy(s) ==
    /\ stat[s].life = "live"
    /\ IF stat[s].isLogging
       THEN \E k \in 0 .. Len(Members[s]) : StopAt(s, k, "gone")
       ELSE /\ stat' = [stat EXCEPT ![s].life = "gone"]
            /\ UNCHANGED <<log, stopFailed>>
    /\ reading' = NoReading
    /\ UNCHANGED <<now, crashed>>

\* objGetValue for a caller that leaves both times PWR_TIME_UNINIT.  A device
\* that has the samples gives the last n, up to now; the window that was asked
\* for gives their number only.  A statistic that was never started is asked for
\* all samples since the epoch or for none, which is left out, and so is a
\* window without a sample, for which values[0] is read out of bounds.
WindowStop(s) == IF stat[s].isLogging THEN now ELSE stat[s].stopTime
Samples(s) == (WindowStop(s) - stat[s].startTime) \div Period
CanGet(s) == /\ stat[s].life = "live" /\ stat[s].startTime # UNINIT
             /\ WindowStop(s) - stat[s].startTime < 0 \/ Samples(s) > 0

ObjGetValue(s, values, time) ==
    LET n == Len(values)
        best == Reduce(Op[s], values)
        start == time - n * Period
    IN  reading' = [stat |-> s, at |-> now, running |-> stat[s].isLogging,
                    from |-> stat[s].startTime, to |-> WindowStop(s),
                    samples |-> values, value |-> best.value,
                    start |-> start, stop |-> start + n * Period,
                    instant |-> IF Op[s] = "Avg" THEN UNINIT
                                ELSE start + (best.pos - 1) * Period]

GetValue(s) ==
    /\ CanGet(s) /\ s \notin Groups
    /\ \E values \in [1 .. Samples(s) -> Value] : ObjGetValue(s, values, now)
    /\ UNCHANGED <<now, stat, log, crashed, stopFailed>>

\* The reading of a member; those before it were read alike.
GetValues(s) ==
    /\ CanGet(s)
    /\ IF s \in Groups
       THEN /\ \E values \in [1 .. Samples(s) -> Value] : ObjGetValue(s, values, now)
            /\ UNCHANGED crashed
       ELSE /\ Unmatched
            /\ crashed' = TRUE
            /\ reading' = NoReading
    /\ UNCHANGED <<now, stat, log, stopFailed>>

Tick ==
    /\ now < MaxTime
    /\ now' = now + 1
    /\ reading' = NoReading
    /\ UNCHANGED <<stat, log, crashed, stopFailed>>

Next ==
    \/ Tick
    \/ \E s \in Stat : \/ Create(s) \/ Start(s) \/ Stop(s) \/ Clear(s) \/ Destroy(s)
                       \/ GetValue(s) \/ GetValues(s)

Spec == Init /\ [][Next]_vars

-----------------------------------------------------------------------------
\* Every variable keeps its type.
TypeOK ==
    /\ now \in 1 .. MaxTime
    /\ stat \in [Stat -> [life : {"none", "live", "gone"}, isLogging : BOOLEAN,
                          startTime : 0 .. MaxTime, stopTime : 0 .. MaxTime]]
    /\ log \in [Obj -> BOOLEAN]
    /\ crashed \in BOOLEAN /\ stopFailed \in BOOLEAN

\* A device logs only for a statistic that is live and will stop it, even if the
\* start of the statistic failed half way through its group
\* (deviceStat.cc:20-25, 36-46), until a device fails to stop.
LogHasStat ==
    \A o \in Obj : (log[o] /\ ~stopFailed) =>
        \E s \in Stat : /\ stat[s].life = "live" /\ stat[s].isLogging
                        /\ o \in Range(Members[s])

\* The times of a statistic (deviceStat.cc:110-126) never give a window that
\* ends before it begins, of which the unsigned difference would be huge.
WindowForward ==
    \A s \in Stat : (stat[s].life = "live" /\ stat[s].startTime # UNINIT) =>
                    WindowStop(s) >= stat[s].startTime

\* A reading of a running statistic (deviceStat.cc:107-155) covers all of the time
\* since its start but less than a period, up to now, and has its instant in it,
\* the first at which a sample has the value.
RunningReading ==
    (reading # NoReading /\ reading.running) =>
    /\ reading.stop = reading.at
    /\ reading.start - reading.from \in 0 .. Period - 1
    /\ reading.instant # UNINIT =>
       LET first == (reading.instant - reading.start) \div Period
           best == IF Op[reading.stat] = "Min" THEN Min(Range(reading.samples))
                   ELSE Max(Range(reading.samples))
       IN  /\ reading.instant \in reading.start .. reading.stop - 1
           /\ reading.value = best
           /\ \A i \in DOMAIN reading.samples :
                  reading.samples[i] = best => i > first

\* PWR_StatGetValues may be called for a statistic of an object, as
\* test/section_4_6.c:106 and 127 do.
NoNullGroup == ~crashed
=============================================================================
