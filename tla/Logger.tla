------------------------------- MODULE Logger -------------------------------
(***************************************************************************)
(* The logger thread of the daemon: it makes one kind of work from its     *)
(* arguments, and the work reads its objects every second and prints what  *)
(* it read, or writes them once.  A group is read one object after the     *)
(* other, and time passes between the objects.                             *)
(***************************************************************************)
EXTENDS Integers, Sequences, SequencesExt

CONSTANTS
    Obj,          \* objects of the context
    TypeGrp,      \* [types -> Seq(Obj)]: PWR_CntxtGetGrpByType
    Args,         \* arguments, [attr, list, type, object, delay]
    Power,        \* [Obj -> [0 .. MaxTime -> Nat]]: what the objects use
    Second,       \* units of time in sleep(1)
    RateReads,    \* the readings of a Rate
    MaxTime       \* bound on the clock

KnownAttr == {"power", "energy"}
Kind == {"STAT", "SETMULT", "MULT", "power", "energy", "rate", "other"}

LoggerAssumption ==
    /\ \A t \in DOMAIN TypeGrp : TypeGrp[t] \in Seq(Obj)
    /\ \A a \in Args : /\ a.attr \in Kind /\ a.type \in BOOLEAN /\ a.delay \in Nat
                       /\ Len(a.list) > 0
    /\ MaxTime \in Nat \ {0} /\ Power \in [Obj -> [0 .. MaxTime -> Nat]]
    /\ Second \in Nat \ {0} /\ RateReads \in Nat \ {0}

VARIABLES
    now,          \* the clock
    args,         \* m_args
    pc,           \* where the thread is
    timer,        \* [until, then]: the sleep it is in
    next,         \* position in the buffer of the reading or writing to come
    buf,          \* value and ts, as one sequence
    bad,          \* the status is not empty
    startValue,   \* Energy: the reading before
    rounds,       \* Rate: the readings made
    stop,         \* Stat: timeInfo.stop
    logStart,     \* Stat: when its log was started
    windows,      \* history: the windows Stat reported
    lines,        \* history: the values printed
    written       \* the values of the attributes that were set

vars == <<now, args, pc, timer, next, buf, bad, startValue, rounds, stop, logStart,
          windows, lines, written>>

\* The group of the work, <<>> when there is no such object: only some of the
\* kinds know "TYPE:".
Objs ==
    IF args.type
    THEN IF args.attr \in {"MULT", "SETMULT", "power"} /\ args.object \in DOMAIN TypeGrp
         THEN TypeGrp[args.object] ELSE <<>>
    ELSE IF args.object \in Obj THEN <<args.object>> ELSE <<>>

Attrs == CASE args.attr \in {"MULT", "SETMULT"} -> args.list
           [] args.attr = "power" -> <<"power">>
           [] OTHER -> <<"energy">>

\* attrs.substr(pos, tmp) takes tmp for a length: a name that is neither the first
\* nor the last has more than itself, and getAttr aborts.
Parses == Len(args.list) <= 2 /\ Range(args.list) \subseteq KnownAttr

\* What a device says of an object.
Used(o, t) == FoldLeft(LAMBDA a, b : a + b, 0, [i \in 1 .. t |-> Power[o][i]])
Truth(o, attr, t) == IF attr = "power" THEN Power[o][t] ELSE Used(o, t)

\* Row by row, an object's attributes together.  A mutant has it the other way.
ByColumn(j, i) == (i - 1) * Len(Objs) + j
Index(j, i) == (j - 1) * Len(Attrs) + i
Size == Len(Objs) * Len(Attrs)
ObjAt(k) == Objs[1 + (k - 1) \div Len(Attrs)]
AttrAt(k) == Attrs[1 + ((k - 1) % Len(Attrs))]
\* The first attribute of the object after.
Skipped(k) == k + Len(Attrs) - ((k - 1) % Len(Attrs))

Empty == [k \in 1 .. Size |-> [value |-> 0, ts |-> 0]]

Init ==
    /\ now = 0
    /\ args \in Args
    /\ pc = "new" /\ timer = [until |-> 0, then |-> "none"]
    /\ next = 1 /\ buf = <<>> /\ bad = FALSE
    /\ startValue = 0 /\ rounds = 0 /\ stop = 0 /\ logStart = 0
    /\ windows = <<>> /\ lines = <<>>
    /\ written = [o \in Obj |-> [a \in KnownAttr |-> 0]]

State == <<args, next, buf, bad, startValue, rounds, stop, logStart, windows, lines, written>>

Sleep(d, then) ==
    /\ pc' = "sleep"
    /\ timer' = [until |-> now + d, then |-> then]

Wake ==
    /\ pc = "sleep" /\ now >= timer.until
    /\ pc' = timer.then
    /\ UNCHANGED <<now, timer, State>>

Tick ==
    /\ now < MaxTime
    /\ now' = now + 1
    /\ UNCHANGED <<pc, timer, State>>

-----------------------------------------------------------------------------
\* The constructor: a log that cannot be opened ends the daemon, an argument that
\* is not understood aborts it.
Construct ==
    /\ pc = "new"
    /\ \/ pc' = "exited"
       \/ pc' = IF /\ args.attr # "other" /\ Objs # <<>>
                   /\ args.attr \in {"MULT", "SETMULT", "STAT"} => Parses
                THEN "made" ELSE "aborted"
    /\ UNCHANGED <<now, timer, State>>

\* Logger::work.
Delay ==
    /\ pc = "made"
    /\ IF args.delay > 0 THEN Sleep(args.delay, "start")
       ELSE pc' = "start" /\ UNCHANGED timer
    /\ UNCHANGED <<now, State>>

\* Work::work up to its loop.
Start ==
    /\ pc = "start"
    /\ buf' = Empty
    /\ CASE args.attr = "STAT" ->
              \/ /\ logStart' = now /\ Sleep(Second, "time")
              \/ /\ pc' = "failed" /\ UNCHANGED <<logStart, timer>>
         [] args.attr = "rate" -> Sleep(Second, "read") /\ UNCHANGED logStart
         [] args.attr = "SETMULT" -> pc' = "write" /\ UNCHANGED <<logStart, timer>>
         [] OTHER -> pc' = "read" /\ UNCHANGED <<logStart, timer>>
    /\ UNCHANGED <<now, args, next, bad, startValue, rounds, stop, windows, lines, written>>

\* Grp::attrGetValues and Object::attrGetValues: the attributes of an object after
\* one that fails are not read, those of the next object are.
Read ==
    /\ pc = "read" /\ next <= Size
    /\ \/ /\ buf' = [buf EXCEPT ![next] =
                        [value |-> Truth(ObjAt(next), AttrAt(next), now), ts |-> now]]
          /\ next' = next + 1
          /\ UNCHANGED bad
       \/ /\ bad' = TRUE
          /\ next' = Skipped(next)
          /\ UNCHANGED buf
    /\ UNCHANGED <<now, args, pc, timer, startValue, rounds, stop, logStart, windows,
                   lines, written>>

\* Power, PowerGrp and Mult print a line for each object and attribute.
Table ==
    [n \in 1 .. Size |->
        LET j == 1 + (n - 1) \div Len(Attrs)
            i == 1 + ((n - 1) % Len(Attrs))
        IN  [obj |-> Objs[j], attr |-> Attrs[i]] @@ buf[Index(j, i)]]

\* Energy prints what was used since the reading before, if that was not 0.  A
\* mutant keeps the first reading.
FirstReading(value) == IF startValue = 0 THEN value ELSE startValue
LastReading(value) == value

Joules ==
    IF startValue = 0 THEN <<>>
    ELSE <<[obj |-> Objs[1], attr |-> "energy", value |-> buf[1].value - startValue,
            ts |-> buf[1].ts]>>

Report ==
    /\ pc = "read" /\ next > Size
    /\ IF bad
       THEN pc' = "failed" /\ UNCHANGED <<timer, next, buf, startValue, rounds, lines>>
       ELSE /\ next' = 1 /\ buf' = Empty
            /\ CASE args.attr = "rate" ->
                      /\ rounds' = rounds + 1
                      /\ pc' = IF rounds' = RateReads THEN "done" ELSE "read"
                      /\ UNCHANGED <<timer, startValue, lines>>
                 [] args.attr = "energy" ->
                      /\ startValue' = LastReading(buf[1].value)
                      /\ lines' = lines \o Joules
                      /\ Sleep(Second, "read")
                      /\ UNCHANGED rounds
                 [] OTHER ->
                      /\ lines' = lines \o Table
                      /\ Sleep(Second, "read")
                      /\ UNCHANGED <<startValue, rounds>>
    /\ UNCHANGED <<now, args, bad, stop, logStart, windows, written>>

\* SetMult: values[i] is 1000.0 + i for every object of the group.
Value(i) == 999 + i

Write ==
    /\ pc = "write" /\ next <= Size
    /\ \/ /\ written' = [written EXCEPT ![ObjAt(next)][AttrAt(next)] =
                            Value(1 + ((next - 1) % Len(Attrs)))]
          /\ next' = next + 1
          /\ UNCHANGED bad
       \/ /\ bad' = TRUE
          /\ next' = Skipped(next)
          /\ UNCHANGED written
    /\ UNCHANGED <<now, args, pc, timer, buf, startValue, rounds, stop, logStart,
                   windows, lines>>

SetReturned ==
    /\ pc = "write" /\ next > Size
    /\ pc' = IF bad THEN "failed" ELSE "done"
    /\ UNCHANGED <<now, timer, State>>

\* Stat::work: the time, the second before it, and the value of the statistic.
\* A mutant asks for two seconds.
TwoSeconds == 2 * Second
Window == Second

TakeTime ==
    /\ pc = "time"
    /\ stop' = now
    /\ pc' = "get"
    /\ UNCHANGED <<now, args, timer, next, buf, bad, startValue, rounds, logStart,
                   windows, lines, written>>

StatGetValue ==
    /\ pc = "get"
    /\ \/ /\ windows' = Append(windows, [start |-> stop - Window, stop |-> stop,
                                         from |-> now - Window, to |-> now])
          /\ Sleep(Second, "time")
       \/ /\ pc' = "failed"
          /\ UNCHANGED <<windows, timer>>
    /\ UNCHANGED <<now, args, next, buf, bad, startValue, rounds, stop, logStart, lines,
                   written>>

Next ==
    \/ Tick \/ Wake
    \/ Construct \/ Delay \/ Start
    \/ Read \/ Report
    \/ Write \/ SetReturned
    \/ TakeTime \/ StatGetValue

Spec == Init /\ [][Next]_vars

-----------------------------------------------------------------------------
\* Every variable keeps its type.
TypeOK ==
    /\ now \in 0 .. MaxTime /\ args \in Args
    /\ pc \in {"new", "exited", "aborted", "made", "sleep", "start", "read", "write",
               "time", "get", "failed", "done"}
    /\ bad \in BOOLEAN /\ startValue \in Nat
    /\ next \in 1 .. Size + 1

\* A line of the table (mult.h:83-92, powerGrp.h:66-73, power.h:41) has the value of
\* the object and of the attribute it names at the time it names, in a round that
\* began a second after the one before.
LinesAreMeasured ==
    args.attr # "energy" =>
    \A k \in DOMAIN lines :
        /\ lines[k].value = Truth(lines[k].obj, lines[k].attr, lines[k].ts)
        /\ \A l \in DOMAIN lines :
               l + Size <= k => lines[l].ts + Second <= lines[k].ts

\* What Energy prints (energy.h:41-49) is what was used since the line before: the
\* lines add up, and no energy is in two of them or between two of them.
JoulesAddUp ==
    args.attr = "energy" =>
    \A k \in DOMAIN lines :
        lines[k].value =
            Truth(lines[k].obj, "energy", lines[k].ts)
            - IF k = 1 THEN Truth(lines[1].obj, "energy", lines[1].ts) - lines[1].value
              ELSE Truth(lines[k].obj, "energy", lines[k - 1].ts)

\* The windows of Stat (stat.h:61-73) do not overlap, neither as they are asked for
\* nor as a device that gives its last samples answers them, and the first begins
\* after the log was started: no sample is in two values, and none is missing from
\* its window.
WindowsApart ==
    \A k \in DOMAIN windows :
        /\ windows[k].start >= logStart
        /\ \A l \in 1 .. k - 1 : /\ windows[l].stop <= windows[k].start
                                 /\ windows[l].to <= windows[k].from

\* SetMult that returns without an error (setMult.h:68-79) has written every
\* attribute of every object, a name that is twice in the list with its last value.
AllWritten ==
    (args.attr = "SETMULT" /\ pc = "done") =>
    \A o \in Range(Objs), i \in DOMAIN Attrs :
        (\A l \in i + 1 .. Len(Attrs) : Attrs[l] # Attrs[i])
        => written[o][Attrs[i]] = Value(i)

LogIsTrue == LinesAreMeasured /\ JoulesAddUp /\ WindowsApart /\ AllWritten
=============================================================================
