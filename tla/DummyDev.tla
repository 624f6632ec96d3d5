------------------------------ MODULE DummyDev ------------------------------
(***************************************************************************)
(* A handle of the dummy plugin, the device of the tests and of the        *)
(* examples: it makes up an energy that grows with time.  lastAccess is    *)
(* one for all attributes of the handle, so that a read of one attribute   *)
(* takes the time since from the others.  Energy is in units of            *)
(* JOULES_PER_SEC.                                                         *)
(***************************************************************************)
EXTENDS Integers, Sequences

CONSTANTS
    MaxTime,      \* bound on the clock
    MaxReads,     \* bound on the reads and writes
    Written       \* values the caller writes

Attr == {"POWER", "ENERGY"}

DummyAssumption ==
    /\ MaxTime \in Nat /\ MaxReads \in Nat
    /\ Written \subseteq Nat

VARIABLES
    now,          \* the clock
    values,       \* buffers[attr].values[0]
    lastAccess,   \* lastAccess
    trace         \* history: the calls, [op, attr, value, at]

vars == <<now, values, lastAccess, trace>>

\* dummy_dev_open.  The powers and energies it begins with are scaled down.
Init ==
    /\ now = 0
    /\ values = [POWER |-> 1, ENERGY |-> 0]
    /\ lastAccess = 0
    /\ trace = <<>>

Log(op, attr, value) ==
    trace' = Append(trace, [op |-> op, attr |-> attr, value |-> value, at |-> now])

Tick ==
    /\ now < MaxTime
    /\ now' = now + 1
    /\ UNCHANGED <<values, lastAccess, trace>>

\* dummy_dev_read.  A mutant forgets to set lastAccess.
NotTouched == lastAccess
Touched == now

Read(attr) ==
    /\ Len(trace) < MaxReads
    /\ values' = [values EXCEPT ![attr] = @ + (now - lastAccess)]
    /\ lastAccess' = Touched
    /\ Log("read", attr, values'[attr])
    /\ UNCHANGED now

\* dummy_dev_readv of one attribute: what is in the buffer, nothing is added.
Readv(attr) ==
    /\ Len(trace) < MaxReads
    /\ Log("readv", attr, values[attr])
    /\ UNCHANGED <<now, values, lastAccess>>

\* dummy_dev_write.
Write(attr, v) ==
    /\ Len(trace) < MaxReads
    /\ values' = [values EXCEPT ![attr] = v]
    /\ lastAccess' = Touched
    /\ Log("write", attr, v)
    /\ UNCHANGED now

\* dummy_dev_writev: lastAccess stays.
Writev(attr, v) ==
    /\ Len(trace) < MaxReads
    /\ values' = [values EXCEPT ![attr] = v]
    /\ Log("write", attr, v)
    /\ UNCHANGED <<now, lastAccess>>

Next ==
    \/ Tick
    \/ \E attr \in Attr : Read(attr) \/ Readv(attr)
    \/ \E attr \in Attr, v \in Written : Write(attr, v) \/ Writev(attr, v)

Spec == Init /\ [][Next]_vars

-----------------------------------------------------------------------------
Reads(attr, i, j) == trace[i].op = "read" /\ trace[j].op = "read"
                     /\ trace[i].attr = attr /\ trace[j].attr = attr
Between(i, j) == {k \in i + 1 .. j - 1 : trace[k].op # "readv"}

\* Two reads of an attribute (dummy_dev.c:71-89) with no write of it in between
\* differ by no more than the time between them, and by exactly that when
\* nothing else was done with the handle: no time is counted twice, by one
\* attribute or by two.
NoTimeTwice ==
    \A i, j \in DOMAIN trace : \A attr \in Attr :
        (i < j /\ Reads(attr, i, j)
         /\ \A k \in Between(i, j) : trace[k].op = "read" \/ trace[k].attr # attr)
        => LET grown == trace[j].value - trace[i].value
           IN  /\ grown <= trace[j].at - trace[i].at
               /\ Between(i, j) = {} => grown = trace[j].at - trace[i].at
=============================================================================
