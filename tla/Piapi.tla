------------------------------- MODULE Piapi -------------------------------
(***************************************************************************)
(* Readings of the PowerInsight plugin.  A reading asks the agent for the  *)
(* counter of a port and spins until the callback, which the thread of the *)
(* library calls, says that the last sample came.  The flag and the sample *)
(* are one for the process, whose threads may all read: the flag is looked *)
(* at and set in two steps and tells all that spin that they can go on.    *)
(***************************************************************************)
EXTENDS Integers, Sequences

CONSTANTS
    Reader,       \* threads that read
    Port,         \* ports of sensors
    Total,        \* how many samples a request may be answered with
    MaxReadv,     \* bound on the attributes of a readv
    MaxAsked      \* bound on the requests

PiapiAssumption ==
    /\ Total \subseteq Nat \ {0}
    /\ MaxReadv \in Nat /\ MaxAsked \in Nat

VARIABLES
    piapidev_reading,
    piapidev_counter,
    coming,       \* samples the library has not given to the callback
    asked,        \* number of requests
    rd,           \* [pc, port, request, first, left] of each reader
    crossed,      \* history: the last reader that found the flag clear was not alone
    got           \* history: the last value that a reader took alone

vars == <<piapidev_reading, piapidev_counter, coming, asked, rd, crossed, got>>

NoSample == [port |-> 0, request |-> 0, number |-> 0, total |-> 0]
NoValue == [port |-> 0]
Idle == [pc |-> "idle", port |-> 0, request |-> 0, first |-> TRUE, left |-> 0]

Init ==
    /\ piapidev_reading = FALSE
    /\ piapidev_counter = NoSample
    /\ coming = <<>>
    /\ asked = 0
    /\ rd = [r \in Reader |-> Idle]
    /\ crossed = FALSE
    /\ got = NoValue

Goes(r, pc) == rd' = [rd EXCEPT ![r].pc = pc]

\* pwr_piapidev_read, and readv, which reads once and then again for each of its n
\* attributes; pwr_piapidev_time reads.
Call(r, port, n) ==
    /\ rd[r].pc = "idle"
    /\ rd' = [rd EXCEPT ![r] = [@ EXCEPT !.pc = "wait", !.port = port,
                                         !.first = TRUE, !.left = n]]
    /\ UNCHANGED <<piapidev_reading, piapidev_counter, coming, asked, crossed, got>>

\* A reader that has found the flag clear and has not taken its sample.
Past(r) == rd[r].pc \in {"set", "ask", "spin"}

\* The flag is looked at and then set.
Free(r) ==
    /\ rd[r].pc = "wait" /\ ~piapidev_reading
    /\ Goes(r, "set")
    /\ crossed' = (coming # <<>> \/ \E q \in Reader \ {r} : Past(q))
    /\ UNCHANGED <<piapidev_reading, piapidev_counter, coming, asked, got>>

Set(r) ==
    /\ rd[r].pc = "set"
    /\ piapidev_reading' = TRUE
    /\ Goes(r, "ask")
    /\ UNCHANGED <<piapidev_counter, coming, asked, crossed, got>>

\* Where a reader goes after a reading: to the next attribute of its readv.
After(r) ==
    IF rd[r].left > 0
    THEN [rd[r] EXCEPT !.pc = "wait", !.first = FALSE, !.left = @ - 1]
    ELSE Idle

\* piapi_counter.  When it fails the flag stays set; a readv ends when its first
\* request fails and goes on when one for an attribute does.
Ask(r) ==
    /\ rd[r].pc = "ask" /\ asked < MaxAsked
    /\ asked' = asked + 1
    /\ \E t \in Total :
        /\ coming' = coming \o [i \in 1 .. t |-> [port |-> rd[r].port, request |-> asked + 1,
                                                  number |-> i, total |-> t]]
        /\ rd' = [rd EXCEPT ![r].pc = "spin", ![r].request = asked + 1]
    /\ UNCHANGED <<piapidev_reading, piapidev_counter, crossed, got>>

AskFails(r) ==
    /\ rd[r].pc = "ask"
    /\ rd' = [rd EXCEPT ![r] = IF @.first THEN Idle ELSE After(r)]
    /\ UNCHANGED <<piapidev_reading, piapidev_counter, coming, asked, crossed, got>>

\* piapidev_callback.  A mutant takes the first sample for the last.
FirstSample(sample) == sample.number = 1
LastSample(sample) == sample.number = sample.total

Callback ==
    /\ coming # <<>>
    /\ piapidev_counter' = Head(coming)
    /\ piapidev_reading' = (piapidev_reading /\ ~LastSample(Head(coming)))
    /\ coming' = Tail(coming)
    /\ UNCHANGED <<asked, rd, crossed, got>>

\* The end of the spin.
Take(r) ==
    /\ rd[r].pc = "spin" /\ ~piapidev_reading
    /\ got' = IF crossed THEN got
              ELSE [port |-> rd[r].port, request |-> rd[r].request,
                    sample |-> piapidev_counter]
    /\ rd' = [rd EXCEPT ![r] = After(r)]
    /\ UNCHANGED <<piapidev_reading, piapidev_counter, coming, asked, crossed>>

Next ==
    \/ \E r \in Reader : \/ \E port \in Port, n \in 0 .. MaxReadv : Call(r, port, n)
                         \/ Free(r) \/ Set(r) \/ Ask(r) \/ AskFails(r) \/ Take(r)
    \/ Callback

Spec == Init /\ [][Next]_vars

-----------------------------------------------------------------------------
\* Every variable keeps its type.
TypeOK ==
    /\ piapidev_reading \in BOOLEAN
    /\ asked \in 0 .. MaxAsked
    /\ \A r \in Reader : rd[r].pc \in {"idle", "wait", "set", "ask", "spin"}

\* The value a reader takes (pwr_piapidev.c:185-223) is the last sample of the port it
\* asked for, in answer to the request it made, if the reader was alone from where it
\* found the flag clear to where it took the sample, and no sample was to come before:
\* another reader may wait for the flag, but must not see it clear in between.
OwnSample ==
    got # NoValue =>
    /\ got.sample.port = got.port
    /\ got.sample.request = got.request
    /\ got.sample.number = got.sample.total
=============================================================================
