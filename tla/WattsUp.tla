------------------------------ MODULE WattsUp ------------------------------
(***************************************************************************)
(* The WattsUp plugin: a meter on a serial line.  Every read writes a      *)
(* request and takes characters from the line until the one that ends an   *)
(* answer.  The line is opened with O_NDELAY, so a read of it may have     *)
(* nothing; nothing is flushed and a request is not matched with an answer.*)
(*                                                                         *)
(* An answer to request n is two characters, its fields and its end.       *)
(***************************************************************************)
EXTENDS Naturals, Sequences, FiniteSets

CONSTANT
    MaxCalls      \* bound on the reads

WattsUpAssumption == MaxCalls \in Nat

Char == {"fields", "end"}
Result == {"value", "zero", "nothing", "failed"}

VARIABLES
    requests,   \* requests the meter has not answered: [of, char to send]
    line,       \* characters of answers that wait to be read: [of, char]
    call,       \* the read in progress: [pc, buf, last]
    calls,      \* reads so far
    results     \* [kind, of] of every read that returned

vars == <<requests, line, call, calls, results>>

\* c before a character was read: it is not initialised.
Uninitialised == "uninitialised"
NoCall == [pc |-> "idle", buf |-> <<>>, last |-> Uninitialised]

Init ==
    /\ requests = <<>>
    /\ line = <<>>
    /\ call = NoCall
    /\ calls = 0
    /\ results = <<>>

Returns(kind, of) ==
    /\ call' = NoCall
    /\ results' = Append(results, [kind |-> kind, of |-> of])

-----------------------------------------------------------------------------
\* The meter answers the requests in their order, a character at a time.
Answer ==
    /\ requests # <<>>
    /\ line' = Append(line, Head(requests))
    /\ requests' = IF Head(requests).char = "fields"
                   THEN [requests EXCEPT ![1].char = "end"] ELSE Tail(requests)
    /\ UNCHANGED <<call, calls, results>>

\* Sending a request.  One mutant sends it again, one has its number wrong.
SendTwice(n) == requests \o <<[of |-> n, char |-> "fields"],
                              [of |-> n, char |-> "fields"]>>
SendOther(n) == Append(requests, [of |-> n + 1, char |-> "fields"])
Send(n) == Append(requests, [of |-> n, char |-> "fields"])

\* pwr_wudev_read: wudev_write sends the request.
Call ==
    /\ call.pc = "idle" /\ calls < MaxCalls
    /\ calls' = calls + 1
    /\ requests' = Send(calls + 1)
    /\ call' = [NoCall EXCEPT !.pc = "read"]
    /\ UNCHANGED <<line, results>>

\* A write that fails, or is short: -1 before anything is read.
CallFails ==
    /\ call.pc = "idle" /\ calls < MaxCalls
    /\ calls' = calls + 1
    /\ Returns("failed", calls + 1)
    /\ UNCHANGED <<requests, line>>

\* while( c != term ).  A mutant leaves with the fields.
EndsEarly(c) == c = "fields"
Ends(c) == c = "end"

\* wudev_read: one turn that gets a character.
GetChar ==
    /\ call.pc = "read" /\ line # <<>>
    /\ line' = Tail(line)
    /\ call' = [pc |-> IF Ends(Head(line).char) THEN "extract" ELSE "read",
                buf |-> Append(call.buf, Head(line)),
                last |-> Head(line).char]
    /\ UNCHANGED <<requests, calls, results>>

\* read returns -1: the call fails, what it has read is lost and what it has
\* not read stays on the line.
GetError ==
    /\ call.pc = "read" /\ line = <<>>
    /\ Returns("failed", calls)
    /\ UNCHANGED <<requests, line, calls>>

\* read returns 0: continue goes to the condition of the loop, which looks at
\* the character before, or at a c that was never set.
GetNothing ==
    /\ call.pc = "read" /\ line = <<>>
    /\ call.last = Uninitialised
    /\ call' = [call EXCEPT !.pc = "extract"]
    /\ UNCHANGED <<requests, line, calls, results>>

\* An empty buffer is success without a value; of a buffer without its fields
\* wudev_extract makes 0; otherwise the value is that of the answer.
Extract ==
    /\ call.pc = "extract"
    /\ \/ call.buf = <<>> /\ Returns("nothing", calls)
       \/ /\ call.buf # <<>> /\ Head(call.buf).char = "end"
          /\ Returns("zero", calls)
       \/ /\ call.buf # <<>> /\ Head(call.buf).char = "fields"
          /\ Returns("value", Head(call.buf).of)
    /\ UNCHANGED <<requests, line, calls>>

Next == Answer \/ Call \/ CallFails \/ GetChar \/ GetError \/ GetNothing \/ Extract

Spec == Init /\ [][Next]_vars

-----------------------------------------------------------------------------
\* How many of the calls before call n went wrong.
Wrong(n) == Cardinality({m \in 1 .. n - 1 : results[m].kind # "value"})

\* Every variable keeps its type.
TypeOK ==
    /\ requests \in Seq([of : 1 .. MaxCalls, char : Char])
    /\ line \in Seq([of : 1 .. MaxCalls, char : Char])
    /\ call.pc \in {"idle", "read", "extract"}
    /\ calls \in 0 .. MaxCalls
    /\ \A i \in DOMAIN results :
           results[i].kind \in Result /\ results[i].of \in 1 .. MaxCalls

\* A reading is the answer to an earlier request by no more than the calls
\* that went wrong before (pwr_wudev.c:144-166): without one it is the answer to
\* its own; after one that left its answer on the line it is an old one.
LagIsFailures ==
    \A n \in DOMAIN results :
        results[n].kind = "value" =>
        results[n].of <= n /\ n - results[n].of <= Wrong(n)

\* No answer is used for two readings, and none for a later reading than a
\* newer one: the lag never shrinks.
LagNeverShrinks ==
    \A m, n \in DOMAIN results :
        (m < n /\ results[m].kind = "value" /\ results[n].kind = "value") =>
        results[m].of < results[n].of
=============================================================================
