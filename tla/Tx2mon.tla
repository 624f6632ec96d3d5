------------------------------- MODULE Tx2mon -------------------------------
(***************************************************************************)
(* The tx2mon plugin in one context: the application thread, which calls   *)
(* the device operations, and the sampling thread, which adds up energy.   *)
(* They share the regions read from sysfs (buf), the table of sockets      *)
(* whose energy is wanted (energyObjs) and the handles in it, without a    *)
(* lock.                                                                   *)
(*                                                                         *)
(* A region is the two power rails that the readings tell apart: "core",   *)
(* read first, and "sram", which stands for the three that are added to    *)
(* it.  Time is a counter of sampling units; energy is power times units.  *)
(* The context opens a device once per (object type, id) and closes it     *)
(* when it goes, before it calls final (DistCntxt::~DistCntxt).            *)
(***************************************************************************)
EXTENDS Integers, FiniteSets

CONSTANTS
    Node,       \* the sockets, 0 .. nodes - 1
    Watts,      \* values a rail can have
    Outcome,    \* of read_node: "ok", or "failed", which leaves the region
    MaxTime,    \* bound on the clock
    Unread      \* a rail of the region before the first read: uninitialised

Rail == {"core", "sram"}
Region == [Rail -> Watts]
Kind == {"SOCKET", "TX2_CORE", "TX2_SRAM"}

Tx2monAssumption ==
    /\ Node # {}
    /\ Watts \subseteq Nat \ {0}
    /\ \E low, high \in Watts : \A w \in Watts : low <= w /\ w <= high
    /\ Outcome \subseteq {"ok", "failed"}
    /\ MaxTime \in Nat \ {0}
    /\ Unread \notin Nat

VARIABLES
    hw,         \* what the firmware shows for each socket
    buf,        \* tx2mon.node[n].buf
    handle,     \* the pwr_tx2monFdInfo of each socket: [st, energy]
    energyObjs, \* the sockets whose entry is not NULL
    lastSample, \* devInfo->lastSample, 0 before the first sample
    now,        \* the clock
    done,       \* devInfo->done
    devInfo,    \* "none", "live", "joining" (in pthread_join) or "freed"
    smp,        \* sampling thread: [pc, todo, node, value, at]
    app,        \* application thread: [pc, node, kind, value]
    seen,       \* history: what each rail of app.node showed since the call
    fault,      \* history: sockets with a read_node that failed
    opened,     \* history: lastSample and the clock when a socket was opened
    watched     \* history: first sample that counted for the socket

vars == <<hw, buf, handle, energyObjs, lastSample, now, done, devInfo, smp,
          app, seen, fault, opened, watched>>

\* What the caller's buffer holds before a call: Object::attrGetValuesDevice
\* passes elements of a vector made for the call.
OldValue == 0

Idle == [pc |-> "idle", node |-> CHOOSE n \in Node : TRUE,
         kind |-> "SOCKET", value |-> OldValue]
Asleep == [pc |-> "sleep", todo |-> {}, node |-> CHOOSE n \in Node : TRUE,
           value |-> 0, at |-> 0]

Init ==
    /\ hw \in [Node -> Region]
    /\ buf = [n \in Node |-> [r \in Rail |-> Unread]]
    /\ handle = [n \in Node |-> [st |-> "none", energy |-> 0]]
    /\ energyObjs = {}
    /\ lastSample = 0
    /\ now = 1
    /\ done = FALSE
    /\ devInfo = "none"
    /\ smp = [Asleep EXCEPT !.pc = "none"]
    /\ app = Idle
    /\ seen = [r \in Rail |-> {}]
    /\ fault = {}
    /\ opened = [n \in Node |-> 0]
    /\ watched = [n \in Node |-> 0]

-----------------------------------------------------------------------------
(* The hardware and the clock.                                             *)

\* Power changes as time passes; a history variable keeps what it was during
\* the application's call.
Tick ==
    /\ now < MaxTime
    /\ now' = now + 1
    /\ hw' \in [Node -> Region]
    /\ seen' = IF app.pc = "idle" THEN seen
               ELSE [r \in Rail |-> seen[r] \cup {hw'[app.node][r]}]
    /\ UNCHANGED <<buf, handle, energyObjs, lastSample, done, devInfo, smp,
                   app, fault, opened, watched>>

\* read_node: what it returns is looked at by none of its callers.
ReadNode(n) ==
    \E out \in Outcome :
        /\ buf' = IF out = "ok" THEN [buf EXCEPT ![n] = hw[n]] ELSE buf
        /\ fault' = IF out = "ok" THEN fault ELSE fault \cup {n}

\* Adding a rail that was never read gives garbage.
Plus(x, y) == IF Unread \in {x, y} THEN Unread ELSE x + y

-----------------------------------------------------------------------------
(* The application thread: init, open, read, close, final.                 *)

\* pwr_tx2mon_dev_init, tx2monInit and initSampleThread.
DevInit ==
    /\ devInfo = "none"
    /\ devInfo' = "live"
    /\ done' = FALSE
    /\ smp' = Asleep
    /\ UNCHANGED <<hw, buf, handle, energyObjs, lastSample, now, app, seen,
                   fault, opened, watched>>

\* pwr_tx2mon_dev_open of a socket; the other kinds keep no state.
Open(n) ==
    /\ devInfo = "live" /\ app.pc = "idle"
    /\ handle[n].st = "none"
    /\ handle' = [handle EXCEPT ![n] = [st |-> "open", energy |-> 0]]
    /\ energyObjs' = energyObjs \cup {n}
    /\ opened' = [opened EXCEPT ![n] = lastSample]
    /\ UNCHANGED <<hw, buf, lastSample, now, done, devInfo, smp, app, seen,
                   fault, watched>>

\* readSocket of PWR_ATTR_POWER up to read_node.  The value is still what the
\* caller's buffer holds.
ReadPower(n, kind) ==
    /\ devInfo = "live" /\ app.pc = "idle"
    /\ kind = "SOCKET" => handle[n].st = "open"
    /\ ReadNode(n)
    /\ app' = [pc |-> "core", node |-> n, kind |-> kind, value |-> OldValue]
    /\ seen' = [r \in Rail |-> {hw[n][r]}]
    /\ UNCHANGED <<hw, handle, energyObjs, lastSample, now, done, devInfo,
                   smp, opened, watched>>

\* The decoding, one rail after the other, while the sampler may read the
\* region anew.  The rails of a TX2_SRAM, TX2_MEM or TX2_SOC are added to what
\* the buffer holds.  A mutant leaves out the first rail of a socket.
SramTermAssigned(kind, value, region) ==
    IF kind = "TX2_CORE" THEN value ELSE region["sram"]
CoreTerm(kind, value, region) ==
    IF kind = "TX2_SRAM" THEN value ELSE region["core"]
SramTerm(kind, value, region) ==
    IF kind = "TX2_CORE" THEN value ELSE Plus(value, region["sram"])

DecodeCore ==
    /\ app.pc = "core"
    /\ app' = [app EXCEPT !.pc = "sram",
                          !.value = CoreTerm(app.kind, @, buf[app.node])]
    /\ UNCHANGED <<hw, buf, handle, energyObjs, lastSample, now, done,
                   devInfo, smp, seen, fault, opened, watched>>

DecodeSram ==
    /\ app.pc = "sram"
    /\ app' = [app EXCEPT !.pc = "returned",
                          !.value = SramTerm(app.kind, @, buf[app.node])]
    /\ UNCHANGED <<hw, buf, handle, energyObjs, lastSample, now, done,
                   devInfo, smp, seen, fault, opened, watched>>

ReadReturn ==
    /\ app.pc = "returned"
    /\ app' = Idle
    /\ seen' = [r \in Rail |-> {}]
    /\ UNCHANGED <<hw, buf, handle, energyObjs, lastSample, now, done,
                   devInfo, smp, fault, opened, watched>>

\* pwr_tx2mon_dev_close: the entry of the table, then the handle.  Mutants
\* leave the entry.
Kept(n) == energyObjs
Dropped(n) == energyObjs \ {n}

Close(n) ==
    /\ devInfo = "live" /\ app.pc = "idle"
    /\ handle[n].st = "open"
    /\ energyObjs' = Dropped(n)
    /\ handle' = [handle EXCEPT ![n].st = "freed"]
    /\ UNCHANGED <<hw, buf, lastSample, now, done, devInfo, smp, app, seen,
                   fault, opened, watched>>

\* pwr_tx2mon_dev_final: the flag, then pthread_join, then tx2monFini.
Final ==
    /\ devInfo = "live" /\ app.pc = "idle"
    /\ \A n \in Node : handle[n].st # "open"
    /\ done' = TRUE
    /\ devInfo' = "joining"
    /\ UNCHANGED <<hw, buf, handle, energyObjs, lastSample, now, smp, app,
                   seen, fault, opened, watched>>

\* A mutant does not wait.
NotJoined == TRUE
Joined == smp.pc = "exit"

Fini ==
    /\ devInfo = "joining"
    /\ Joined
    /\ devInfo' = "freed"
    /\ UNCHANGED <<hw, buf, handle, energyObjs, lastSample, now, done, smp,
                   app, seen, fault, opened, watched>>

-----------------------------------------------------------------------------
(* The sampling thread: thread() and energy().                             *)

\* while( ! devInfo->done ).  A mutant never looks.
NeverAsked == FALSE
Asked == done

Wake ==
    /\ smp.pc = "sleep"
    /\ smp' = IF Asked THEN [smp EXCEPT !.pc = "exit"]
              ELSE [smp EXCEPT !.pc = "scan", !.todo = Node, !.at = now]
    /\ UNCHANGED <<hw, buf, handle, energyObjs, lastSample, now, done,
                   devInfo, app, seen, fault, opened, watched>>

\* The next socket: its entry is loaded; without one, or in the first sample,
\* there is nothing to add.
WantedAtOnce(n) == n \in energyObjs
Wanted(n) == n \in energyObjs /\ lastSample # 0

Scan(n) ==
    /\ smp.pc = "scan" /\ n \in smp.todo
    /\ \A m \in smp.todo : n <= m
    /\ smp' = [smp EXCEPT !.pc = IF Wanted(n) THEN "read" ELSE "scan",
                          !.todo = @ \ {n}, !.node = n]
    /\ watched' = IF Wanted(n) /\ watched[n] = 0
                  THEN [watched EXCEPT ![n] = lastSample] ELSE watched
    /\ UNCHANGED <<hw, buf, handle, energyObjs, lastSample, now, done,
                   devInfo, app, seen, fault, opened>>

Sample ==
    /\ smp.pc = "read"
    /\ ReadNode(smp.node)
    /\ smp' = [smp EXCEPT !.pc = "core"]
    /\ UNCHANGED <<hw, handle, energyObjs, lastSample, now, done, devInfo,
                   app, seen, opened, watched>>

SampleCore ==
    /\ smp.pc = "core"
    /\ smp' = [smp EXCEPT !.pc = "sram", !.value = buf[smp.node]["core"]]
    /\ UNCHANGED <<hw, buf, handle, energyObjs, lastSample, now, done,
                   devInfo, app, seen, fault, opened, watched>>

\* The last term and fd->energy += ( now - lastSample ) * value.  The handle
\* may have been freed since its entry was loaded: what is written then is
\* lost.  One mutant takes the time anew for every
\* socket, one swaps the two.
IntervalNow == now - lastSample
IntervalSwapped == lastSample - smp.at
Interval == smp.at - lastSample

AddEnergy ==
    /\ smp.pc = "sram"
    /\ LET watt == Plus(smp.value, buf[smp.node]["sram"])
           joule == IF Unread = watt THEN Unread ELSE Interval * watt
       IN  handle' = IF handle[smp.node].st # "open" THEN handle
                     ELSE [handle EXCEPT ![smp.node].energy = Plus(@, joule)]
    /\ smp' = [smp EXCEPT !.pc = "scan", !.value = 0]
    /\ UNCHANGED <<hw, buf, energyObjs, lastSample, now, done, devInfo, app,
                   seen, fault, opened, watched>>

EndPass ==
    /\ smp.pc = "scan" /\ smp.todo = {}
    /\ lastSample' = smp.at
    /\ smp' = [smp EXCEPT !.pc = "sleep", !.at = 0]
    /\ UNCHANGED <<hw, buf, handle, energyObjs, now, done, devInfo, app, seen,
                   fault, opened, watched>>

-----------------------------------------------------------------------------
App ==
    \/ DevInit \/ Final \/ Fini
    \/ DecodeCore \/ DecodeSram \/ ReadReturn
    \/ \E n \in Node :
         Open(n) \/ Close(n) \/ \E kind \in Kind : ReadPower(n, kind)

Sampler ==
    \/ Wake \/ Sample \/ SampleCore \/ AddEnergy \/ EndPass
    \/ \E n \in Node : Scan(n)

Next == App \/ Sampler \/ Tick

\* The operating system runs the sampling thread, and a call of final that
\* can go on does.
Spec == Init /\ [][Next]_vars /\ WF_vars(Sampler) /\ WF_vars(Fini)

-----------------------------------------------------------------------------
LoWatt == CHOOSE w \in Watts : \A v \in Watts : w <= v
HiWatt == CHOOSE w \in Watts : \A v \in Watts : v <= w
From(t) == IF t = 0 THEN 1 ELSE t

\* Every variable keeps its type.
TypeOK ==
    /\ hw \in [Node -> Region]
    /\ buf \in [Node -> [Rail -> Watts \cup {Unread}]]
    /\ handle \in [Node -> [st : {"none", "open", "freed"},
                            energy : Nat \cup {Unread}]]
    /\ energyObjs \subseteq Node
    /\ lastSample \in 0 .. MaxTime
    /\ devInfo \in {"none", "live", "joining", "freed"}
    /\ smp.pc \in {"none", "sleep", "scan", "read", "core", "sram", "exit"}
    /\ app.pc \in {"idle", "core", "sram", "returned"}

\* The energy of an open socket (pwr_tx2mon.c:427) covers the time from the
\* first sample that counted to the last, at no less than the lowest and no
\* more than the highest power of the socket, though the sampler reads the
\* rails of the region while the application may be reading it anew, sockets
\* are opened in the middle of a pass, and passes take time.  The lower bound
\* leaves out the pass under way.
EnergyBounds ==
    \A n \in Node :
        (handle[n].st = "open" /\ n \notin fault) =>
        LET passEnd == IF smp.pc \in {"none", "sleep", "exit"}
                       THEN From(lastSample) ELSE smp.at
        IN  /\ handle[n].energy <= 2 * HiWatt * (passEnd - From(opened[n]))
            /\ watched[n] # 0 =>
                 handle[n].energy >=
                 2 * LoWatt * (From(lastSample) - watched[n])

\* A power reading is made of values the rails had while the call ran: the
\* decoding after read_node (pwr_tx2mon.c:621-651) never uses what was in the
\* region before; a rail that is added to the caller's buffer relies on the
\* zero its only caller puts there (object.cc:100).
ReadingIsFresh ==
    (app.pc = "returned" /\ app.node \notin fault) =>
    CASE app.kind = "SOCKET" ->
           \E c \in seen["core"], s \in seen["sram"] : app.value = c + s
      [] app.kind = "TX2_CORE" -> app.value \in seen["core"]
      [] OTHER -> app.value \in seen["sram"]

\* The sampling thread never goes to a socket (pwr_tx2mon.c:423) after its
\* handle was freed; a handle it has loaded already may be freed under it.
PickStep == smp.pc = "scan" /\ smp'.pc = "read" => handle[smp'.node].st = "open"
PicksOpen == [][PickStep]_vars

\* devInfo is freed (pwr_tx2mon.c:560) when the sampling thread has left it.
FreedAfterThread == devInfo = "freed" => smp.pc = "exit"

\* pwr_tx2mon_dev_final returns: the thread sees the flag after its pass.
FinalReturns == devInfo = "joining" ~> devInfo = "freed"
=============================================================================
