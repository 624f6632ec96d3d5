---------------------------- MODULE PluginProofs ----------------------------
(***************************************************************************)
(* Theorems about each plugin, for any bounds: they share nothing here but *)
(* the names of constants and variables.  Then what is promised of all of  *)
(* them: the properties of Plugins.                                        *)
(***************************************************************************)
EXTENDS Plugins, CommonLemmas, SequenceTheorems

-----------------------------------------------------------------------------
(* Division.                                                               *)

LEMMA QuotientsGrow ==
    ASSUME NEW r \in Nat \ {0}, NEW x \in Nat, NEW y \in Nat, x <= y
    PROVE  x \div r <= y \div r
<1>1. PICK a \in Nat : a = x \div r
  BY Quotients
<1>2. PICK b \in Nat : b = y \div r
  BY Quotients
<1>3. /\ x % r \in 0 .. (r - 1) /\ x = (r * a) + (x % r)
      /\ y % r \in 0 .. (r - 1) /\ y = (r * b) + (y % r)
  BY <1>1, <1>2, Quotients
<1>4. PICK m \in 0 .. (r - 1) : m = x % r
  BY <1>3
<1>5. PICK n \in 0 .. (r - 1) : n = y % r
  BY <1>3
<1>6. PICK ra \in Nat : ra = r * a
  OBVIOUS
<1>7. PICK rb \in Nat : rb = r * b
  OBVIOUS
<1>8. x = ra + m /\ y = rb + n
  BY <1>3, <1>4, <1>5, <1>6, <1>7
<1>9. b < a => rb + r <= ra
  BY <1>6, <1>7, MultipleGrows
<1>10. ~(b < a)
  BY <1>8, <1>9
<1> QED
  BY <1>1, <1>2, <1>10

\* Without a wrap the remainders differ as the numbers do.
LEMMA SameQuotient ==
    ASSUME NEW r \in Nat \ {0}, NEW x \in Nat, NEW y \in Nat, x \div r = y \div r
    PROVE  (x % r) - (y % r) = x - y
<1>1. PICK a \in Nat : a = x \div r
  BY Quotients
<1>2. PICK c \in Nat : c = r * a
  OBVIOUS
<1>3. /\ x % r \in 0 .. (r - 1) /\ x = c + (x % r)
      /\ y % r \in 0 .. (r - 1) /\ y = c + (y % r)
  BY <1>1, <1>2, Quotients
<1>4. PICK m \in 0 .. (r - 1) : m = x % r
  BY <1>3
<1>5. PICK n \in 0 .. (r - 1) : n = y % r
  BY <1>3
<1>6. x = c + m /\ y = c + n
  BY <1>3, <1>4, <1>5
<1>7. x - y = m - n
  BY <1>6
<1> QED
  BY <1>4, <1>5, <1>7

\* What lies between two numbers of one quotient has it too.
LEMMA QuotientBetween ==
    ASSUME NEW r \in Nat \ {0}, NEW x \in Nat, NEW y \in Nat, NEW z \in Nat,
           x <= y, y <= z, z \div r = x \div r
    PROVE  (y % r) - (x % r) = y - x
<1>1. x \div r \in Nat /\ y \div r \in Nat /\ z \div r \in Nat
  BY Quotients
<1>2. x \div r <= y \div r /\ y \div r <= z \div r
  BY QuotientsGrow
<1>3. y \div r = x \div r
  BY <1>1, <1>2
<1> QED
  BY <1>3, SameQuotient
-----------------------------------------------------------------------------
(* Powercap.                                                               *)

Amounts == [zone : Nat, rest : Nat]

\* Two amounts of energy, the second not before the first.
Later(a, b) == a.zone <= b.zone /\ a.rest <= b.rest

\* What is read of an amount, less what was read at init.
ZoneRead(e) == (e.zone % MaxRange) - (energy0.zone % MaxRange)
PkgRead(e) == ((e.zone + e.rest) % MaxRange) - ((energy0.zone + energy0.rest) % MaxRange)

PowercapStarted ==
    startValue = [zone |-> energy0.zone % MaxRange,
                  pkg |-> (energy0.zone + energy0.rest) % MaxRange]
PowercapCall ==
    call.pc = 1 => /\ ops = "live"
                   /\ call.at \in Amounts /\ Later(energy0, call.at) /\ Later(call.at, energy)
                   /\ call.value0 = ZoneRead(call.at)
PowercapReading ==
    reading.type = "SOCKET" =>
        /\ ops # "none"
        /\ reading.from \in Amounts /\ reading.to \in Amounts
        /\ Later(energy0, reading.from) /\ Later(reading.from, reading.to)
        /\ Later(reading.to, energy)
        /\ reading.value = PkgRead(reading.to) - ZoneRead(reading.from)

\* Energy grows from that at init to that of a call, of its end, and now.
PowercapInv ==
    /\ energy \in Amounts /\ energy0 \in Amounts /\ Later(energy0, energy)
    /\ ops # "none" => PowercapStarted
    /\ PowercapCall /\ PowercapReading

LEMMA PowercapInit == ASSUME P!PowercapAssumption, P!Init PROVE PowercapInv
  BY DEF P!PowercapAssumption, P!Init, P!NoCall, P!NoReading, PowercapInv, Amounts, Later,
     PowercapCall, PowercapReading

LEMMA PowercapConsume ==
    ASSUME P!PowercapAssumption, PowercapInv,
           NEW part \in {"zone", "rest"}, P!Consume(part)
    PROVE  PowercapInv'
<1>1. energy' \in Amounts /\ Later(energy, energy') /\ UNCHANGED <<startValue, ops, call, reading, energy0>>
  BY DEF P!Consume, PowercapInv, Amounts, Later
<1>2. ASSUME NEW e \in Amounts, Later(e, energy) PROVE Later(e, energy')
  BY <1>1, <1>2 DEF Later, PowercapInv, Amounts
<1> QED
  BY <1>1, <1>2 DEF PowercapInv, PowercapStarted, PowercapCall, PowercapReading, ZoneRead, PkgRead

LEMMA PowercapNext ==
    ASSUME P!PowercapAssumption, PowercapInv, [P!Next]_P!vars PROVE PowercapInv'
<1>1. CASE UNCHANGED P!vars
  BY <1>1 DEF P!vars, PowercapInv, PowercapStarted, PowercapCall, PowercapReading,
     ZoneRead, PkgRead
<1>2. CASE P!DevInit
  BY <1>2 DEF P!DevInit, P!Shown, P!Consumed, PowercapInv, PowercapStarted, PowercapCall,
     PowercapReading, ZoneRead, PkgRead, Amounts, Later
<1>3. CASE P!ReadMemory
  BY <1>3 DEF P!ReadMemory, PowercapInv, PowercapStarted, PowercapCall,
     PowercapReading, ZoneRead, PkgRead
<1>4. CASE P!ReadSocket
  <2>1. /\ call'.pc = 1 /\ call'.at = energy /\ ops = "live"
        /\ call'.value0 = (energy.zone % MaxRange) - startValue.zone
        /\ UNCHANGED <<energy, startValue, ops, reading, energy0>>
    BY <1>4 DEF P!ReadSocket, P!NoCall, P!First, P!SinceInit, P!Shown, P!Consumed
  <2> QED
    BY <2>1 DEF PowercapInv, PowercapStarted, PowercapCall,
       PowercapReading, ZoneRead, PkgRead, Amounts, Later
<1>5. CASE P!ReadSocketPkg
  <2>1. /\ call.pc = 1 /\ call'.pc = 0
        /\ reading'.from = call.at /\ reading'.to = energy
        /\ reading'.value = (((energy.zone + energy.rest) % MaxRange) - startValue.pkg)
                                - call.value0
        /\ UNCHANGED <<energy, startValue, ops, energy0>>
    BY <1>5 DEF P!ReadSocketPkg, P!NoCall, P!First, P!Second, P!SinceInit, P!Shown, P!Consumed
  <2> QED
    BY <2>1 DEF PowercapInv, PowercapStarted, PowercapCall,
       PowercapReading, ZoneRead, PkgRead, Amounts, Later
<1>6. CASE P!Final
  BY <1>6 DEF P!Final, PowercapInv, PowercapStarted, PowercapCall,
     PowercapReading, ZoneRead, PkgRead
<1> QED
  BY <1>1, <1>2, <1>3, <1>4, <1>5, <1>6, PowercapConsume DEF P!Next

\* Until a file wraps the energy of a socket is what the package consumed outside its
\* subzone since init, and what the subzone consumes between the two files
\* (pwr_powercap.c:114-118).
LEMMA PowercapBounds ==
    ASSUME P!PowercapAssumption, PowercapInv, reading.type = "SOCKET", P!Unwrapped
    PROVE  reading.value = reading.to.rest - energy0.rest + reading.to.zone - reading.from.zone
<1> DEFINE f == reading.from
           g == reading.to
<1>1. /\ energy \in Amounts /\ energy0 \in Amounts /\ f \in Amounts /\ g \in Amounts
      /\ Later(energy0, f) /\ Later(f, g) /\ Later(g, energy)
      /\ reading.value = PkgRead(g) - ZoneRead(f)
  BY DEF PowercapInv, PowercapReading
<1>2. /\ energy.zone \div MaxRange = energy0.zone \div MaxRange
      /\ (energy.zone + energy.rest) \div MaxRange
            = (energy0.zone + energy0.rest) \div MaxRange
  BY DEF P!Unwrapped, P!Consumed
<1> HIDE DEF f, g
<1>3. ZoneRead(f) = f.zone - energy0.zone
  <2>1. /\ energy.zone \in Nat /\ energy0.zone \in Nat /\ f.zone \in Nat
        /\ energy0.zone <= f.zone /\ f.zone <= energy.zone
    BY <1>1 DEF Amounts, Later
  <2> QED
    BY <1>2, <2>1, QuotientBetween DEF ZoneRead, P!PowercapAssumption
<1>4. PkgRead(g) = (g.zone + g.rest) - (energy0.zone + energy0.rest)
  <2> DEFINE x == energy0.zone + energy0.rest
             y == g.zone + g.rest
             z == energy.zone + energy.rest
  <2>1. x \in Nat /\ y \in Nat /\ z \in Nat /\ x <= y /\ y <= z
    BY <1>1 DEF Amounts, Later
  <2>2. z \div MaxRange = x \div MaxRange
    BY <1>2
  <2>3. PkgRead(g) = (y % MaxRange) - (x % MaxRange)
    BY DEF PkgRead
  <2> HIDE DEF x, y, z
  <2>4. PkgRead(g) = y - x
    BY <2>1, <2>2, <2>3, QuotientBetween DEF P!PowercapAssumption
  <2> QED
    BY <2>4 DEF x, y
<1>5. /\ f.zone \in Nat /\ g.zone \in Nat /\ g.rest \in Nat
      /\ energy0.zone \in Nat /\ energy0.rest \in Nat
  BY <1>1 DEF Amounts
<1>6. reading.value = g.rest - energy0.rest + g.zone - f.zone
  BY <1>1, <1>3, <1>4, <1>5
<1> QED
  BY <1>6 DEF f, g

LEMMA SocketBoundsHold == ASSUME P!PowercapAssumption, PowercapInv PROVE P!SocketBounds
<1> SUFFICES ASSUME reading.type = "SOCKET", P!Unwrapped
             PROVE  /\ reading.value >= reading.from.rest - energy0.rest
                    /\ reading.value <= reading.to.rest - energy0.rest
                                         + reading.to.zone - reading.from.zone
  BY DEF P!SocketBounds
<1>1. reading.value = reading.to.rest - energy0.rest + reading.to.zone - reading.from.zone
  BY PowercapBounds
<1>2. /\ reading.from \in Amounts /\ reading.to \in Amounts /\ energy0 \in Amounts
      /\ Later(reading.from, reading.to)
  BY DEF PowercapInv, PowercapReading
<1> QED
  BY <1>1, <1>2 DEF Amounts, Later

\* The energy of a socket is at least what the package consumed outside subzone 0 up to
\* the beginning of the call, and at most that up to its end and what the subzone
\* consumed during the call, for any range of the files that do not wrap
\* (pwr_powercap.c:114-118).
THEOREM SocketBoundsCorrect ==
    ASSUME P!PowercapAssumption
    PROVE  P!Spec => []P!SocketBounds
<1>1. PowercapInv => P!SocketBounds
  BY SocketBoundsHold
<1>2. P!Init => PowercapInv
  BY PowercapInit
<1>3. PowercapInv /\ [P!Next]_P!vars => PowercapInv'
  BY PowercapNext
<1> QED
  BY <1>1, <1>2, <1>3, PTL DEF P!Spec
-----------------------------------------------------------------------------
(* Counters: cpudev, xtpm and pmc.                                         *)

CallsInProgress ==
    [step : {1, 2}, plugin : F!Plugin, attr : F!Attr, left : Nat, value : Nat, old : Nat,
     warned : BOOLEAN]

CountersTypeOK ==
    /\ generation \in Nat /\ generation > 0
    /\ handle \in [F!Plugin -> [state : {"closed", "open", "null"}, generation : Nat]]
    /\ fds \in [F!Plugin -> Nat]
    /\ call = F!NoCall \/ call \in CallsInProgress

\* The call in progress knows the generation its handle has after, and the counter it
\* has read is not older.
ReadSince(c) ==
    c.plugin = "xtpm" => /\ c.old = handle["xtpm"].generation
                         /\ c.value # 0 => c.old <= c.value /\ c.value <= generation
NotAdded(c) == c.step = 1 => c.value = 0 /\ ~c.warned

CountersInv ==
    /\ CountersTypeOK
    /\ handle["xtpm"].generation <= generation
    /\ call # F!NoCall => ReadSince(call) /\ NotAdded(call)
    /\ call # F!NoCall /\ call.plugin # "xtpm" => call.step = 1
    /\ F!SameGeneration
    /\ F!NoneLeftOpen
LEMMA CallsDiffer ==
    /\ F!NoCall.step = 0
    /\ \A c \in CallsInProgress : c # F!NoCall /\ c.step \in {1, 2} /\ c.plugin \in F!Plugin
  BY DEF F!NoCall, CallsInProgress

\* A file that is read is closed, but by cpudev.
LEMMA FileClosed ==
    ASSUME CountersInv, NEW p \in F!Plugin, NEW file, NEW outcome,
           F!ReadFile(p, file, outcome)
    PROVE  fds' \in [F!Plugin -> Nat] /\ F!NoneLeftOpen'
  BY DEF CountersInv, CountersTypeOK, F!ReadFile, F!Forgets, F!NoneLeftOpen, F!Plugin

LEMMA ReadingReturned ==
    ASSUME NEW rc, NEW c, F!Return(rc, c),
           c.plugin = "xtpm" /\ rc = "SUCCESS" /\ c.value # 0 /\ ~c.warned
               => c.value = c.old
    PROVE  F!SameGeneration'
  BY DEF F!Return, F!SameGeneration

LEMMA NextReading ==
    ASSUME NEW rc, NEW c \in CallsInProgress, F!Return(rc, c),
           handle' \in [F!Plugin -> [state : {"closed", "open", "null"}, generation : Nat]]
    PROVE  /\ call' = F!NoCall \/ call' \in CallsInProgress
           /\ call' # F!NoCall => /\ call'.step = 1 /\ call'.value = 0 /\ ~call'.warned
                                  /\ call'.plugin = c.plugin
                                  /\ call'.old = handle'[c.plugin].generation
<1>1. CASE c.left > 1
  <2>1. call' = [c EXCEPT !.step = 1, !.left = @ - 1, !.value = 0,
                          !.old = handle'[c.plugin].generation, !.warned = FALSE]
    BY <1>1 DEF F!Return
  <2>2. c.left - 1 \in Nat /\ handle'[c.plugin].generation \in Nat
    BY <1>1 DEF CallsInProgress
  <2> QED
    BY <2>1, <2>2 DEF CallsInProgress
<1>2. CASE ~(c.left > 1)
  BY <1>2 DEF F!Return
<1> QED
  BY <1>1, <1>2

LEMMA ReturnInv ==
    ASSUME CountersInv, NEW rc, NEW c \in CallsInProgress, F!Return(rc, c),
           UNCHANGED generation,
           handle' \in [F!Plugin -> [state : {"closed", "open", "null"}, generation : Nat]],
           handle'["xtpm"].generation <= generation,
           fds' \in [F!Plugin -> Nat], F!NoneLeftOpen',
           c.plugin = "xtpm" /\ rc = "SUCCESS" /\ c.value # 0 /\ ~c.warned
               => c.value = c.old
    PROVE  CountersInv'
<1>1. F!SameGeneration'
  BY ReadingReturned
<1>2. /\ call' = F!NoCall \/ call' \in CallsInProgress
      /\ call' # F!NoCall => /\ call'.step = 1 /\ call'.value = 0 /\ ~call'.warned
                             /\ call'.plugin = c.plugin
                             /\ call'.old = handle'[c.plugin].generation
  BY NextReading
<1> QED
  BY <1>1, <1>2 DEF CountersInv, CountersTypeOK, ReadSince, NotAdded, F!NoCall

LEMMA GoesInv ==
    ASSUME CountersInv, NEW c \in CallsInProgress, F!Goes(c),
           c.plugin = "xtpm", c.step = 1, ReadSince(c), UNCHANGED <<generation, handle>>,
           fds' \in [F!Plugin -> Nat], F!NoneLeftOpen'
    PROVE  CountersInv'
<1>1. call' = [c EXCEPT !.step = 2] /\ reading' = F!NoReading
  BY DEF F!Goes, F!Steps
<1>2. call' \in CallsInProgress
  BY <1>1 DEF CallsInProgress
<1>3. /\ call'.plugin = "xtpm" /\ call'.step = 2 /\ call'.value = c.value
      /\ call'.old = c.old
  BY <1>1 DEF CallsInProgress
<1>4. F!SameGeneration'
  BY <1>1 DEF F!SameGeneration
<1> QED
  BY <1>2, <1>3, <1>4 DEF CountersInv, CountersTypeOK, ReadSince, NotAdded

LEMMA GoesReturns ==
    ASSUME NEW c, F!Goes(c), c.plugin # "xtpm", c.step = 1
    PROVE  F!Return("SUCCESS", c)
  BY DEF F!Goes, F!Steps

LEMMA ValueStep ==
    ASSUME CountersInv, call # F!NoCall, F!Steps(call.plugin)[call.step] = "value"
    PROVE  call.step = 1
  BY DEF CountersInv, CountersTypeOK, F!Steps, CallsInProgress

LEMMA ReadValueInv == ASSUME CountersInv, F!ReadValue PROVE CountersInv'
<1>1. call \in CallsInProgress /\ call # F!NoCall
  BY DEF F!ReadValue, CountersInv, CountersTypeOK
<1>2. /\ call.step = 1 /\ call.value = 0 /\ ~call.warned /\ ReadSince(call)
      /\ UNCHANGED generation
  BY <1>1, ValueStep DEF F!ReadValue, CountersInv, NotAdded
<1>3. call.plugin \in F!Plugin /\ F!NoneLeftOpen
  BY <1>1, CallsDiffer DEF CountersInv
<1>4. /\ generation \in Nat /\ generation > 0 /\ fds \in [F!Plugin -> Nat]
      /\ handle \in [F!Plugin -> [state : {"closed", "open", "null"}, generation : Nat]]
      /\ handle["xtpm"].generation <= generation
  BY DEF CountersInv, CountersTypeOK
<1> DEFINE read == [call EXCEPT !.value = generation]
<1>5. /\ read \in CallsInProgress /\ read.plugin = call.plugin /\ read.step = 1
      /\ ReadSince(read)
  BY <1>1, <1>2, <1>4 DEF CallsInProgress, ReadSince
<1>6. CASE handle[call.plugin].state = "null"
  <2>1. UNCHANGED <<handle, fds>> /\ F!Return("SUCCESS", call)
    BY <1>6 DEF F!ReadValue
  <2>2. F!NoneLeftOpen'
    BY <1>3, <2>1 DEF F!NoneLeftOpen
  <2> QED
    BY <1>1, <1>2, <1>4, <2>1, <2>2, ReturnInv
<1>7. CASE /\ handle[call.plugin].state # "null"
           /\ F!FileOf(call.plugin, call.attr) \in {"zero", "none"}
  <2>1. UNCHANGED <<handle, fds>> /\ F!Goes(call)
    BY <1>7 DEF F!ReadValue
  <2>2. F!NoneLeftOpen'
    BY <1>3, <2>1 DEF F!NoneLeftOpen
  <2>3. CASE call.plugin = "xtpm"
    BY <1>1, <1>2, <1>4, <2>1, <2>2, <2>3, GoesInv
  <2>4. CASE call.plugin # "xtpm"
    BY <1>1, <1>2, <1>4, <2>1, <2>2, <2>4, GoesReturns, ReturnInv
  <2> QED
    BY <2>3, <2>4
<1>8. CASE /\ handle[call.plugin].state # "null"
           /\ F!FileOf(call.plugin, call.attr) \notin {"zero", "none"}
  <2>1. PICK outcome \in {"failed", "unreadable", "read", "overrun"} :
           /\ F!ReadFile(call.plugin, F!FileOf(call.plugin, call.attr), outcome)
           /\ UNCHANGED handle
           /\ IF outcome = "read" THEN F!Goes(read) ELSE F!Return("FAILURE", call)
    BY <1>8 DEF F!ReadValue
  <2>2. fds' \in [F!Plugin -> Nat] /\ F!NoneLeftOpen'
    BY <1>3, <2>1, FileClosed
  <2> HIDE DEF read
  <2>3. CASE outcome # "read"
    BY <1>1, <1>2, <1>4, <2>1, <2>2, <2>3, ReturnInv
  <2>4. CASE outcome = "read" /\ call.plugin = "xtpm"
    BY <1>2, <1>4, <1>5, <2>1, <2>2, <2>4, GoesInv
  <2>5. CASE outcome = "read" /\ call.plugin # "xtpm"
    <3>1. F!Return("SUCCESS", read)
      BY <1>5, <2>1, <2>5, GoesReturns
    <3> QED
      BY <1>2, <1>4, <1>5, <2>1, <2>2, <2>5, <3>1, ReturnInv
  <2> QED
    BY <2>3, <2>4, <2>5
<1> QED
  BY <1>6, <1>7, <1>8

\* The generation is looked at last: if it is the one the handle has after, the counter
\* that was read in between is of it.
LEMMA ReadGenerationInv == ASSUME CountersInv, F!ReadGeneration PROVE CountersInv'
<1>1. call \in CallsInProgress /\ call # F!NoCall
  BY DEF F!ReadGeneration, CountersInv, CountersTypeOK
<1>2. call.plugin = "xtpm" /\ call.step = 2
  BY <1>1 DEF F!ReadGeneration, CountersInv, F!Steps, CallsInProgress
<1>3. /\ ReadSince(call) /\ UNCHANGED generation /\ "xtpm" \in F!Plugin
      /\ call.old \in Nat /\ call.value \in Nat
  BY <1>1 DEF F!ReadGeneration, CountersInv, F!Plugin, CallsInProgress
<1>4. /\ generation \in Nat /\ handle["xtpm"].generation <= generation
      /\ handle \in [F!Plugin -> [state : {"closed", "open", "null"}, generation : Nat]]
  BY DEF CountersInv, CountersTypeOK
<1> DEFINE after == [call EXCEPT !.warned = (handle["xtpm"].generation # generation)]
<1>5. PICK outcome \in {"failed", "unreadable", "read"} :
         /\ F!ReadFile("xtpm", "generation", outcome)
         /\ IF outcome = "read"
            THEN /\ handle' = [handle EXCEPT !["xtpm"].generation = generation]
                 /\ F!Goes(after)
            ELSE UNCHANGED handle /\ F!Return("FAILURE", call)
  BY <1>2 DEF F!ReadGeneration
<1>6. fds' \in [F!Plugin -> Nat] /\ F!NoneLeftOpen'
  BY <1>3, <1>5, FileClosed
<1>7. CASE outcome # "read"
  BY <1>1, <1>3, <1>4, <1>5, <1>6, <1>7, ReturnInv
<1>8. CASE outcome = "read"
  <2>1. /\ after \in CallsInProgress /\ after.step = 2 /\ after.plugin = "xtpm"
        /\ after.value = call.value /\ after.old = call.old
        /\ after.warned = (handle["xtpm"].generation # generation)
    BY <1>1, <1>2 DEF CallsInProgress
  <2>2. ~after.warned /\ after.value # 0 => after.value = after.old
    <3>1. handle["xtpm"].generation # generation => after.warned
      BY <2>1
    <3>2. /\ call.old = handle["xtpm"].generation
          /\ call.value # 0 => call.old <= call.value /\ call.value <= generation
      BY <1>2, <1>3 DEF ReadSince
    <3> HIDE DEF after
    <3> QED
      BY <1>3, <1>4, <2>1, <3>1, <3>2
  <2> HIDE DEF after
  <2>3. F!Return("SUCCESS", after)
    BY <1>5, <1>8, <2>1 DEF F!Goes, F!Steps
  <2>4. /\ handle' \in [F!Plugin -> [state : {"closed", "open", "null"}, generation : Nat]]
        /\ handle'["xtpm"].generation <= generation
    BY <1>3, <1>4, <1>5, <1>8
  <2> QED
    BY <1>3, <1>6, <2>1, <2>2, <2>3, <2>4, ReturnInv
<1> QED
  BY <1>7, <1>8
LEMMA CountersNext ==
    ASSUME MaxAttrs \in Nat, CountersInv, [F!Next]_F!vars PROVE CountersInv'
<1>1. CASE UNCHANGED F!vars
  BY <1>1 DEF F!vars, CountersInv, CountersTypeOK, ReadSince, NotAdded, F!SameGeneration,
     F!NoneLeftOpen
<1>2. ASSUME NEW p \in F!Plugin, F!OpenHandle(p) PROVE CountersInv'
  <2>1. call = F!NoCall /\ UNCHANGED <<generation, call>> /\ reading' = F!NoReading
    BY <1>2 DEF F!OpenHandle, F!Idle
  <2>2. /\ generation \in Nat /\ generation > 0 /\ fds \in [F!Plugin -> Nat]
        /\ handle \in [F!Plugin -> [state : {"closed", "open", "null"}, generation : Nat]]
        /\ handle["xtpm"].generation <= generation /\ F!NoneLeftOpen
    BY DEF CountersInv, CountersTypeOK
  <2>3. CASE p = "xtpm"
    <3>1. PICK outcome \in {"failed", "unreadable", "read"} :
             /\ F!ReadFile(p, "generation", outcome)
             /\ handle' = [handle EXCEPT ![p] =
                              IF outcome = "read"
                              THEN [state |-> "open", generation |-> generation]
                              ELSE [state |-> "null", generation |-> 0]]
      BY <1>2, <2>3 DEF F!OpenHandle
    <3>2. fds' \in [F!Plugin -> Nat] /\ F!NoneLeftOpen'
      BY <3>1, FileClosed
    <3>3. /\ handle' \in [F!Plugin -> [state : {"closed", "open", "null"}, generation : Nat]]
          /\ handle'["xtpm"].generation <= generation
      BY <2>2, <2>3, <3>1
    <3> QED
      BY <2>1, <2>2, <3>2, <3>3 DEF CountersInv, CountersTypeOK, F!SameGeneration
  <2>4. CASE p # "xtpm"
    <3>1. handle' = [handle EXCEPT ![p].state = "open"] /\ UNCHANGED fds
      BY <1>2, <2>4 DEF F!OpenHandle
    <3>2. /\ handle' \in [F!Plugin -> [state : {"closed", "open", "null"}, generation : Nat]]
          /\ handle'["xtpm"] = handle["xtpm"]
      BY <2>2, <2>4, <3>1 DEF F!Plugin
    <3> QED
      BY <2>1, <2>2, <3>1, <3>2
      DEF CountersInv, CountersTypeOK, F!SameGeneration, F!NoneLeftOpen
  <2> QED
    BY <2>3, <2>4
<1>3. ASSUME NEW p \in F!Plugin, F!CloseHandle(p) PROVE CountersInv'
  <2>1. /\ call = F!NoCall /\ UNCHANGED <<generation, fds, call>> /\ reading' = F!NoReading
        /\ handle' = [handle EXCEPT ![p].state = "closed"]
    BY <1>3 DEF F!CloseHandle, F!Idle
  <2>2. /\ handle' \in [F!Plugin -> [state : {"closed", "open", "null"}, generation : Nat]]
        /\ handle'["xtpm"].generation = handle["xtpm"].generation
    BY <2>1 DEF CountersInv, CountersTypeOK, F!Plugin
  <2> QED
    BY <2>1, <2>2 DEF CountersInv, CountersTypeOK, F!SameGeneration, F!NoneLeftOpen
<1>4. ASSUME NEW p \in F!Plugin, NEW attr \in F!Attr, NEW n \in 1 .. MaxAttrs,
             F!Begin(p, attr, n)
      PROVE  CountersInv'
  <2>1. /\ call' = [step |-> 1, plugin |-> p, attr |-> attr, left |-> n,
                    value |-> 0, old |-> handle[p].generation, warned |-> FALSE]
        /\ reading' = F!NoReading /\ UNCHANGED <<generation, handle, fds>>
    BY <1>4 DEF F!Begin
  <2>2. call' \in CallsInProgress
    BY <1>4, <2>1 DEF CallsInProgress, CountersInv, CountersTypeOK
  <2>3. ReadSince(call)' /\ NotAdded(call)' /\ call'.step = 1
    BY <2>1 DEF ReadSince, NotAdded
  <2> QED
    BY <2>1, <2>2, <2>3 DEF CountersInv, CountersTypeOK, F!SameGeneration, F!NoneLeftOpen
<1>5. ASSUME generation' \in Nat, generation' >= generation, F!SameGeneration',
             UNCHANGED <<handle, fds, call>>
      PROVE  CountersInv'
  <2>1. /\ generation \in Nat /\ generation > 0
        /\ handle["xtpm"].generation \in Nat /\ handle["xtpm"].generation <= generation
    BY DEF CountersInv, CountersTypeOK, F!Plugin
  <2>2. call # F!NoCall => call.value \in Nat
    BY DEF CountersInv, CountersTypeOK, CallsInProgress
  <2>3. call # F!NoCall => ReadSince(call)' /\ NotAdded(call)'
    BY <1>5, <2>1, <2>2 DEF CountersInv, ReadSince, NotAdded
  <2> QED
    BY <1>5, <2>1, <2>3 DEF CountersInv, CountersTypeOK, F!NoneLeftOpen
<1>6. ASSUME NEW p \in F!Plugin, NEW attr \in F!Attr, F!Write(p, attr) PROVE CountersInv'
  <2>1. /\ generation' \in {generation, generation + 1} /\ reading' = F!NoReading
        /\ UNCHANGED <<handle, fds, call>>
    BY <1>6 DEF F!Write
  <2>2. generation \in Nat
    BY DEF CountersInv, CountersTypeOK
  <2>3. F!SameGeneration'
    BY <2>1 DEF F!SameGeneration
  <2> QED
    BY <1>5, <2>1, <2>2, <2>3
<1>7. CASE F!NewGeneration
  <2>1. generation' = generation + 1 /\ UNCHANGED <<handle, fds, call, reading>>
    BY <1>7 DEF F!NewGeneration
  <2>2. generation \in Nat
    BY DEF CountersInv, CountersTypeOK
  <2>3. F!SameGeneration'
    BY <2>1 DEF CountersInv, F!SameGeneration
  <2> QED
    BY <1>5, <2>1, <2>2, <2>3
<1> QED
  BY <1>1, <1>2, <1>3, <1>4, <1>6, <1>7, ReadValueInv, ReadGenerationInv DEF F!Next

LEMMA CountersInit == ASSUME F!Init PROVE CountersInv
<1>1. /\ generation = 1 /\ handle = [p \in F!Plugin |-> [state |-> "closed", generation |-> 0]]
      /\ fds = [p \in F!Plugin |-> 0] /\ call = F!NoCall /\ reading = F!NoReading
  BY DEF F!Init
<1> QED
  BY <1>1 DEF CountersInv, CountersTypeOK, F!SameGeneration, F!NoneLeftOpen, F!Plugin

\* A counter that xtpm reads without a warning is of the generation that the reading
\* before has seen, whenever the kernel or a power cap makes a new one and whatever
\* fails; and xtpm and pmc leave no descriptor open (pwr_xtpmdev.c:50-181,
\* pwr_pmcdev.c:58-83).
THEOREM CountersCheckedCorrect ==
    ASSUME F!CountersAssumption
    PROVE  F!Spec => [](F!SameGeneration /\ F!NoneLeftOpen)
<1>1. CountersInv => F!SameGeneration /\ F!NoneLeftOpen
  BY DEF CountersInv
<1>2. F!Init => CountersInv
  BY CountersInit
<1>3. CountersInv /\ [F!Next]_F!vars => CountersInv'
  BY CountersNext DEF F!CountersAssumption
<1> QED
  BY <1>1, <1>2, <1>3, PTL DEF F!Spec
-----------------------------------------------------------------------------
(* Piapi.                                                                  *)

Readers ==
    [pc : {"idle", "wait", "set", "ask", "spin"}, port : Port \cup {0}, request : Nat,
     first : BOOLEAN, left : Nat]

Samples == [port : Port \cup {0}, request : Nat, number : Nat, total : Nat]

\* A sample is one that a reader waits for.
Answers(sample, q) == sample.port = q.port /\ sample.request = q.request

\* What is on its way is for the reader that spins, whose flag is set until the last
\* sample has come.
SpinsFor(r) ==
    /\ coming # <<>> => piapidev_reading
    /\ \A i \in 1 .. Len(coming) :
          /\ Answers(coming[i], rd[r])
          /\ coming[i].number = coming[i].total <=> i = Len(coming)
    /\ coming = <<>> => /\ Answers(piapidev_counter, rd[r])
                       /\ piapidev_counter.number = piapidev_counter.total

\* A reader that is alone past the flag has set it when it asks, and what is on its way
\* is for it.
Apart ==
    /\ \A q, r \in Reader : I!Past(q) /\ I!Past(r) => q = r
    /\ (\A r \in Reader : rd[r].pc # "spin") => coming = <<>>
    /\ \A r \in Reader : /\ rd[r].pc = "ask" => piapidev_reading
                         /\ rd[r].pc = "spin" => SpinsFor(r)

PiapiTypeOK ==
    /\ rd \in [Reader -> Readers] /\ piapidev_reading \in BOOLEAN /\ asked \in Nat
    /\ coming \in Seq(Samples) /\ crossed \in BOOLEAN

PiapiInv == PiapiTypeOK /\ (~crossed => Apart) /\ I!OwnSample

LEMMA IdleType == I!Idle \in Readers /\ I!Idle.pc = "idle"
  BY DEF Readers, I!Idle

LEMMA AfterType ==
    ASSUME PiapiInv, NEW r \in Reader
    PROVE  /\ I!After(r) \in Readers
           /\ I!After(r).pc \in {"wait", "idle"}
<1>1. rd[r] \in Readers
  BY DEF PiapiInv, PiapiTypeOK
<1>2. CASE rd[r].left > 0
  <2>1. rd[r].left - 1 \in Nat
    BY <1>1, <1>2 DEF Readers
  <2> QED
    BY <1>1, <1>2, <2>1 DEF I!After, Readers
<1>3. CASE ~(rd[r].left > 0)
  BY <1>3, IdleType DEF I!After
<1> QED
  BY <1>2, <1>3

\* A reader moves on, but not to where it spins, and does not clear the flag.
LEMMA ReaderMoves ==
    ASSUME PiapiInv, NEW r \in Reader, NEW x \in Readers,
           rd' = [rd EXCEPT ![r] = x], x.pc # "spin",
           piapidev_reading' \in BOOLEAN, piapidev_reading => piapidev_reading',
           x.pc \in {"set", "ask"} => I!Past(r),
           x.pc = "ask" => piapidev_reading',
           ~crossed /\ rd[r].pc = "spin" => coming = <<>>,
           UNCHANGED <<coming, asked, crossed, piapidev_counter>>, I!OwnSample'
    PROVE  PiapiInv'
<1>1. PiapiTypeOK'
  BY DEF PiapiInv, PiapiTypeOK
<1>2. rd'[r] = x /\ \A q \in Reader \ {r} : rd'[q] = rd[q]
  BY DEF PiapiInv, PiapiTypeOK
<1>3. ASSUME ~crossed PROVE Apart'
  <2>1. Apart
    BY <1>3 DEF PiapiInv
  <2>2. \A q \in Reader : I!Past(q)' => I!Past(q)
    BY <1>2 DEF I!Past, Readers
  <2>3. \A p, q \in Reader : I!Past(p)' /\ I!Past(q)' => p = q
    BY <2>1, <2>2 DEF Apart
  <2>4. (\A q \in Reader : rd'[q].pc # "spin") => coming' = <<>>
    BY <1>2, <1>3, <2>1 DEF Apart
  <2>5. ASSUME NEW q \in Reader, rd'[q].pc = "ask" PROVE piapidev_reading'
    BY <1>2, <2>1, <2>5 DEF Apart
  <2>6. ASSUME NEW q \in Reader, rd'[q].pc = "spin" PROVE SpinsFor(q)'
    BY <1>2, <2>1, <2>6 DEF Apart, SpinsFor, Answers
  <2> QED
    BY <2>3, <2>4, <2>5, <2>6 DEF Apart
<1> QED
  BY <1>1, <1>3 DEF PiapiInv

\* A reader that finds the flag clear is alone, or crosses another one.
LEMMA FreeInv == ASSUME PiapiInv, NEW r \in Reader, I!Free(r) PROVE PiapiInv'
<1> DEFINE x == [rd[r] EXCEPT !.pc = "set"]
<1>1. rd[r] \in Readers /\ rd' = [rd EXCEPT ![r] = x] /\ x \in Readers /\ x.pc = "set"
  BY DEF PiapiInv, PiapiTypeOK, I!Free, I!Goes, Readers
<1>2. PiapiTypeOK' /\ I!OwnSample'
  <2>1. UNCHANGED <<piapidev_reading, coming, asked, got>> /\ crossed' \in BOOLEAN
    BY DEF I!Free
  <2> QED
    BY <1>1, <2>1 DEF PiapiInv, PiapiTypeOK, I!OwnSample
<1>3. rd'[r].pc = "set" /\ \A q \in Reader \ {r} : rd'[q] = rd[q]
  BY <1>1 DEF PiapiInv, PiapiTypeOK
<1>4. ASSUME ~crossed' PROVE Apart'
  <2>1. coming' = <<>> /\ \A q \in Reader \ {r} : ~I!Past(q)
    BY <1>4 DEF I!Free
  <2>2. \A q \in Reader \ {r} : ~I!Past(q)'
    BY <1>3, <2>1 DEF I!Past
  <2>3. \A q \in Reader : rd'[q].pc \notin {"ask", "spin"}
    BY <1>3, <2>2 DEF I!Past
  <2> QED
    BY <2>1, <2>2, <2>3 DEF Apart
<1> QED
  BY <1>2, <1>4 DEF PiapiInv

\* The samples of a request are for the reader that made it.
LEMMA AskInv ==
    ASSUME I!PiapiAssumption, PiapiInv, NEW r \in Reader, I!Ask(r) PROVE PiapiInv'
<1>1. PICK t \in Total :
        /\ coming' = coming \o [i \in 1 .. t |->
                [port |-> rd[r].port, request |-> asked + 1, number |-> i, total |-> t]]
        /\ rd' = [rd EXCEPT ![r].pc = "spin", ![r].request = asked + 1]
  BY DEF I!Ask
<1> DEFINE s == [i \in 1 .. t |->
                   [port |-> rd[r].port, request |-> asked + 1, number |-> i, total |-> t]]
<1>2. /\ rd[r] \in Readers /\ rd[r].pc = "ask" /\ asked + 1 \in Nat /\ t \in Nat /\ t > 0
      /\ piapidev_reading' = piapidev_reading /\ asked' = asked + 1
      /\ UNCHANGED <<got, crossed>>
  BY DEF PiapiInv, PiapiTypeOK, I!Ask, I!PiapiAssumption
<1>3. s \in Seq(Samples) /\ Len(s) = t
  <2>1. rd[r].port \in Port \cup {0}
    BY <1>2 DEF Readers
  <2>2. \A i \in 1 .. t : s[i] \in Samples
    BY <1>2, <2>1 DEF Samples
  <2>3. s \in [1 .. t -> Samples]
    BY <2>2
  <2> HIDE DEF s
  <2> QED
    BY <1>2, <2>3
<1>4. \A i \in 1 .. t : /\ s[i].port = rd[r].port /\ s[i].request = asked + 1
                        /\ s[i].number = i /\ s[i].total = t
  OBVIOUS
<1>5. coming' = coming \o s
  BY <1>1
<1> HIDE DEF s
<1>6. /\ rd'[r] = [rd[r] EXCEPT !.pc = "spin", !.request = asked + 1]
      /\ rd' \in [Reader -> Readers] /\ \A q \in Reader \ {r} : rd'[q] = rd[q]
  BY <1>1, <1>2 DEF PiapiInv, PiapiTypeOK, Readers
<1>7. rd'[r].port = rd[r].port /\ rd'[r].request = asked + 1 /\ rd'[r].pc = "spin"
  BY <1>2, <1>6 DEF Readers
<1>8. PiapiTypeOK' /\ I!OwnSample'
  BY <1>2, <1>3, <1>5, <1>6 DEF PiapiInv, PiapiTypeOK, I!OwnSample
<1>9. ASSUME ~crossed PROVE Apart'
  <2>1. Apart /\ I!Past(r)
    BY <1>2, <1>9 DEF PiapiInv, I!Past
  <2>2. /\ piapidev_reading
        /\ \A q \in Reader \ {r} : ~I!Past(q) /\ ~I!Past(q)'
    BY <1>2, <1>6, <2>1 DEF Apart, I!Past
  <2>3. coming = <<>>
    BY <1>2, <2>1, <2>2 DEF Apart, I!Past
  <2>4. coming' = s /\ s # <<>>
    BY <1>2, <1>3, <1>5, <2>3
  <2>5. SpinsFor(r)'
    BY <1>2, <1>3, <1>4, <1>7, <2>2, <2>4 DEF SpinsFor, Answers
  <2>6. \A q \in Reader \ {r} : rd'[q].pc \notin {"ask", "spin"}
    BY <2>2 DEF I!Past
  <2> QED
    BY <1>7, <2>2, <2>5, <2>6 DEF Apart
<1> QED
  BY <1>2, <1>8, <1>9 DEF PiapiInv

\* The last sample clears the flag of the reader it is for.
LEMMA CallbackSpins ==
    ASSUME PiapiInv, I!Callback, NEW r \in Reader, SpinsFor(r)
    PROVE  SpinsFor(r)'
<1>1. /\ coming # <<>> /\ piapidev_counter' = Head(coming) /\ coming' = Tail(coming)
      /\ piapidev_reading' = (piapidev_reading /\ Head(coming).number # Head(coming).total)
      /\ UNCHANGED rd
  BY DEF I!Callback, I!LastSample
<1>2. /\ coming \in Seq(Samples)
      /\ Len(coming) > 0 /\ Head(coming) = coming[1]
      /\ coming' \in Seq(Samples)
      /\ Len(coming') = Len(coming) - 1
      /\ \A i \in 1 .. Len(coming') : coming'[i] = coming[i + 1]
  BY <1>1, HeadTailProperties DEF PiapiInv, PiapiTypeOK
<1>3. PICK n \in Nat : n = Len(coming)
  BY <1>2
<1>4. /\ piapidev_reading /\ n > 0 /\ Len(coming') = n - 1
      /\ \A i \in 1 .. n : /\ Answers(coming[i], rd[r])
                           /\ coming[i].number = coming[i].total <=> i = n
  <2>1. /\ piapidev_reading
        /\ \A i \in 1 .. Len(coming) :
              /\ Answers(coming[i], rd[r])
              /\ coming[i].number = coming[i].total <=> i = Len(coming)
    BY <1>1 DEF SpinsFor
  <2> QED
    BY <1>2, <1>3, <2>1
<1>5. \A i \in 1 .. n - 1 : i + 1 \in 1 .. n /\ (i + 1 = n <=> i = n - 1)
  OBVIOUS
<1>6. \A i \in 1 .. n - 1 : /\ Answers(coming'[i], rd[r])
                            /\ coming'[i].number = coming'[i].total <=> i = n - 1
  BY <1>1, <1>2, <1>4, <1>5 DEF Answers
<1>7. CASE n = 1
  <2>1. coming' = <<>>
    BY <1>2, <1>4, <1>7
  <2>2. coming[1].number = coming[1].total /\ Answers(coming[1], rd[r])
    BY <1>4, <1>7
  <2>3. /\ Answers(piapidev_counter', rd'[r])
        /\ piapidev_counter'.number = piapidev_counter'.total
    BY <1>1, <1>2, <2>2
  <2>4. Len(coming') = 0
    BY <1>4, <1>7
  <2> QED
    BY <2>1, <2>3, <2>4 DEF SpinsFor
<1>8. CASE n # 1
  <2>1. coming' # <<>>
    BY <1>2, <1>4, <1>8
  <2>2. coming[1].number # coming[1].total
    BY <1>4, <1>8
  <2>3. piapidev_reading'
    BY <1>1, <1>2, <1>4, <2>2
  <2>4. \A i \in 1 .. Len(coming') :
           /\ Answers(coming'[i], rd'[r])
           /\ coming'[i].number = coming'[i].total <=> i = Len(coming')
    BY <1>1, <1>4, <1>6
  <2> QED
    BY <2>1, <2>3, <2>4 DEF SpinsFor
<1> QED
  BY <1>7, <1>8

LEMMA CallbackInv == ASSUME PiapiInv, I!Callback PROVE PiapiInv'
<1>1. /\ coming # <<>> /\ coming' = Tail(coming) /\ piapidev_reading' \in BOOLEAN
      /\ UNCHANGED <<asked, rd, crossed, got>>
  BY DEF I!Callback, PiapiInv, PiapiTypeOK
<1>2. PiapiTypeOK' /\ I!OwnSample'
  BY <1>1 DEF PiapiInv, PiapiTypeOK, I!OwnSample
<1>3. ASSUME ~crossed PROVE Apart'
  <2>1. Apart
    BY <1>3 DEF PiapiInv
  <2>2. PICK r \in Reader : rd[r].pc = "spin"
    BY <1>1, <2>1 DEF Apart
  <2>3. SpinsFor(r)'
    BY <2>1, <2>2, CallbackSpins DEF Apart
  <2>4. \A q \in Reader \ {r} : rd[q].pc \notin {"ask", "spin"}
    BY <2>1, <2>2 DEF Apart, I!Past
  <2>5. \A p, q \in Reader : I!Past(p)' /\ I!Past(q)' => p = q
    BY <1>1, <2>1 DEF Apart, I!Past
  <2> QED
    BY <1>1, <2>2, <2>3, <2>4, <2>5 DEF Apart
<1> QED
  BY <1>1, <1>2, <1>3 DEF PiapiInv

LEMMA PiapiNext == ASSUME I!PiapiAssumption, PiapiInv, [I!Next]_I!vars PROVE PiapiInv'
<1>1. CASE UNCHANGED I!vars
  BY <1>1 DEF I!vars, PiapiInv, PiapiTypeOK, Apart, I!Past, SpinsFor, Answers, I!OwnSample
<1>2. ASSUME NEW r \in Reader, NEW port \in Port, NEW n \in 0 .. MaxReadv, I!Call(r, port, n)
      PROVE  PiapiInv'
  <2> DEFINE x == [rd[r] EXCEPT !.pc = "wait", !.port = port, !.first = TRUE, !.left = n]
  <2>1. rd[r] \in Readers /\ n \in Nat /\ rd[r].pc = "idle"
    BY <1>2 DEF PiapiInv, PiapiTypeOK, I!PiapiAssumption, I!Call
  <2>2. x \in Readers /\ x.pc = "wait"
    BY <2>1 DEF Readers
  <2>3. /\ rd' = [rd EXCEPT ![r] = x]
        /\ UNCHANGED <<piapidev_reading, piapidev_counter, coming, asked, crossed, got>>
    BY <1>2 DEF I!Call
  <2>4. I!OwnSample' /\ piapidev_reading' \in BOOLEAN
    BY <2>3 DEF PiapiInv, PiapiTypeOK, I!OwnSample
  <2> HIDE DEF x
  <2> QED
    BY <2>1, <2>2, <2>3, <2>4, ReaderMoves
<1>3. ASSUME NEW r \in Reader, I!Free(r) PROVE PiapiInv'
  BY <1>3, FreeInv
<1>4. ASSUME NEW r \in Reader, I!Set(r) PROVE PiapiInv'
  <2> DEFINE x == [rd[r] EXCEPT !.pc = "ask"]
  <2>1. rd[r] \in Readers /\ rd[r].pc = "set" /\ I!Past(r)
    BY <1>4 DEF PiapiInv, PiapiTypeOK, I!Set, I!Past
  <2>2. x \in Readers /\ x.pc = "ask"
    BY <2>1 DEF Readers
  <2>3. /\ rd' = [rd EXCEPT ![r] = x] /\ piapidev_reading' = TRUE
        /\ UNCHANGED <<piapidev_counter, coming, asked, crossed, got>>
    BY <1>4 DEF I!Set, I!Goes
  <2>4. I!OwnSample'
    BY <2>3 DEF PiapiInv, I!OwnSample
  <2> HIDE DEF x
  <2> QED
    BY <2>1, <2>2, <2>3, <2>4, ReaderMoves
<1>5. ASSUME NEW r \in Reader, I!AskFails(r) PROVE PiapiInv'
  <2> DEFINE x == IF rd[r].first THEN I!Idle ELSE I!After(r)
  <2>1. rd[r] \in Readers /\ rd[r].pc = "ask"
    BY <1>5 DEF PiapiInv, PiapiTypeOK, I!AskFails
  <2>2. x \in Readers /\ x.pc \in {"wait", "idle"}
    BY AfterType, IdleType
  <2>3. /\ rd' = [rd EXCEPT ![r] = x]
        /\ UNCHANGED <<piapidev_reading, piapidev_counter, coming, asked, crossed, got>>
    BY <1>5 DEF I!AskFails
  <2>4. I!OwnSample' /\ piapidev_reading' \in BOOLEAN
    BY <2>3 DEF PiapiInv, PiapiTypeOK, I!OwnSample
  <2> HIDE DEF x
  <2> QED
    BY <2>1, <2>2, <2>3, <2>4, ReaderMoves
<1>6. ASSUME NEW r \in Reader, I!Take(r) PROVE PiapiInv'
  <2> DEFINE x == I!After(r)
  <2>1. rd[r].pc = "spin" /\ ~piapidev_reading
    BY <1>6 DEF I!Take
  <2>2. ASSUME ~crossed
        PROVE  /\ coming = <<>> /\ Answers(piapidev_counter, rd[r])
               /\ piapidev_counter.number = piapidev_counter.total
    BY <2>1, <2>2 DEF PiapiInv, Apart, SpinsFor
  <2>3. x \in Readers /\ x.pc \in {"wait", "idle"}
    BY AfterType
  <2>4. /\ rd' = [rd EXCEPT ![r] = x]
        /\ UNCHANGED <<piapidev_reading, piapidev_counter, coming, asked, crossed>>
    BY <1>6 DEF I!Take
  <2>5. I!OwnSample'
    <3>1. CASE crossed
      BY <1>6, <3>1 DEF I!Take, PiapiInv, I!OwnSample
    <3>2. CASE ~crossed
      <4>1. got' = [port |-> rd[r].port, request |-> rd[r].request,
                    sample |-> piapidev_counter]
        BY <1>6, <3>2 DEF I!Take
      <4> QED
        BY <2>2, <3>2, <4>1 DEF I!OwnSample, Answers
    <3> QED
      BY <3>1, <3>2
  <2>6. piapidev_reading' \in BOOLEAN
    BY <2>4 DEF PiapiInv, PiapiTypeOK
  <2> HIDE DEF x
  <2> QED
    BY <2>2, <2>3, <2>4, <2>5, <2>6, ReaderMoves
<1>7. ASSUME NEW r \in Reader, I!Ask(r) PROVE PiapiInv'
  BY <1>7, AskInv
<1>8. CASE I!Callback
  BY <1>8, CallbackInv
<1> QED
  BY <1>1, <1>2, <1>3, <1>4, <1>5, <1>6, <1>7, <1>8 DEF I!Next

LEMMA PiapiInit == ASSUME I!Init PROVE PiapiInv
<1>1. rd \in [Reader -> Readers] /\ \A r \in Reader : rd[r].pc = "idle"
  BY IdleType DEF I!Init
<1>2. coming = <<>> /\ coming \in Seq(Samples)
  BY DEF I!Init
<1>3. asked = 0 /\ piapidev_reading = FALSE /\ got = I!NoValue /\ crossed = FALSE
  BY DEF I!Init
<1> QED
  BY <1>1, <1>2, <1>3 DEF PiapiInv, PiapiTypeOK, Apart, I!Past, I!OwnSample

\* However many threads read: a value that a reader takes alone is the last sample of its
\* own port, in answer to its own request, for any ports and any numbers of samples and
\* requests, also when some requests fail (pwr_piapidev.c:185-223).
THEOREM OwnSampleCorrect ==
    ASSUME I!PiapiAssumption
    PROVE  I!Spec => []I!OwnSample
<1>1. PiapiInv => I!OwnSample
  BY DEF PiapiInv
<1>2. I!Init => PiapiInv
  BY PiapiInit
<1>3. PiapiInv /\ [I!Next]_I!vars => PiapiInv'
  BY PiapiNext
<1> QED
  BY <1>1, <1>2, <1>3, PTL DEF I!Spec
-----------------------------------------------------------------------------
(* WattsUp.                                                                *)

Chars == [of : Nat, char : W!Char]

\* The requests of which a queue of characters has the fields, and that it has them in
\* the order of the requests.
FieldsIn(q) == {q[i].of : i \in {j \in 1 .. Len(q) : q[j].char = "fields"}}
Ordered(q) ==
    \A i, j \in 1 .. Len(q) :
        i < j /\ q[i].char = "fields" /\ q[j].char = "fields" => q[i].of < q[j].of
AllBefore(A, B) == \A a \in A, b \in B : a < b

LEMMA FieldsAppend ==
    ASSUME NEW q \in Seq(Chars), NEW c \in Chars
    PROVE  /\ Append(q, c) \in Seq(Chars)
           /\ FieldsIn(Append(q, c))
                = FieldsIn(q) \cup (IF c.char = "fields" THEN {c.of} ELSE {})
<1> DEFINE r == Append(q, c)
<1>1. /\ r \in Seq(Chars) /\ Len(r) = Len(q) + 1 /\ r[Len(q) + 1] = c
      /\ \A i \in 1 .. Len(q) : r[i] = q[i]
  BY AppendProperties
<1>2. PICK n \in Nat : n = Len(q)
  BY LenProperties
<1> HIDE DEF r
<1>3. FieldsIn(r) = {r[i].of : i \in {j \in 1 .. n + 1 : r[j].char = "fields"}}
  BY <1>1, <1>2 DEF FieldsIn
<1>4. FieldsIn(q) = {q[i].of : i \in {j \in 1 .. n : q[j].char = "fields"}}
  BY <1>2 DEF FieldsIn
<1>5. /\ \A i \in 1 .. n : i \in 1 .. n + 1 /\ r[i] = q[i]
      /\ n + 1 \in 1 .. n + 1 /\ r[n + 1] = c
      /\ \A i \in 1 .. n + 1 : i \in 1 .. n \/ i = n + 1
  BY <1>1, <1>2
<1>6. FieldsIn(r) = FieldsIn(q) \cup (IF c.char = "fields" THEN {c.of} ELSE {})
  BY <1>3, <1>4, <1>5
<1> QED
  BY <1>1, <1>6 DEF r

LEMMA OrderedAppend ==
    ASSUME NEW q \in Seq(Chars), NEW c \in Chars, Ordered(q),
           c.char = "fields" => AllBefore(FieldsIn(q), {c.of})
    PROVE  Ordered(Append(q, c))
<1> DEFINE r == Append(q, c)
<1>1. /\ r \in Seq(Chars) /\ Len(r) = Len(q) + 1 /\ r[Len(q) + 1] = c
      /\ \A i \in 1 .. Len(q) : r[i] = q[i]
  BY AppendProperties
<1>2. PICK n \in Nat : n = Len(q)
  BY LenProperties
<1> HIDE DEF r
<1>3. /\ Len(r) = n + 1 /\ r[n + 1] = c /\ \A i \in 1 .. n : r[i] = q[i]
      /\ \A i, j \in 1 .. n + 1 : i < j => i \in 1 .. n /\ (j \in 1 .. n \/ j = n + 1)
  BY <1>1, <1>2
<1>4. \A i \in 1 .. n : q[i].char = "fields" => q[i].of \in FieldsIn(q)
  BY <1>2 DEF FieldsIn
<1> SUFFICES ASSUME NEW i \in 1 .. n + 1, NEW j \in 1 .. n + 1, i < j,
                    r[i].char = "fields", r[j].char = "fields"
             PROVE  r[i].of < r[j].of
  BY <1>3 DEF Ordered, r
<1>5. CASE j \in 1 .. n
  BY <1>2, <1>3, <1>5 DEF Ordered
<1>6. CASE j = n + 1
  BY <1>3, <1>4, <1>6 DEF AllBefore
<1> QED
  BY <1>3, <1>5, <1>6

LEMMA TailPositions ==
    ASSUME NEW q \in Seq(Chars), q # <<>>
    PROVE  /\ Tail(q) \in Seq(Chars) /\ Head(q) \in Chars /\ Head(q) = q[1]
           /\ \E n \in Nat : /\ Len(q) = n + 1 /\ Len(Tail(q)) = n
                            /\ \A i \in 1 .. n : Tail(q)[i] = q[i + 1]
<1>1. /\ Tail(q) \in Seq(Chars) /\ Head(q) \in Chars /\ Head(q) = q[1]
      /\ Len(Tail(q)) = Len(q) - 1 /\ Len(q) \in Nat /\ Len(q) > 0
      /\ \A i \in 1 .. Len(Tail(q)) : Tail(q)[i] = q[i + 1]
  BY HeadTailProperties, LenProperties, EmptySeq
<1>2. PICK m \in Nat : m = Len(q)
  BY <1>1
<1>3. m - 1 \in Nat /\ m = (m - 1) + 1
  BY <1>1, <1>2
<1>4. PICK n \in Nat : n = m - 1 /\ m = n + 1
  BY <1>3
<1>5. Len(q) = n + 1 /\ Len(Tail(q)) = n
  BY <1>1, <1>2, <1>4
<1> QED
  BY <1>1, <1>5

\* The first character of an ordered queue, and the rest.
LEMMA FieldsTail ==
    ASSUME NEW q \in Seq(Chars), q # <<>>, Ordered(q)
    PROVE  /\ FieldsIn(Tail(q)) \subseteq FieldsIn(q)
           /\ Ordered(Tail(q))
           /\ Head(q).char = "fields" => /\ Head(q).of \in FieldsIn(q)
                                        /\ AllBefore({Head(q).of}, FieldsIn(Tail(q)))
<1>1. PICK n \in Nat : /\ Len(q) = n + 1 /\ Len(Tail(q)) = n
                       /\ \A i \in 1 .. n : Tail(q)[i] = q[i + 1]
  BY TailPositions
<1>2. \A i \in 1 .. n : i + 1 \in 1 .. n + 1 /\ 1 < i + 1
  OBVIOUS
<1>3. 1 \in 1 .. n + 1 /\ Head(q) = q[1]
  BY TailPositions
<1>4. FieldsIn(Tail(q)) \subseteq FieldsIn(q)
  BY <1>1, <1>2 DEF FieldsIn
<1>5. \A i, j \in 1 .. n : i < j => i + 1 < j + 1
  OBVIOUS
<1>6. Ordered(Tail(q))
  BY <1>1, <1>2, <1>5 DEF Ordered
<1>7. Head(q).char = "fields" => Head(q).of \in FieldsIn(q)
  BY <1>1, <1>3 DEF FieldsIn
<1>8. Head(q).char = "fields" => AllBefore({Head(q).of}, FieldsIn(Tail(q)))
  BY <1>1, <1>2, <1>3 DEF AllBefore, FieldsIn, Ordered
<1> QED
  BY <1>4, <1>6, <1>7, <1>8

\* The fields of the first character have been sent, its end has not.
LEMMA FieldsSent ==
    ASSUME NEW q \in Seq(Chars), q # <<>>, Ordered(q)
    PROVE  /\ [q EXCEPT ![1].char = "end"] \in Seq(Chars)
           /\ Ordered([q EXCEPT ![1].char = "end"])
           /\ FieldsIn([q EXCEPT ![1].char = "end"]) \subseteq FieldsIn(Tail(q))
<1> DEFINE r == [q EXCEPT ![1].char = "end"]
<1>1. PICK n \in Nat : /\ Len(q) = n + 1 /\ Len(Tail(q)) = n
                       /\ \A i \in 1 .. n : Tail(q)[i] = q[i + 1]
  BY TailPositions
<1>2. q \in [1 .. n + 1 -> Chars]
  BY <1>1
<1>3. q[1] \in Chars /\ [q[1] EXCEPT !.char = "end"] \in Chars
      /\ [q[1] EXCEPT !.char = "end"].char # "fields"
  BY <1>2 DEF Chars, W!Char
<1>4. /\ r \in [1 .. n + 1 -> Chars]
      /\ r[1].char # "fields"
      /\ \A i \in 1 .. n + 1 : i # 1 => r[i] = q[i]
  BY <1>2, <1>3
<1> HIDE DEF r
<1>5. r \in Seq(Chars) /\ Len(r) = n + 1
  BY <1>4
<1>6. Ordered(r)
  BY <1>1, <1>4, <1>5 DEF Ordered
<1>7. ASSUME NEW i \in 1 .. n + 1, r[i].char = "fields"
      PROVE  r[i].of \in FieldsIn(Tail(q))
  <2>1. i # 1 /\ i - 1 \in 1 .. n /\ (i - 1) + 1 = i
    BY <1>4, <1>7
  <2>2. Tail(q)[i - 1] = r[i]
    BY <1>1, <1>4, <2>1
  <2> QED
    BY <1>1, <1>7, <2>1, <2>2 DEF FieldsIn
<1>8. FieldsIn(r) \subseteq FieldsIn(Tail(q))
  BY <1>5, <1>7 DEF FieldsIn
<1> QED
  BY <1>5, <1>6, <1>8 DEF r
\* A read in progress, and how many calls have returned.
WattsUpTypeOK ==
    /\ requests \in Seq(Chars) /\ line \in Seq(Chars) /\ calls \in Nat
    /\ call.buf \in Seq(Chars)
    /\ call.pc = "idle" => call.buf = <<>>
    /\ results \in Seq([kind : W!Result, of : Nat])
    /\ call.pc \in {"idle", "read", "extract"}
    /\ Len(results) = IF call.pc = "idle" THEN calls ELSE calls - 1

\* The requests of which fields are under way, in the order they will be read, and the
\* readings, which are of requests before these.
InTurn ==
    /\ Ordered(call.buf) /\ Ordered(line) /\ Ordered(requests)
    /\ AllBefore(FieldsIn(call.buf), FieldsIn(line))
    /\ AllBefore(FieldsIn(call.buf), FieldsIn(requests))
    /\ AllBefore(FieldsIn(line), FieldsIn(requests))
UnderWay == FieldsIn(call.buf) \cup FieldsIn(line) \cup FieldsIn(requests)
Readings == {results[n].of : n \in {m \in 1 .. Len(results) : results[m].kind = "value"}}

WattsUpInv ==
    /\ WattsUpTypeOK /\ InTurn
    /\ UnderWay \subseteq 1 .. calls
    /\ AllBefore(Readings, UnderWay)
    /\ \A n \in DOMAIN results : results[n].kind = "value" => results[n].of \in 1 .. n
    /\ W!LagNeverShrinks

LEMMA NoFields == FieldsIn(<<>>) = {} /\ Ordered(<<>>) /\ <<>> \in Seq(Chars)
  BY DEF FieldsIn, Ordered

\* A call returns.
LEMMA ReturnsInv ==
    ASSUME WattsUpInv, NEW kind \in W!Result, NEW of \in Nat, W!Returns(kind, of),
           UNCHANGED <<requests, line>>, calls' \in Nat, calls <= calls',
           Len(results) + 1 = calls',
           kind = "value" => /\ of \in 1 .. calls'
                             /\ AllBefore(Readings, {of})
                             /\ AllBefore({of}, FieldsIn(line) \cup FieldsIn(requests))
    PROVE  WattsUpInv'
<1> DEFINE e == [kind |-> kind, of |-> of]
<1>1. /\ call'.pc = "idle" /\ call'.buf = <<>> /\ results' = Append(results, e)
      /\ e \in [kind : W!Result, of : Nat] /\ e.kind = kind /\ e.of = of
  BY DEF W!Returns, W!NoCall
<1> HIDE DEF e
<1>2. PICK n \in Nat : n = Len(results)
  BY LenProperties DEF WattsUpInv, WattsUpTypeOK
<1>3. /\ results \in Seq([kind : W!Result, of : Nat])
      /\ results' \in Seq([kind : W!Result, of : Nat])
      /\ Len(results') = n + 1 /\ results'[n + 1] = e
      /\ \A i \in 1 .. n : results'[i] = results[i]
  BY <1>1, <1>2, AppendProperties DEF WattsUpInv, WattsUpTypeOK
<1>4. calls' = n + 1
  BY <1>2
<1>5. WattsUpTypeOK'
  BY <1>1, <1>3, <1>4, NoFields DEF WattsUpInv, WattsUpTypeOK
<1>6. InTurn'
  BY <1>1, NoFields DEF WattsUpInv, InTurn, AllBefore
<1>7. UnderWay' \subseteq UnderWay /\ UnderWay' = FieldsIn(line) \cup FieldsIn(requests)
  BY <1>1, NoFields DEF UnderWay
<1>8. UnderWay' \subseteq 1 .. calls'
  <2>1. UnderWay \subseteq 1 .. calls /\ calls \in Nat
    BY DEF WattsUpInv, WattsUpTypeOK
  <2>2. 1 .. calls \subseteq 1 .. calls'
    BY <2>1
  <2> QED
    BY <1>7, <2>1, <2>2
<1>9. /\ \A i \in 1 .. n : i \in 1 .. n + 1 /\ i # n + 1
      /\ n + 1 \in 1 .. n + 1
      /\ \A i \in 1 .. n + 1 : i \in 1 .. n \/ i = n + 1
      /\ DOMAIN results = 1 .. n /\ DOMAIN results' = 1 .. n + 1
  BY <1>2, <1>3
<1>10. \A i \in 1 .. n : results[i].kind = "value" => results[i].of \in Readings
  BY <1>2 DEF Readings
<1>11. Readings' \subseteq Readings \cup (IF kind = "value" THEN {of} ELSE {})
  BY <1>1, <1>3, <1>9, <1>10 DEF Readings
<1>12. AllBefore(Readings', UnderWay')
  BY <1>7, <1>11 DEF AllBefore, WattsUpInv
<1>13. \A i \in DOMAIN results' : results'[i].kind = "value" => results'[i].of \in 1 .. i
  BY <1>1, <1>3, <1>4, <1>9 DEF WattsUpInv
<1>14. W!LagNeverShrinks'
  <2> SUFFICES ASSUME NEW i \in 1 .. n + 1, NEW j \in 1 .. n + 1, i < j,
                      results'[i].kind = "value", results'[j].kind = "value"
               PROVE  results'[i].of < results'[j].of
    BY <1>9 DEF W!LagNeverShrinks
  <2>1. i \in 1 .. n
    OBVIOUS
  <2>2. CASE j \in 1 .. n
    BY <1>3, <1>9, <2>1, <2>2 DEF WattsUpInv, W!LagNeverShrinks
  <2>3. CASE j = n + 1
    BY <1>1, <1>3, <1>10, <2>1, <2>3 DEF AllBefore
  <2> QED
    BY <1>9, <2>2, <2>3
<1> QED
  BY <1>5, <1>6, <1>8, <1>12, <1>13, <1>14 DEF WattsUpInv

\* A character moves on: what is under way does not grow.
LEMMA MovesInv ==
    ASSUME WattsUpInv, WattsUpTypeOK', InTurn', UnderWay' \subseteq UnderWay,
           UNCHANGED <<calls, results>>
    PROVE  WattsUpInv'
<1>1. Readings' = Readings
  BY DEF Readings
<1>2. AllBefore(Readings', UnderWay')
  BY <1>1 DEF WattsUpInv, AllBefore
<1>3. W!LagNeverShrinks'
  BY DEF WattsUpInv, W!LagNeverShrinks
<1> QED
  BY <1>2, <1>3 DEF WattsUpInv

LEMMA AnswerInv == ASSUME WattsUpInv, W!Answer PROVE WattsUpInv'
<1> DEFINE h == Head(requests)
           rest == IF h.char = "fields" THEN [requests EXCEPT ![1].char = "end"]
                   ELSE Tail(requests)
<1>1. /\ requests \in Seq(Chars) /\ requests # <<>> /\ line \in Seq(Chars)
      /\ Ordered(requests) /\ Ordered(line)
      /\ AllBefore(FieldsIn(line), FieldsIn(requests))
      /\ AllBefore(FieldsIn(call.buf), FieldsIn(line))
      /\ AllBefore(FieldsIn(call.buf), FieldsIn(requests)) /\ Ordered(call.buf)
      /\ line' = Append(line, h) /\ requests' = rest /\ UNCHANGED <<call, calls, results>>
  BY DEF WattsUpInv, WattsUpTypeOK, InTurn, W!Answer
<1>2. h \in Chars /\ Tail(requests) \in Seq(Chars)
  BY <1>1, TailPositions
<1>3. /\ FieldsIn(Tail(requests)) \subseteq FieldsIn(requests) /\ Ordered(Tail(requests))
      /\ h.char = "fields" => /\ h.of \in FieldsIn(requests)
                             /\ AllBefore({h.of}, FieldsIn(Tail(requests)))
  BY <1>1, FieldsTail
<1>4. /\ rest \in Seq(Chars) /\ Ordered(rest) /\ FieldsIn(rest) \subseteq FieldsIn(Tail(requests))
  BY <1>1, <1>2, <1>3, FieldsSent
<1> HIDE DEF h, rest
<1>5. /\ line' \in Seq(Chars)
      /\ FieldsIn(line') = FieldsIn(line) \cup (IF h.char = "fields" THEN {h.of} ELSE {})
  BY <1>1, <1>2, FieldsAppend
<1>6. h.char = "fields" => AllBefore(FieldsIn(line), {h.of})
  BY <1>1, <1>3 DEF AllBefore
<1>7. Ordered(line')
  BY <1>1, <1>2, <1>6, OrderedAppend
<1>8. /\ AllBefore(FieldsIn(line'), FieldsIn(rest))
      /\ AllBefore(FieldsIn(call.buf), FieldsIn(line'))
      /\ AllBefore(FieldsIn(call.buf), FieldsIn(rest))
      /\ FieldsIn(line') \cup FieldsIn(rest) \subseteq FieldsIn(line) \cup FieldsIn(requests)
  BY <1>1, <1>3, <1>4, <1>5 DEF AllBefore
<1>9. WattsUpTypeOK'
  BY <1>1, <1>4, <1>5 DEF WattsUpInv, WattsUpTypeOK
<1>10. InTurn'
  BY <1>1, <1>4, <1>7, <1>8 DEF InTurn
<1>11. UnderWay' \subseteq UnderWay
  BY <1>1, <1>8 DEF UnderWay
<1> QED
  BY <1>1, <1>9, <1>10, <1>11, MovesInv

LEMMA GetCharInv == ASSUME WattsUpInv, W!GetChar PROVE WattsUpInv'
<1> DEFINE h == Head(line)
<1>1. /\ line \in Seq(Chars) /\ line # <<>> /\ call.buf \in Seq(Chars)
      /\ Ordered(line) /\ Ordered(call.buf) /\ Ordered(requests)
      /\ AllBefore(FieldsIn(line), FieldsIn(requests))
      /\ AllBefore(FieldsIn(call.buf), FieldsIn(line))
      /\ AllBefore(FieldsIn(call.buf), FieldsIn(requests))
      /\ call'.buf = Append(call.buf, h) /\ line' = Tail(line)
      /\ UNCHANGED <<requests, calls, results>>
      /\ call.pc = "read" /\ call'.pc \in {"extract", "read"}
  BY DEF WattsUpInv, WattsUpTypeOK, InTurn, W!GetChar
<1>2. h \in Chars /\ Tail(line) \in Seq(Chars)
  BY <1>1, TailPositions
<1>3. /\ FieldsIn(Tail(line)) \subseteq FieldsIn(line) /\ Ordered(Tail(line))
      /\ h.char = "fields" => /\ h.of \in FieldsIn(line)
                             /\ AllBefore({h.of}, FieldsIn(Tail(line)))
  BY <1>1, FieldsTail
<1> HIDE DEF h
<1>4. /\ call'.buf \in Seq(Chars)
      /\ FieldsIn(call'.buf) = FieldsIn(call.buf) \cup (IF h.char = "fields" THEN {h.of} ELSE {})
  BY <1>1, <1>2, FieldsAppend
<1>5. h.char = "fields" => AllBefore(FieldsIn(call.buf), {h.of})
  BY <1>1, <1>3 DEF AllBefore
<1>6. Ordered(call'.buf)
  BY <1>1, <1>2, <1>5, OrderedAppend
<1>7. /\ AllBefore(FieldsIn(call'.buf), FieldsIn(line'))
      /\ AllBefore(FieldsIn(line'), FieldsIn(requests))
      /\ AllBefore(FieldsIn(call'.buf), FieldsIn(requests))
      /\ FieldsIn(call'.buf) \cup FieldsIn(line') \subseteq FieldsIn(call.buf) \cup FieldsIn(line)
  BY <1>1, <1>3, <1>4 DEF AllBefore
<1>8. WattsUpTypeOK'
  BY <1>1, <1>2, <1>4 DEF WattsUpInv, WattsUpTypeOK
<1>9. InTurn'
  BY <1>1, <1>3, <1>6, <1>7 DEF InTurn
<1>10. UnderWay' \subseteq UnderWay
  BY <1>1, <1>7 DEF UnderWay
<1> QED
  BY <1>1, <1>8, <1>9, <1>10, MovesInv

\* A request that is sent is later than all that are under way.
LEMMA CallInv == ASSUME WattsUpInv, W!Call PROVE WattsUpInv'
<1> DEFINE c == [of |-> calls + 1, char |-> "fields"]
<1>1. /\ requests \in Seq(Chars) /\ call.buf = <<>> /\ Ordered(requests) /\ calls \in Nat
      /\ Ordered(line) /\ UnderWay \subseteq 1 .. calls
      /\ AllBefore(FieldsIn(line), FieldsIn(requests))
      /\ Len(results) = calls /\ calls' = calls + 1
      /\ requests' = Append(requests, c) /\ UNCHANGED <<line, results>>
      /\ call'.buf = <<>> /\ call'.pc = "read"
  BY DEF WattsUpInv, WattsUpTypeOK, InTurn, W!Call, W!Send, W!NoCall
<1>2. c \in Chars /\ c.of = calls + 1 /\ c.char = "fields"
  BY <1>1 DEF Chars, W!Char
<1> HIDE DEF c
<1>3. /\ requests' \in Seq(Chars) /\ FieldsIn(requests') = FieldsIn(requests) \cup {calls + 1}
  BY <1>1, <1>2, FieldsAppend
<1>4. /\ AllBefore(FieldsIn(requests), {calls + 1})
      /\ AllBefore(FieldsIn(line), {calls + 1})
  BY <1>1 DEF AllBefore, UnderWay
<1>5. Ordered(requests')
  BY <1>1, <1>2, <1>4, OrderedAppend
<1>6. WattsUpTypeOK'
  BY <1>1, <1>3, NoFields DEF WattsUpInv, WattsUpTypeOK
<1>7. InTurn'
  BY <1>1, <1>3, <1>4, <1>5, NoFields DEF InTurn, AllBefore
<1>8. UnderWay' = UnderWay \cup {calls + 1}
  BY <1>1, <1>3 DEF UnderWay
<1>9. UnderWay' \subseteq 1 .. calls'
  <2>1. calls + 1 \in 1 .. calls' /\ 1 .. calls \subseteq 1 .. calls'
    BY <1>1
  <2> QED
    BY <1>1, <1>8, <2>1, Zenon
<1>10. Readings' = Readings /\ W!LagNeverShrinks'
  BY <1>1 DEF Readings, WattsUpInv, W!LagNeverShrinks
<1>11. AllBefore(Readings, {calls + 1})
  <2> SUFFICES ASSUME NEW n \in 1 .. Len(results), results[n].kind = "value"
               PROVE  results[n].of < calls + 1
    BY DEF Readings, AllBefore
  <2>1. results[n].of \in 1 .. n /\ n <= calls
    <3>1. calls \in Nat /\ Len(results) = calls /\ n \in 1 .. calls
      BY <1>1
    <3>2. n \in DOMAIN results
      BY <3>1 DEF WattsUpInv, WattsUpTypeOK
    <3>3. results[n].of \in 1 .. n
      BY <3>2 DEF WattsUpInv
    <3> QED
      BY <3>1, <3>3
  <2> QED
    BY <1>1, <2>1
<1>12. AllBefore(Readings', UnderWay')
  BY <1>8, <1>10, <1>11 DEF AllBefore, WattsUpInv
<1> QED
  BY <1>1, <1>6, <1>7, <1>9, <1>10, <1>12 DEF WattsUpInv

LEMMA WattsUpNext == ASSUME WattsUpInv, [W!Next]_W!vars PROVE WattsUpInv'
<1>1. CASE UNCHANGED W!vars
  <2>1. UNCHANGED <<requests, line, call, calls, results>>
    BY <1>1 DEF W!vars
  <2>2. WattsUpTypeOK' /\ InTurn' /\ UnderWay' = UnderWay
    BY <2>1 DEF WattsUpInv, WattsUpTypeOK, InTurn, UnderWay
  <2> QED
    BY <2>1, <2>2, MovesInv
<1>2. CASE W!CallFails
  <2>1. /\ calls \in Nat /\ Len(results) = calls /\ calls' = calls + 1
        /\ W!Returns("failed", calls + 1) /\ UNCHANGED <<requests, line>>
    BY <1>2 DEF WattsUpInv, WattsUpTypeOK, W!CallFails
  <2> QED
    BY <2>1, ReturnsInv DEF W!Result
<1>3. CASE W!GetError
  <2>1. /\ calls \in Nat /\ Len(results) + 1 = calls /\ calls' = calls
        /\ W!Returns("failed", calls) /\ UNCHANGED <<requests, line>>
    BY <1>3 DEF WattsUpInv, WattsUpTypeOK, W!GetError
  <2> QED
    BY <2>1, ReturnsInv DEF W!Result
<1>4. CASE W!GetNothing
  <2>1. /\ call.pc = "read" /\ call'.pc = "extract" /\ call'.buf = call.buf
        /\ UNCHANGED <<requests, line, calls, results>>
    BY <1>4 DEF W!GetNothing
  <2>2. WattsUpTypeOK' /\ InTurn' /\ UnderWay' = UnderWay
    BY <2>1 DEF WattsUpInv, WattsUpTypeOK, InTurn, UnderWay
  <2> QED
    BY <2>1, <2>2, MovesInv
<1>5. CASE W!Extract
  <2>1. /\ calls \in Nat /\ Len(results) + 1 = calls /\ calls' = calls
        /\ UNCHANGED <<requests, line>> /\ call.buf \in Seq(Chars) /\ Ordered(call.buf)
    BY <1>5 DEF WattsUpInv, WattsUpTypeOK, InTurn, W!Extract
  <2>2. CASE W!Returns("nothing", calls) \/ W!Returns("zero", calls)
    BY <2>1, <2>2, ReturnsInv DEF W!Result
  <2>3. CASE /\ call.buf # <<>> /\ Head(call.buf).char = "fields"
             /\ W!Returns("value", Head(call.buf).of)
    <3> DEFINE k == Head(call.buf).of
    <3>1. k \in FieldsIn(call.buf) /\ W!Returns("value", k)
      BY <2>1, <2>3, FieldsTail
    <3> HIDE DEF k
    <3>2. k \in UnderWay
      BY <3>1 DEF UnderWay
    <3>3. k \in 1 .. calls /\ k \in Nat
      BY <2>1, <3>2 DEF WattsUpInv
    <3>4. AllBefore(Readings, {k})
      BY <3>2 DEF WattsUpInv, AllBefore
    <3>5. AllBefore({k}, FieldsIn(line) \cup FieldsIn(requests))
      BY <3>1 DEF WattsUpInv, InTurn, AllBefore
    <3>6. "value" \in W!Result
      BY DEF W!Result
    <3> QED
      <4> DEFINE v == "value"
      <4>1. v \in W!Result /\ W!Returns(v, k)
        BY <3>1, <3>6
      <4> HIDE DEF v
      <4>2. v = "value" => /\ k \in 1 .. calls'
                           /\ AllBefore(Readings, {k})
                           /\ AllBefore({k}, FieldsIn(line) \cup FieldsIn(requests))
        BY <2>1, <3>3, <3>4, <3>5
      <4>3. calls' \in Nat /\ calls <= calls' /\ Len(results) + 1 = calls' /\ k \in Nat
        BY <2>1, <3>3
      <4> QED
        BY <2>1, <4>1, <4>2, <4>3, ReturnsInv
  <2> QED
    BY <1>5, <2>2, <2>3 DEF W!Extract
<1> QED
  BY <1>1, <1>2, <1>3, <1>4, <1>5, AnswerInv, CallInv, GetCharInv DEF W!Next

LEMMA WattsUpInit == ASSUME W!Init PROVE WattsUpInv
<1>1. /\ requests = <<>> /\ line = <<>> /\ call.buf = <<>> /\ call.pc = "idle"
      /\ calls = 0 /\ results = <<>>
  BY DEF W!Init, W!NoCall
<1>2. WattsUpTypeOK
  BY <1>1, NoFields DEF WattsUpTypeOK
<1>3. InTurn /\ UnderWay = {} /\ Readings = {}
  BY <1>1, NoFields DEF InTurn, UnderWay, AllBefore, Readings
<1> QED
  BY <1>1, <1>2, <1>3 DEF WattsUpInv, AllBefore, W!LagNeverShrinks

LEMMA UpTo == ASSUME NEW m \in Nat PROVE IsFiniteSet(1 .. m) /\ Cardinality(1 .. m) = m
  BY FS_Interval

\* WattsUp has the Cardinality of its own copy of the module: it is the same one.
LEMMA SameCardinality == ASSUME NEW A PROVE W!Cardinality(A) = Cardinality(A)
BY DEF Cardinality, W!Cardinality

\* The readings before one are of different requests, all before its own; what it is
\* behind by were calls that went wrong.
LEMMA LagCounted ==
    ASSUME WattsUpInv, NEW n \in DOMAIN results, results[n].kind = "value"
    PROVE  results[n].of <= n /\ n - results[n].of <= W!Wrong(n)
<1> DEFINE N == 1 .. n - 1
           V == {m \in N : results[m].kind = "value"}
           k == results[n].of
           f == [m \in V |-> results[m].of]
<1>1. n \in Nat /\ n >= 1 /\ k \in 1 .. n /\ \A m \in N : m \in DOMAIN results /\ m < n
  <2>1. DOMAIN results = 1 .. Len(results)
    BY DEF WattsUpInv, WattsUpTypeOK
  <2>2. PICK l \in Nat : l = Len(results)
    BY LenProperties DEF WattsUpInv, WattsUpTypeOK
  <2>3. k \in 1 .. n
    BY DEF WattsUpInv
  <2> QED
    BY <2>1, <2>2, <2>3
<1>2. \A m \in V : f[m] \in 1 .. m /\ f[m] < k
  BY <1>1 DEF WattsUpInv, W!LagNeverShrinks
<1>3. f \in [V -> 1 .. k - 1]
  <2>1. \A m \in V : results[m].of \in 1 .. k - 1
    <3>1. \A m \in V : m \in Nat /\ f[m] = results[m].of
      BY <1>1
    <3>2. \A m \in V : m \in Nat /\ results[m].of \in 1 .. m /\ results[m].of < k
      BY <1>2, <3>1
    <3> HIDE DEF V, k, f
    <3> QED
      BY <1>1, <3>2
  <2> HIDE DEF V, k
  <2> QED
    BY <2>1
<1>4. ASSUME NEW a \in V, NEW b \in V, f[a] = f[b] PROVE a = b
  <2>1. a < b => f[a] < f[b]
    BY <1>1 DEF WattsUpInv, W!LagNeverShrinks
  <2>2. b < a => f[b] < f[a]
    BY <1>1 DEF WattsUpInv, W!LagNeverShrinks
  <2>3. f[a] \in Nat /\ f[b] \in Nat /\ a \in Nat /\ b \in Nat
    BY <1>1, <1>2
  <2> HIDE DEF f, V
  <2> QED
    BY <1>4, <2>1, <2>2, <2>3
<1>5. IsFiniteSet(1 .. k - 1) /\ Cardinality(1 .. k - 1) = k - 1
  <2>1. PICK m \in Nat : m = k - 1
    BY <1>1
  <2> HIDE DEF k
  <2> QED
    BY <2>1, UpTo
<1>6. IsFiniteSet(N) /\ Cardinality(N) = n - 1
  <2>1. PICK m \in Nat : m = n - 1
    BY <1>1
  <2> QED
    BY <2>1, UpTo
<1> HIDE DEF f
<1>7. Cardinality(V) <= k - 1
  <2>1. f \in Injection(V, 1 .. k - 1)
    BY <1>3, <1>4 DEF Injection, IsInjective
  <2> HIDE DEF V, k
  <2> QED
    BY <1>5, <2>1, FS_Injection
<1>8. V \subseteq N /\ N \cap V = V /\ W!Wrong(n) = Cardinality(N \ V)
  <2>1. N \ V = {m \in N : results[m].kind # "value"}
    OBVIOUS
  <2>2. W!Wrong(n) = Cardinality({m \in N : results[m].kind # "value"})
    BY SameCardinality DEF W!Wrong
  <2> QED
    BY <2>1, <2>2
<1>9. IsFiniteSet(V) /\ Cardinality(V) \in Nat
  BY <1>6, <1>8, FS_Subset, FS_CardinalityType
<1>10. Cardinality(N \ V) = Cardinality(N) - Cardinality(V)
  <2> HIDE DEF N, V
  <2> QED
    BY <1>6, <1>8, FS_Difference
<1> HIDE DEF N, V, k
<1>11. n - k <= Cardinality(N \ V)
  BY <1>1, <1>6, <1>7, <1>9, <1>10
<1> QED
  BY <1>1, <1>8, <1>11 DEF k

LEMMA LagHolds == ASSUME WattsUpInv PROVE W!LagIsFailures /\ W!LagNeverShrinks
<1>1. W!LagNeverShrinks
  BY DEF WattsUpInv
<1> QED
  BY <1>1, LagCounted DEF W!LagIsFailures

\* A reading answers an earlier call by no more than the calls that went wrong before,
\* and no later reading an earlier call, however many characters are on the line, reads
\* fail and calls are made (pwr_wudev.c:144-200).
THEOREM LagCorrect == W!Spec => [](W!LagIsFailures /\ W!LagNeverShrinks)
<1>1. WattsUpInv => W!LagIsFailures /\ W!LagNeverShrinks
  BY LagHolds
<1>2. W!Init => WattsUpInv
  BY WattsUpInit
<1>3. WattsUpInv /\ [W!Next]_W!vars => WattsUpInv'
  BY WattsUpNext
<1> QED
  BY <1>1, <1>2, <1>3, PTL DEF W!Spec
-----------------------------------------------------------------------------
(* tx2mon.                                                                 *)

LEMMA Powers ==
    ASSUME T!Tx2monAssumption
    PROVE  /\ T!LoWatt \in Nat \ {0} /\ T!HiWatt \in Nat \ {0} /\ Watts \subseteq Nat \ {0}
           /\ \A w \in Watts : T!LoWatt <= w /\ w <= T!HiWatt
<1>1. T!LoWatt \in Watts /\ \A w \in Watts : T!LoWatt <= w
  BY DEF T!Tx2monAssumption, T!LoWatt
<1>2. T!HiWatt \in Watts /\ \A w \in Watts : w <= T!HiWatt
  BY DEF T!Tx2monAssumption, T!HiWatt
<1> QED
  BY <1>1, <1>2 DEF T!Tx2monAssumption

MaybeNat == Nat \cup {Unread}
Resting == {"none", "sleep", "exit"}
Adding == {"read", "core", "sram"}

Tx2Types ==
    /\ hw \in [Node -> T!Region]
    /\ buf \in [Node -> [T!Rail -> Watts \cup {Unread}]]
    /\ handle \in [Node -> [st : {"none", "open", "freed"}, energy : MaybeNat]]
    /\ energyObjs = {n \in Node : handle[n].st = "open"}
    /\ smp \in [pc : Resting \cup Adding \cup {"scan"}, todo : SUBSET Node, node : Node,
                value : MaybeNat, at : Nat]
    /\ app \in [pc : {"idle", "core", "sram", "returned"}, node : Node, kind : T!Kind,
                value : MaybeNat]
    /\ lastSample \in Nat /\ now \in Nat
    /\ opened \in [Node -> Nat] /\ watched \in [Node -> Nat]

\* Of the threads: the sampler is not there before init and has left when devInfo is
\* freed.
Tx2Threads ==
    /\ devInfo = "none" => smp.pc = "none"
    /\ devInfo = "freed" => smp.pc = "exit"

\* A pass has a time of its own, not before the last one; in the first one nothing is
\* added.
Tx2Times ==
    /\ now >= 1 /\ lastSample <= now
    /\ smp.pc \notin Resting => lastSample <= smp.at /\ 1 <= smp.at /\ smp.at <= now
    /\ smp.pc \in Adding => lastSample # 0 /\ smp.node \notin smp.todo
    /\ \A n \in Node :
        /\ opened[n] <= lastSample /\ watched[n] <= lastSample
        /\ handle[n].st = "none" => watched[n] = 0

Good(n) == \A r \in T!Rail : buf[n][r] \in Watts

\* What the application thread has decoded.
Tx2Reading ==
    app.pc # "idle" =>
    /\ \A r \in T!Rail : hw[app.node][r] \in seen[r] /\ seen[r] \subseteq Watts
    /\ app.node \notin fault =>
        /\ \A r \in T!Rail : buf[app.node][r] \in seen[r]
        /\ app.pc = "core" => app.value = T!OldValue
        /\ app.pc = "sram" => IF app.kind = "TX2_SRAM" THEN app.value = T!OldValue
                              ELSE app.value \in seen["core"]
        /\ T!ReadingIsFresh

\* What the sampling thread has decoded.
Tx2Sample ==
    smp.node \notin fault =>
    /\ smp.pc \in {"core", "sram"} => Good(smp.node)
    /\ smp.pc = "sram" => smp.value \in Watts

\* The time up to which the energy of a socket was added: that of the pass, when it is
\* through with the socket.
Through(n) == /\ smp.pc \notin Resting /\ n \notin smp.todo
              /\ ~(smp.pc \in Adding /\ smp.node = n)
Base(n) == IF Through(n) THEN smp.at ELSE T!From(lastSample)

Bounded(n) ==
    (handle[n].st = "open" /\ n \notin fault) =>
    /\ handle[n].energy \in Nat
    /\ handle[n].energy <= 2 * T!HiWatt * (Base(n) - T!From(opened[n]))
    /\ watched[n] # 0 => handle[n].energy >= 2 * T!LoWatt * (Base(n) - watched[n])

Tx2Inv == /\ Tx2Types /\ Tx2Threads /\ Tx2Times /\ Tx2Reading /\ Tx2Sample
          /\ \A n \in Node : Bounded(n)

LEMMA Tx2Init == ASSUME T!Tx2monAssumption, T!Init PROVE Tx2Inv
<1>1. (CHOOSE n \in Node : TRUE) \in Node
  BY DEF T!Tx2monAssumption
<1> DEFINE m == CHOOSE n \in Node : TRUE
<1>2. /\ smp = [pc |-> "none", todo |-> {}, node |-> m, value |-> 0, at |-> 0]
      /\ app = [pc |-> "idle", node |-> m, kind |-> "SOCKET", value |-> 0]
      /\ m \in Node
  BY <1>1 DEF T!Init, T!Asleep, T!Idle, T!OldValue
<1> HIDE DEF m
<1>3. Tx2Types
  <2>1. /\ hw \in [Node -> T!Region] /\ lastSample = 0 /\ now = 1 /\ energyObjs = {}
        /\ opened = [n \in Node |-> 0] /\ watched = [n \in Node |-> 0]
        /\ buf = [n \in Node |-> [r \in T!Rail |-> Unread]]
        /\ handle = [n \in Node |-> [st |-> "none", energy |-> 0]]
    BY DEF T!Init
  <2>2. [r \in T!Rail |-> Unread] \in [T!Rail -> Watts \cup {Unread}]
    OBVIOUS
  <2>3. [st |-> "none", energy |-> 0] \in [st : {"none", "open", "freed"}, energy : MaybeNat]
    BY DEF MaybeNat
  <2>4. smp \in [pc : Resting \cup Adding \cup {"scan"}, todo : SUBSET Node, node : Node,
                  value : MaybeNat, at : Nat]
    BY <1>2 DEF MaybeNat, Resting
  <2>5. app \in [pc : {"idle", "core", "sram", "returned"}, node : Node, kind : T!Kind,
                  value : MaybeNat]
    BY <1>2 DEF MaybeNat, T!Kind
  <2>6. energyObjs = {n \in Node : handle[n].st = "open"}
    BY <2>1
  <2> QED
    BY <2>1, <2>2, <2>3, <2>4, <2>5, <2>6 DEF Tx2Types
<1>4. Tx2Threads /\ Tx2Times /\ Tx2Reading /\ Tx2Sample
  BY <1>2 DEF T!Init, Tx2Threads, Tx2Times, Tx2Reading, Tx2Sample, Resting, Adding
<1>5. \A n \in Node : Bounded(n)
  BY DEF T!Init, Bounded
<1> QED
  BY <1>3, <1>4, <1>5 DEF Tx2Inv

\* Every step keeps the types.
LEMMA PlusType ==
    ASSUME T!Tx2monAssumption, NEW x \in MaybeNat, NEW y \in MaybeNat
    PROVE  T!Plus(x, y) \in MaybeNat
  BY DEF MaybeNat, T!Plus

LEMMA PlusNat ==
    ASSUME T!Tx2monAssumption, NEW x \in Nat, NEW y \in Nat PROVE T!Plus(x, y) = x + y
  BY DEF T!Tx2monAssumption, T!Plus

LEMMA RegionType ==
    ASSUME T!Tx2monAssumption, Tx2Types, NEW n \in Node, NEW r \in T!Rail
    PROVE  buf[n][r] \in Watts \cup {Unread} /\ buf[n][r] \in MaybeNat
<1>1. buf[n][r] \in Watts \cup {Unread}
  BY DEF Tx2Types
<1> QED
  BY <1>1 DEF MaybeNat, T!Tx2monAssumption

LEMMA ReadNodeType ==
    ASSUME Tx2Types, NEW n \in Node, T!ReadNode(n)
    PROVE  /\ buf' \in [Node -> [T!Rail -> Watts \cup {Unread}]]
           /\ fault \subseteq fault' /\ fault' \subseteq fault \cup {n}
           /\ \A m \in Node : m # n => buf'[m] = buf[m]
           /\ n \notin fault' => buf'[n] = hw[n]
  BY DEF Tx2Types, T!ReadNode, T!Region

\* What AddEnergy makes of the energy of the socket of the sampler.
LEMMA AddedType ==
    ASSUME T!Tx2monAssumption, Tx2Types, Tx2Times, T!AddEnergy
    PROVE  \E e \in MaybeNat : handle' = IF handle[smp.node].st # "open" THEN handle
                                         ELSE [handle EXCEPT ![smp.node].energy = e]
<1> DEFINE watt == T!Plus(smp.value, buf[smp.node]["sram"])
           joule == IF Unread = watt THEN Unread ELSE T!Interval * watt
           e == T!Plus(handle[smp.node].energy, joule)
<1>1. handle' = IF handle[smp.node].st # "open" THEN handle
                ELSE [handle EXCEPT ![smp.node].energy = e]
  BY DEF T!AddEnergy
<1>2. smp.node \in Node /\ smp.value \in MaybeNat /\ handle[smp.node].energy \in MaybeNat
  BY DEF Tx2Types
<1>3. watt \in MaybeNat
  BY <1>2, RegionType, PlusType DEF T!Rail
<1>4. T!Interval \in Nat
  BY DEF T!Interval, Tx2Types, Tx2Times, T!AddEnergy, Resting
<1> HIDE DEF watt
<1>5. watt # Unread => T!Interval * watt \in Nat
  BY <1>3, <1>4 DEF MaybeNat
<1>6. joule \in MaybeNat
  BY <1>5 DEF MaybeNat
<1>7. e \in MaybeNat
  BY <1>2, <1>6, PlusType
<1> QED
  BY <1>1, <1>7

LEMMA Tx2TypesNext ==
    ASSUME T!Tx2monAssumption, Tx2Types, Tx2Times, [T!Next]_T!vars PROVE Tx2Types'
<1> USE DEF Tx2Types
<1>1. CASE T!Tick
  BY <1>1 DEF T!Tick
<1>2. CASE T!DevInit
  <2>1. (CHOOSE n \in Node : TRUE) \in Node
    BY DEF T!Tx2monAssumption
  <2> DEFINE m == CHOOSE n \in Node : TRUE
  <2>2. smp' = [pc |-> "sleep", todo |-> {}, node |-> m, value |-> 0, at |-> 0] /\ m \in Node
    BY <1>2, <2>1 DEF T!DevInit, T!Asleep
  <2> HIDE DEF m
  <2>3. smp' \in [pc : Resting \cup Adding \cup {"scan"}, todo : SUBSET Node, node : Node,
                  value : MaybeNat, at : Nat]
    BY <2>2 DEF MaybeNat, Resting
  <2> QED
    BY <1>2, <2>3 DEF T!DevInit
<1>3. ASSUME NEW n \in Node, T!Open(n) PROVE Tx2Types'
  <2> DEFINE h == [st |-> "open", energy |-> 0]
  <2>1. /\ handle' = [handle EXCEPT ![n] = h] /\ energyObjs' = energyObjs \cup {n}
        /\ opened' = [opened EXCEPT ![n] = lastSample]
        /\ h \in [st : {"none", "open", "freed"}, energy : MaybeNat] /\ h.st = "open"
        /\ UNCHANGED <<hw, buf, lastSample, now, smp, app, watched>>
    BY <1>3 DEF T!Open, MaybeNat
  <2> HIDE DEF h
  <2> QED
    BY <2>1
<1>4. ASSUME NEW n \in Node, NEW kind \in T!Kind, T!ReadPower(n, kind) PROVE Tx2Types'
  <2>1. /\ T!ReadNode(n)
        /\ app' = [pc |-> "core", node |-> n, kind |-> kind, value |-> 0]
        /\ UNCHANGED <<hw, handle, energyObjs, lastSample, now, smp, opened, watched>>
    BY <1>4 DEF T!ReadPower, T!OldValue
  <2>2. app' \in [pc : {"idle", "core", "sram", "returned"}, node : Node, kind : T!Kind,
                  value : MaybeNat]
    BY <2>1 DEF MaybeNat
  <2> QED
    BY <2>1, <2>2, ReadNodeType
<1>5. CASE T!DecodeCore
  <2>1. buf[app.node]["core"] \in MaybeNat
    BY RegionType DEF T!Rail
  <2>2. T!CoreTerm(app.kind, app.value, buf[app.node]) \in MaybeNat
    BY <2>1 DEF T!CoreTerm
  <2> QED
    BY <1>5, <2>2 DEF T!DecodeCore
<1>6. CASE T!DecodeSram
  <2>1. buf[app.node]["sram"] \in MaybeNat
    BY RegionType DEF T!Rail
  <2>2. T!SramTerm(app.kind, app.value, buf[app.node]) \in MaybeNat
    BY <2>1, PlusType DEF T!SramTerm
  <2> QED
    BY <1>6, <2>2 DEF T!DecodeSram
<1>7. CASE T!ReadReturn
  <2>1. (CHOOSE n \in Node : TRUE) \in Node
    BY DEF T!Tx2monAssumption
  <2> DEFINE m == CHOOSE n \in Node : TRUE
  <2>2. app' = [pc |-> "idle", node |-> m, kind |-> "SOCKET", value |-> 0] /\ m \in Node
    BY <1>7, <2>1 DEF T!ReadReturn, T!Idle, T!OldValue
  <2> HIDE DEF m
  <2>3. app' \in [pc : {"idle", "core", "sram", "returned"}, node : Node, kind : T!Kind,
                  value : MaybeNat]
    BY <2>2 DEF MaybeNat, T!Kind
  <2> QED
    BY <1>7, <2>3 DEF T!ReadReturn
<1>8. ASSUME NEW n \in Node, T!Close(n) PROVE Tx2Types'
  <2>1. /\ handle' = [handle EXCEPT ![n].st = "freed"] /\ energyObjs' = energyObjs \ {n}
        /\ UNCHANGED <<hw, buf, lastSample, now, smp, app, opened, watched>>
    BY <1>8 DEF T!Close, T!Dropped
  <2> QED
    BY <2>1
<1>9. CASE T!Final \/ T!Fini
  BY <1>9 DEF T!Final, T!Fini
<1>10. CASE T!Wake
  <2>1. /\ \/ smp' = [smp EXCEPT !.pc = "exit"]
           \/ smp' = [smp EXCEPT !.pc = "scan", !.todo = Node, !.at = now]
        /\ UNCHANGED <<hw, buf, handle, energyObjs, lastSample, now, app, opened, watched>>
    BY <1>10 DEF T!Wake
  <2>2. smp' \in [pc : Resting \cup Adding \cup {"scan"}, todo : SUBSET Node, node : Node,
                  value : MaybeNat, at : Nat]
    BY <2>1 DEF Resting
  <2> QED
    BY <2>1, <2>2
<1>11. ASSUME NEW n \in Node, T!Scan(n) PROVE Tx2Types'
  <2> DEFINE pc == IF T!Wanted(n) THEN "read" ELSE "scan"
  <2>1. /\ smp' = [smp EXCEPT !.pc = pc, !.todo = @ \ {n}, !.node = n]
        /\ pc \in {"read", "scan"}
        /\ watched' \in {watched, [watched EXCEPT ![n] = lastSample]}
        /\ UNCHANGED <<hw, buf, handle, energyObjs, lastSample, now, app, opened>>
    BY <1>11 DEF T!Scan
  <2> HIDE DEF pc
  <2>2. smp' \in [pc : Resting \cup Adding \cup {"scan"}, todo : SUBSET Node, node : Node,
                  value : MaybeNat, at : Nat]
    BY <2>1 DEF Adding
  <2>3. watched' \in [Node -> Nat]
    BY <2>1
  <2> QED
    BY <2>1, <2>2, <2>3
<1>12. CASE T!Sample
  <2>1. /\ T!ReadNode(smp.node) /\ smp.node \in Node
        /\ smp' = [smp EXCEPT !.pc = "core"]
        /\ UNCHANGED <<hw, handle, energyObjs, lastSample, now, app, opened, watched>>
    BY <1>12 DEF T!Sample
  <2>2. smp' \in [pc : Resting \cup Adding \cup {"scan"}, todo : SUBSET Node, node : Node,
                  value : MaybeNat, at : Nat]
    BY <2>1 DEF Adding
  <2> QED
    BY <2>1, <2>2, ReadNodeType
<1>13. CASE T!SampleCore
  <2>1. /\ smp' = [smp EXCEPT !.pc = "sram", !.value = buf[smp.node]["core"]]
        /\ UNCHANGED <<hw, buf, handle, energyObjs, lastSample, now, app, opened, watched>>
    BY <1>13 DEF T!SampleCore
  <2>2. buf[smp.node]["core"] \in MaybeNat
    BY RegionType DEF T!Rail
  <2>3. smp' \in [pc : Resting \cup Adding \cup {"scan"}, todo : SUBSET Node, node : Node,
                  value : MaybeNat, at : Nat]
    BY <2>1, <2>2 DEF Adding
  <2> QED
    BY <2>1, <2>3
<1>14. CASE T!AddEnergy
  <2>1. /\ smp' = [smp EXCEPT !.pc = "scan", !.value = 0]
        /\ UNCHANGED <<hw, buf, energyObjs, lastSample, now, app, opened, watched>>
    BY <1>14 DEF T!AddEnergy
  <2>2. smp' \in [pc : Resting \cup Adding \cup {"scan"}, todo : SUBSET Node, node : Node,
                  value : MaybeNat, at : Nat]
    BY <2>1 DEF MaybeNat
  <2>3. PICK e \in MaybeNat : handle' = IF handle[smp.node].st # "open" THEN handle
                                       ELSE [handle EXCEPT ![smp.node].energy = e]
    BY <1>14, AddedType
  <2> QED
    BY <2>1, <2>2, <2>3
<1>15. CASE T!EndPass
  <2>1. /\ smp' = [smp EXCEPT !.pc = "sleep", !.at = 0] /\ lastSample' = smp.at
        /\ UNCHANGED <<hw, buf, handle, energyObjs, now, app, opened, watched>>
    BY <1>15 DEF T!EndPass
  <2>2. smp' \in [pc : Resting \cup Adding \cup {"scan"}, todo : SUBSET Node, node : Node,
                  value : MaybeNat, at : Nat]
    BY <2>1 DEF Resting
  <2> QED
    BY <2>1, <2>2
<1>16. CASE UNCHANGED T!vars
  BY <1>16 DEF T!vars
<1> QED
  BY <1>1, <1>2, <1>3, <1>4, <1>5, <1>6, <1>7, <1>8, <1>9, <1>10, <1>11, <1>12, <1>13, <1>14,
     <1>15, <1>16 DEF T!Next, T!App, T!Sampler

LEMMA Tx2TimesNext ==
    ASSUME T!Tx2monAssumption, Tx2Types, Tx2Threads, Tx2Times, [T!Next]_T!vars
    PROVE  Tx2Threads' /\ Tx2Times'
<1> USE DEF Tx2Threads, Tx2Times, Resting, Adding
<1>1. CASE T!Tick
  BY <1>1 DEF T!Tick, Tx2Types
<1>2. CASE T!DevInit
  BY <1>2 DEF T!DevInit, T!Asleep
<1>3. ASSUME NEW n \in Node, T!Open(n) PROVE Tx2Threads' /\ Tx2Times'
  BY <1>3 DEF T!Open, Tx2Types
<1>4. ASSUME NEW n \in Node, NEW kind \in T!Kind, T!ReadPower(n, kind)
      PROVE  Tx2Threads' /\ Tx2Times'
  BY <1>4 DEF T!ReadPower
<1>5. CASE T!DecodeCore \/ T!DecodeSram \/ T!ReadReturn
  BY <1>5 DEF T!DecodeCore, T!DecodeSram, T!ReadReturn
<1>6. ASSUME NEW n \in Node, T!Close(n) PROVE Tx2Threads' /\ Tx2Times'
  BY <1>6 DEF T!Close, Tx2Types
<1>7. CASE T!Final \/ T!Fini
  BY <1>7 DEF T!Final, T!Fini, T!Joined
<1>8. CASE T!Wake
  BY <1>8 DEF T!Wake, Tx2Types
<1>9. ASSUME NEW n \in Node, T!Scan(n) PROVE Tx2Threads' /\ Tx2Times'
  <2>1. /\ smp.pc = "scan" /\ smp'.at = smp.at /\ smp'.todo = smp.todo \ {n} /\ smp'.node = n
        /\ smp'.pc = "scan" \/ (smp'.pc = "read" /\ T!Wanted(n))
        /\ UNCHANGED <<handle, lastSample, now, opened, devInfo>>
    BY <1>9 DEF T!Scan, Tx2Types
  <2>2. watched' = watched \/ (/\ watched' = [watched EXCEPT ![n] = lastSample]
                               /\ T!Wanted(n))
    BY <1>9 DEF T!Scan
  <2>3. \A m \in Node : watched'[m] = watched[m] \/ (m = n /\ watched'[m] = lastSample
                                                     /\ T!Wanted(n))
    BY <2>2 DEF Tx2Types
  <2>4. T!Wanted(n) => handle[n].st = "open" /\ lastSample # 0
    BY DEF T!Wanted, Tx2Types
  <2> QED
    BY <2>1, <2>3, <2>4 DEF Tx2Types
<1>10. CASE T!Sample \/ T!SampleCore
  <2>1. /\ smp.pc \in Adding /\ smp'.pc \in {"core", "sram"} /\ smp'.at = smp.at
        /\ smp'.node = smp.node /\ smp'.todo = smp.todo
        /\ UNCHANGED <<handle, lastSample, now, opened, watched, devInfo>>
    <3>1. CASE T!Sample
      BY <3>1 DEF T!Sample, Tx2Types
    <3>2. CASE T!SampleCore
      BY <3>2 DEF T!SampleCore, Tx2Types
    <3> QED
      BY <1>10, <3>1, <3>2
  <2> QED
    BY <2>1
<1>11. CASE T!AddEnergy
  <2>1. /\ smp.pc = "sram" /\ smp'.pc = "scan" /\ smp'.at = smp.at
        /\ UNCHANGED <<lastSample, now, opened, devInfo, watched>>
    BY <1>11 DEF T!AddEnergy, Tx2Types
  <2>2. \A m \in Node : handle'[m].st = handle[m].st
    <3>1. PICK e \in MaybeNat : handle' = IF handle[smp.node].st # "open" THEN handle
                                         ELSE [handle EXCEPT ![smp.node].energy = e]
      BY <1>11, AddedType
    <3> QED
      BY <3>1 DEF Tx2Types
  <2> QED
    BY <2>1, <2>2
<1>12. CASE T!EndPass
  BY <1>12 DEF T!EndPass, Tx2Types
<1>13. CASE UNCHANGED T!vars
  BY <1>13 DEF T!vars
<1> QED
  BY <1>1, <1>2, <1>3, <1>4, <1>5, <1>6, <1>7, <1>8, <1>9, <1>10, <1>11, <1>12, <1>13
     DEF T!Next, T!App, T!Sampler

LEMMA Tx2SampleNext ==
    ASSUME T!Tx2monAssumption, Tx2Types, Tx2Sample, [T!Next]_T!vars PROVE Tx2Sample'
<1> USE DEF Tx2Sample, Good
<1>1. CASE T!Tick \/ T!Final \/ T!Fini \/ T!DecodeCore \/ T!DecodeSram \/ T!ReadReturn
  BY <1>1 DEF T!Tick, T!Final, T!Fini, T!DecodeCore, T!DecodeSram, T!ReadReturn
<1>2. CASE T!DevInit
  BY <1>2 DEF T!DevInit, T!Asleep
<1>3. ASSUME NEW n \in Node, T!Open(n) \/ T!Close(n) PROVE Tx2Sample'
  BY <1>3 DEF T!Open, T!Close
<1>4. ASSUME NEW n \in Node, NEW kind \in T!Kind, T!ReadPower(n, kind) PROVE Tx2Sample'
  <2>1. T!ReadNode(n) /\ smp' = smp
    BY <1>4 DEF T!ReadPower
  <2>2. smp.node \in Node /\ hw[n] \in [T!Rail -> Watts]
    BY DEF Tx2Types, T!Region
  <2> QED
    BY <2>1, <2>2, ReadNodeType
<1>5. CASE T!Wake \/ T!EndPass \/ T!AddEnergy
  BY <1>5 DEF T!Wake, T!EndPass, T!AddEnergy, Tx2Types
<1>6. ASSUME NEW n \in Node, T!Scan(n) PROVE Tx2Sample'
  <2>1. smp'.pc \in {"scan", "read"}
    BY <1>6 DEF T!Scan, Tx2Types
  <2> QED
    BY <2>1
<1>7. CASE T!Sample
  <2>1. T!ReadNode(smp.node) /\ smp'.pc = "core" /\ smp'.node = smp.node
    BY <1>7 DEF T!Sample, Tx2Types
  <2>2. smp.node \in Node /\ hw[smp.node] \in [T!Rail -> Watts]
    BY DEF Tx2Types, T!Region
  <2> QED
    BY <2>1, <2>2, ReadNodeType
<1>8. CASE T!SampleCore
  <2>1. /\ smp.pc = "core" /\ smp'.pc = "sram" /\ smp'.node = smp.node
        /\ smp'.value = buf[smp.node]["core"] /\ UNCHANGED <<buf, fault>>
    BY <1>8 DEF T!SampleCore, Tx2Types
  <2> QED
    BY <2>1 DEF T!Rail
<1>9. CASE UNCHANGED T!vars
  BY <1>9 DEF T!vars
<1> QED
  BY <1>1, <1>2, <1>3, <1>4, <1>5, <1>6, <1>7, <1>8, <1>9 DEF T!Next, T!App, T!Sampler

\* A step that leaves the application's call alone, and the sampler's read of its socket.
LEMMA ReadingKept ==
    ASSUME Tx2Types, Tx2Reading, UNCHANGED <<hw, app, seen>>, fault \subseteq fault',
           app.node \notin fault' =>
               buf'[app.node] \in {buf[app.node], hw[app.node]}
    PROVE  Tx2Reading'
  BY DEF Tx2Reading, T!ReadingIsFresh, Tx2Types

LEMMA Tx2ReadingNext ==
    ASSUME T!Tx2monAssumption, Tx2Types, Tx2Reading, [T!Next]_T!vars PROVE Tx2Reading'
<1>1. CASE T!Tick
  <2>1. app.pc # "idle" =>
            /\ seen' = [r \in T!Rail |-> seen[r] \cup {hw'[app.node][r]}]
            /\ hw'[app.node] \in [T!Rail -> Watts]
    BY <1>1 DEF T!Tick, T!Region, Tx2Types
  <2>2. UNCHANGED <<buf, app, fault>>
    BY <1>1 DEF T!Tick
  <2> SUFFICES ASSUME app.pc # "idle" PROVE Tx2Reading'
    BY <2>2 DEF Tx2Reading
  <2>3. \A r \in T!Rail : hw'[app.node][r] \in seen'[r] /\ seen'[r] \subseteq Watts
                          /\ seen[r] \subseteq seen'[r]
    BY <2>1 DEF Tx2Reading
  <2>4. T!ReadingIsFresh => T!ReadingIsFresh'
    BY <2>2, <2>3 DEF T!ReadingIsFresh, T!Rail
  <2> QED
    BY <2>2, <2>3, <2>4 DEF Tx2Reading, T!Rail
<1>2. CASE T!DevInit \/ T!Final \/ T!Fini \/ T!Wake \/ T!SampleCore \/ T!AddEnergy \/ T!EndPass
  BY <1>2, ReadingKept DEF T!DevInit, T!Final, T!Fini, T!Wake, T!SampleCore, T!AddEnergy, T!EndPass
<1>3. ASSUME NEW n \in Node, T!Open(n) \/ T!Close(n) \/ T!Scan(n) PROVE Tx2Reading'
  BY <1>3, ReadingKept DEF T!Open, T!Close, T!Scan
<1>4. ASSUME NEW n \in Node, NEW kind \in T!Kind, T!ReadPower(n, kind) PROVE Tx2Reading'
  <2>1. /\ T!ReadNode(n) /\ app'.pc = "core" /\ app'.node = n /\ app'.value = T!OldValue
        /\ seen' = [r \in T!Rail |-> {hw[n][r]}] /\ hw' = hw
    BY <1>4 DEF T!ReadPower
  <2>2. hw[n] \in [T!Rail -> Watts] /\ (n \notin fault' => buf'[n] = hw[n])
    BY <2>1, ReadNodeType DEF Tx2Types, T!Region
  <2>3. \A r \in T!Rail : hw[n][r] \in seen'[r] /\ seen'[r] \subseteq Watts
    BY <2>1, <2>2
  <2> QED
    BY <2>1, <2>2, <2>3 DEF Tx2Reading, T!ReadingIsFresh
<1>5. CASE T!DecodeCore
  <2>1. /\ app.pc = "core" /\ app'.pc = "sram" /\ app'.node = app.node /\ app'.kind = app.kind
        /\ app'.value = T!CoreTerm(app.kind, app.value, buf[app.node])
        /\ UNCHANGED <<hw, buf, seen, fault>>
    BY <1>5 DEF T!DecodeCore, Tx2Types
  <2> QED
    BY <2>1 DEF Tx2Reading, T!ReadingIsFresh, T!CoreTerm, T!Rail
<1>6. CASE T!DecodeSram
  <2>1. /\ app.pc = "sram" /\ app'.pc = "returned" /\ app'.node = app.node
        /\ app'.kind = app.kind /\ app'.value = T!SramTerm(app.kind, app.value, buf[app.node])
        /\ UNCHANGED <<hw, buf, seen, fault>>
    BY <1>6 DEF T!DecodeSram, Tx2Types
  <2> DEFINE s == buf[app.node]["sram"]
  <2>2. app.node \notin fault => s \in seen["sram"] /\ s \in Watts
    BY <2>1 DEF Tx2Reading, T!Rail
  <2>3. app.node \notin fault =>
            IF app.kind = "TX2_SRAM" THEN app.value = 0
            ELSE app.value \in seen["core"] /\ app.value \in Watts
    BY <2>1 DEF Tx2Reading, T!Rail, T!OldValue
  <2>4. app'.value = IF app.kind = "TX2_CORE" THEN app.value ELSE T!Plus(app.value, s)
    BY <2>1 DEF T!SramTerm
  <2> HIDE DEF s
  <2>5. Watts \subseteq Nat /\ Unread \notin Nat
    BY Powers DEF T!Tx2monAssumption
  <2>6. app.node \notin fault /\ app.kind # "TX2_CORE" => app'.value = app.value + s
    <3>1. app.node \notin fault => s \in Nat
      BY <2>2, <2>5
    <3>2. app.node \notin fault /\ app.kind = "TX2_SRAM" => app.value \in Nat
      BY <2>3
    <3>3. app.node \notin fault /\ app.kind # "TX2_SRAM" => app.value \in Nat
      BY <2>3, <2>5
    <3> QED
      BY <2>4, <3>1, <3>2, <3>3, PlusNat
  <2>7. app.node \notin fault /\ app.kind = "TX2_SRAM" => app'.value = s
    <3>1. app.node \notin fault => s \in Nat
      BY <2>2, <2>5
    <3>2. app.kind = "TX2_SRAM" => app.kind # "TX2_CORE"
      OBVIOUS
    <3> QED
      BY <2>3, <2>6, <3>1, <3>2
  <2>8. app.kind \in {"SOCKET", "TX2_CORE", "TX2_SRAM"}
    BY DEF Tx2Types, T!Kind
  <2>9. T!ReadingIsFresh'
    BY <2>1, <2>2, <2>3, <2>4, <2>6, <2>7, <2>8 DEF T!ReadingIsFresh
  <2> QED
    BY <2>1, <2>9 DEF Tx2Reading
<1>7. CASE T!ReadReturn
  BY <1>7 DEF T!ReadReturn, T!Idle, Tx2Reading
<1>8. CASE T!Sample
  <2>1. T!ReadNode(smp.node) /\ smp.node \in Node /\ app.node \in Node
        /\ UNCHANGED <<hw, app, seen>>
    BY <1>8 DEF T!Sample, Tx2Types
  <2>2. app.node \notin fault' => buf'[app.node] \in {buf[app.node], hw[app.node]}
    BY <2>1, ReadNodeType
  <2> QED
    BY <2>1, <2>2, ReadNodeType, ReadingKept
<1>9. CASE UNCHANGED T!vars
  BY <1>9, ReadingKept DEF T!vars
<1> QED
  BY <1>1, <1>2, <1>3, <1>4, <1>5, <1>6, <1>7, <1>8, <1>9 DEF T!Next, T!App, T!Sampler

\* A step that leaves a socket and how far it is added alone.
LEMMA BoundedKept ==
    ASSUME NEW n \in Node, Bounded(n), handle'[n] = handle[n], opened'[n] = opened[n],
           watched'[n] = watched[n], Base(n)' = Base(n), fault \subseteq fault'
    PROVE  Bounded(n)'
  BY DEF Bounded

LEMMA Wider ==
    ASSUME NEW h \in Nat, NEW a \in Int, NEW b \in Int, a <= b
    PROVE  h * a <= h * b /\ h * a \in Int /\ h * b \in Int
<1>1. PICK d \in Nat : b = a + d
  <2>1. b - a \in Nat /\ b = a + (b - a)
    OBVIOUS
  <2> QED
    BY <2>1
<1>2. h * b = h * a + h * d /\ h * d \in Nat /\ h * a \in Int
  BY <1>1
<1> QED
  BY <1>2

\* A pass that adds d units of time of a power between lo and hi to an energy of a units.
LEMMA Added ==
    ASSUME NEW h \in Nat, NEW w \in Nat, NEW a \in Int, NEW d \in Nat, NEW e \in Int
    PROVE  /\ (e <= h * a /\ w <= h) => e + d * w <= h * (a + d)
           /\ (e >= h * a /\ w >= h) => e + d * w >= h * (a + d)
<1>1. h * (a + d) = h * a + h * d /\ h * a \in Int /\ h * d \in Nat
  OBVIOUS
<1>2. d * w \in Nat /\ h * d = d * h
  OBVIOUS
<1>3. w <= h => d * w <= d * h
  BY Wider
<1>4. w >= h => d * w >= d * h
  BY Wider
<1> QED
  BY <1>1, <1>2, <1>3, <1>4

\* How far an energy is added is between the last pass and this one.
LEMMA Bases ==
    ASSUME Tx2Types, Tx2Times, NEW n \in Node
    PROVE  /\ T!From(lastSample) \in Nat /\ T!From(opened[n]) \in Nat /\ Base(n) \in Nat
           /\ watched[n] \in Nat /\ opened[n] \in Nat
           /\ T!From(opened[n]) <= T!From(lastSample) /\ T!From(lastSample) <= Base(n)
           /\ watched[n] <= T!From(lastSample)
           /\ smp.pc \notin Resting => Base(n) <= smp.at
<1>1. lastSample \in Nat /\ opened[n] \in Nat /\ watched[n] \in Nat /\ smp.at \in Nat
  BY DEF Tx2Types
<1>2. opened[n] <= lastSample /\ watched[n] <= lastSample
  BY DEF Tx2Times
<1>3. smp.pc \notin Resting => lastSample <= smp.at /\ 1 <= smp.at
  BY DEF Tx2Times
<1>4. Through(n) => smp.pc \notin Resting
  BY DEF Through
<1> QED
  BY <1>1, <1>2, <1>3, <1>4 DEF Base, T!From

\* A power of two rails.
LEMMA TwoRails ==
    ASSUME T!Tx2monAssumption, NEW x \in Watts, NEW y \in Watts
    PROVE  /\ T!Plus(x, y) = x + y /\ x + y \in Nat
           /\ x + y <= 2 * T!HiWatt /\ x + y >= 2 * T!LoWatt
<1>1. x \in Nat /\ y \in Nat /\ T!HiWatt \in Nat /\ T!LoWatt \in Nat
      /\ T!LoWatt <= x /\ x <= T!HiWatt /\ T!LoWatt <= y /\ y <= T!HiWatt
  BY Powers
<1>2. T!Plus(x, y) = x + y
  BY <1>1, PlusNat
<1>3. PICK hi \in Nat : hi = T!HiWatt
  BY <1>1
<1>4. PICK lo \in Nat : lo = T!LoWatt
  BY <1>1
<1> QED
  BY <1>1, <1>2, <1>3, <1>4

LEMMA OpenBounded ==
    ASSUME T!Tx2monAssumption, Tx2Types, Tx2Times, \A m \in Node : Bounded(m),
           NEW n \in Node, T!Open(n), NEW m \in Node
    PROVE  Bounded(m)'
<1>1. /\ handle[n].st = "none" /\ handle' = [handle EXCEPT ![n] = [st |-> "open", energy |-> 0]]
      /\ opened' = [opened EXCEPT ![n] = lastSample]
      /\ UNCHANGED <<smp, lastSample, watched, fault>>
  BY DEF T!Open
<1>2. Base(m)' = Base(m)
  BY <1>1 DEF Base, Through
<1>3. CASE m # n
  BY <1>1, <1>2, <1>3, BoundedKept DEF Tx2Types
<1>4. CASE m = n
  <2>1. handle'[m].energy = 0 /\ opened'[m] = lastSample /\ watched'[m] = 0
    BY <1>1, <1>4 DEF Tx2Types, Tx2Times
  <2>2. PICK h \in Nat : h = 2 * T!HiWatt
    BY Powers
  <2>3. PICK d \in Nat : d = Base(m) - T!From(lastSample)
    BY Bases
  <2>4. h * d \in Nat
    OBVIOUS
  <2> QED
    BY <1>2, <2>1, <2>2, <2>3, <2>4 DEF Bounded
<1> QED
  BY <1>3, <1>4

LEMMA ScanBounded ==
    ASSUME T!Tx2monAssumption, Tx2Types, Tx2Times, \A m \in Node : Bounded(m),
           NEW n \in Node, T!Scan(n), NEW m \in Node
    PROVE  Bounded(m)'
<1>1. /\ smp.pc = "scan" /\ n \in smp.todo /\ smp'.todo = smp.todo \ {n} /\ smp'.node = n
      /\ smp'.at = smp.at /\ smp'.pc = IF T!Wanted(n) THEN "read" ELSE "scan"
      /\ UNCHANGED <<handle, lastSample, fault, opened>>
  BY DEF T!Scan, Tx2Types
<1>2. \A k \in Node : watched'[k] = IF k = n /\ T!Wanted(n) /\ watched[n] = 0 THEN lastSample
                                    ELSE watched[k]
  BY DEF T!Scan, Tx2Types
<1>3. CASE m # n
  <2>1. Base(m)' = Base(m)
    BY <1>1, <1>3 DEF Base, Through, Resting, Adding
  <2> QED
    BY <1>1, <1>2, <1>3, <2>1, BoundedKept
<1>4. CASE m = n /\ T!Wanted(n)
  <2>1. Base(m)' = Base(m) /\ Base(m) = T!From(lastSample) /\ lastSample # 0
    BY <1>1, <1>4 DEF Base, Through, Resting, Adding, T!Wanted
  <2>2. CASE watched[n] # 0
    BY <1>1, <1>2, <1>4, <2>1, <2>2, BoundedKept
  <2>3. CASE watched[n] = 0
    <3>1. watched'[n] = lastSample /\ Base(n)' = lastSample
      BY <1>2, <1>4, <2>1, <2>3 DEF T!From
    <3>2. 2 * T!LoWatt * (lastSample - lastSample) = 0
      BY Powers DEF Tx2Types
    <3> QED
      BY <1>1, <1>4, <2>1, <3>1, <3>2 DEF Bounded
  <2> QED
    BY <2>2, <2>3
<1>5. CASE m = n /\ ~T!Wanted(n)
  <2> SUFFICES ASSUME handle[n].st = "open", n \notin fault PROVE Bounded(m)'
    BY <1>1, <1>5 DEF Bounded
  <2>1. lastSample = 0 /\ watched[n] = 0 /\ watched'[n] = 0
    BY <1>2, <1>5 DEF T!Wanted, Tx2Types, Tx2Times
  <2>2. Base(m)' = smp.at /\ Base(m) = T!From(lastSample)
    BY <1>1, <1>5 DEF Base, Through, Resting, Adding
  <2>3. PICK h \in Nat : h = 2 * T!HiWatt
    BY Powers
  <2>4. Base(m) <= smp.at /\ Base(m) \in Nat /\ smp.at \in Nat /\ T!From(opened[n]) \in Nat
    BY <1>1, <1>5, Bases DEF Resting, Tx2Types
  <2>5. PICK a \in Int : a = Base(m) - T!From(opened[n])
    BY <2>4
  <2>6. PICK b \in Int : b = smp.at - T!From(opened[n])
    BY <2>4
  <2>7. a <= b
    BY <2>4, <2>5, <2>6
  <2>8. h * a <= h * b /\ h * a \in Int /\ h * b \in Int
    BY <2>7, Wider
  <2>9. handle[n].energy \in Nat /\ handle[n].energy <= h * a
    BY <1>5, <2>3, <2>5 DEF Bounded
  <2>10. handle'[n].energy \in Nat /\ handle'[n].energy <= h * b
    BY <1>1, <2>8, <2>9
  <2> QED
    BY <1>1, <1>5, <2>1, <2>2, <2>3, <2>6, <2>10 DEF Bounded
<1> QED
  BY <1>3, <1>4, <1>5

LEMMA AddBounded ==
    ASSUME T!Tx2monAssumption, Tx2Types, Tx2Times, Tx2Sample, \A m \in Node : Bounded(m),
           T!AddEnergy, NEW m \in Node
    PROVE  Bounded(m)'
<1> DEFINE watt == T!Plus(smp.value, buf[smp.node]["sram"])
           joule == IF Unread = watt THEN Unread ELSE T!Interval * watt
           e == T!Plus(handle[smp.node].energy, joule)
<1>1. /\ handle' = IF handle[smp.node].st # "open" THEN handle
                   ELSE [handle EXCEPT ![smp.node].energy = e]
      /\ smp.pc = "sram" /\ smp'.pc = "scan" /\ smp'.todo = smp.todo /\ smp'.node = smp.node
      /\ smp'.at = smp.at /\ UNCHANGED <<lastSample, fault, opened, watched>>
  BY DEF T!AddEnergy, Tx2Types
<1>2. CASE m # smp.node
  <2>1. Base(m)' = Base(m)
    BY <1>1, <1>2 DEF Base, Through, Resting, Adding
  <2>2. handle'[m] = handle[m]
    BY <1>1, <1>2 DEF Tx2Types
  <2> QED
    BY <1>1, <2>1, <2>2, BoundedKept
<1>3. CASE m = smp.node
  <2> SUFFICES ASSUME handle[m].st = "open", m \notin fault PROVE Bounded(m)'
    BY <1>1, <1>3 DEF Bounded, Tx2Types
  <2>1. /\ Base(m) = T!From(lastSample) /\ lastSample # 0 /\ Base(m)' = smp.at
    BY <1>1, <1>3 DEF Base, Through, Resting, Adding, Tx2Times
  <2>2. /\ lastSample \in Nat /\ smp.at \in Nat /\ lastSample <= smp.at
        /\ opened[m] \in Nat /\ watched[m] \in Nat
    BY <1>1 DEF Tx2Types, Tx2Times, Resting
  <2>3. PICK d \in Nat : d = smp.at - lastSample
    BY <2>2
  <2>4. Base(m) = lastSample /\ Base(m)' = lastSample + d /\ T!Interval = d
    BY <2>1, <2>2, <2>3 DEF T!From, T!Interval
  <2>5. smp.value \in Watts /\ buf[smp.node]["sram"] \in Watts
    BY <1>1, <1>3 DEF Tx2Sample, Good, T!Rail
  <2>6. PICK w \in Nat : w = watt /\ w <= 2 * T!HiWatt /\ w >= 2 * T!LoWatt
    BY <2>5, TwoRails
  <2>7. w # Unread /\ d * w \in Nat
    BY <2>6 DEF T!Tx2monAssumption
  <2>8. joule = d * w
    BY <2>4, <2>6, <2>7
  <2> HIDE DEF watt, joule
  <2>9. PICK x \in Nat : x = handle[m].energy
    BY DEF Bounded
  <2>10. e = x + d * w
    BY <1>3, <2>7, <2>8, <2>9, PlusNat
  <2> HIDE DEF e
  <2>11. handle'[m].energy = x + d * w /\ x + d * w \in Nat
    BY <1>1, <1>3, <2>7, <2>10 DEF Tx2Types
  <2>12. PICK h \in Nat : h = 2 * T!HiWatt
    BY Powers
  <2>13. PICK l \in Nat : l = 2 * T!LoWatt
    BY Powers
  <2>14. PICK o \in Nat : o = T!From(opened[m])
    BY <2>2 DEF T!From
  <2>15. x <= h * (lastSample - o)
    BY <2>4, <2>9, <2>12, <2>14 DEF Bounded
  <2>16. x + d * w <= h * ((lastSample - o) + d)
    BY <2>2, <2>6, <2>12, <2>15, Added
  <2>17. (lastSample - o) + d = (lastSample + d) - o
    BY <2>2
  <2>18. watched[m] # 0 => x + d * w >= l * ((lastSample + d) - watched[m])
    <3> SUFFICES ASSUME watched[m] # 0
                 PROVE  x + d * w >= l * ((lastSample + d) - watched[m])
      OBVIOUS
    <3>1. PICK k \in Nat : k = watched[m]
      BY <2>2
    <3>2. x >= l * (lastSample - k)
      BY <2>4, <2>9, <2>13, <3>1 DEF Bounded
    <3>3. x + d * w >= l * ((lastSample - k) + d)
      BY <2>2, <2>6, <2>13, <3>2, Added
    <3>4. (lastSample - k) + d = (lastSample + d) - k
      BY <2>2
    <3> QED
      BY <3>1, <3>3, <3>4
  <2> QED
    BY <1>1, <2>4, <2>11, <2>12, <2>13, <2>14, <2>16, <2>17, <2>18 DEF Bounded
<1> QED
  BY <1>2, <1>3

LEMMA Tx2EnergyNext ==
    ASSUME T!Tx2monAssumption, Tx2Types, Tx2Threads, Tx2Times, Tx2Sample,
           \A m \in Node : Bounded(m), [T!Next]_T!vars, NEW m \in Node
    PROVE  Bounded(m)'
<1>1. CASE \/ T!Tick \/ T!DecodeCore \/ T!DecodeSram \/ T!ReadReturn \/ T!Final \/ T!Fini
           \/ UNCHANGED T!vars
  <2>1. UNCHANGED <<handle, lastSample, smp, fault, opened, watched>>
    BY <1>1 DEF T!Tick, T!DecodeCore, T!DecodeSram, T!ReadReturn, T!Final, T!Fini, T!vars
  <2>2. Base(m)' = Base(m)
    BY <2>1 DEF Base, Through
  <2> QED
    BY <2>1, <2>2, BoundedKept
<1>2. CASE T!DevInit
  <2>1. /\ smp.pc = "none" /\ smp'.pc = "sleep"
        /\ UNCHANGED <<handle, lastSample, fault, opened, watched>>
    BY <1>2 DEF T!DevInit, Tx2Threads, T!Asleep
  <2>2. Base(m)' = Base(m)
    BY <2>1 DEF Base, Through, Resting
  <2> QED
    BY <2>1, <2>2, BoundedKept
<1>3. ASSUME NEW n \in Node, NEW kind \in T!Kind, T!ReadPower(n, kind) PROVE Bounded(m)'
  <2>1. T!ReadNode(n) /\ UNCHANGED <<handle, lastSample, smp, opened, watched>>
    BY <1>3 DEF T!ReadPower
  <2>2. Base(m)' = Base(m)
    BY <2>1 DEF Base, Through
  <2> QED
    BY <2>1, <2>2, ReadNodeType, BoundedKept
<1>4. ASSUME NEW n \in Node, T!Close(n) PROVE Bounded(m)'
  <2>1. /\ handle' = [handle EXCEPT ![n].st = "freed"]
        /\ UNCHANGED <<lastSample, smp, fault, opened, watched>>
    BY <1>4 DEF T!Close
  <2>2. Base(m)' = Base(m)
    BY <2>1 DEF Base, Through
  <2>3. CASE m = n
    BY <2>1, <2>3 DEF Bounded, Tx2Types
  <2>4. CASE m # n
    BY <2>1, <2>2, <2>4, BoundedKept DEF Tx2Types
  <2> QED
    BY <2>3, <2>4
<1>5. CASE T!Wake
  <2>1. /\ smp.pc = "sleep" /\ (smp'.pc = "exit" \/ (smp'.pc = "scan" /\ smp'.todo = Node))
        /\ UNCHANGED <<handle, lastSample, fault, opened, watched>>
    BY <1>5 DEF T!Wake, Tx2Types
  <2>2. Base(m)' = Base(m)
    BY <2>1 DEF Base, Through, Resting
  <2> QED
    BY <2>1, <2>2, BoundedKept
<1>6. CASE T!Sample \/ T!SampleCore
  <2>1. /\ smp.pc \in {"read", "core"} /\ smp'.pc \in {"core", "sram"} /\ smp'.at = smp.at
        /\ smp'.node = smp.node /\ smp'.todo = smp.todo
        /\ UNCHANGED <<handle, lastSample, opened, watched>>
        /\ fault' = fault \/ T!ReadNode(smp.node)
    <3>1. CASE T!Sample
      BY <3>1 DEF T!Sample, Tx2Types
    <3>2. CASE T!SampleCore
      BY <3>2 DEF T!SampleCore, Tx2Types
    <3> QED
      BY <1>6, <3>1, <3>2
  <2>2. Base(m)' = Base(m)
    BY <2>1 DEF Base, Through, Resting, Adding
  <2>3. fault \subseteq fault'
    BY <2>1, ReadNodeType DEF Tx2Types
  <2> QED
    BY <2>1, <2>2, <2>3, BoundedKept
<1>7. CASE T!EndPass
  <2>1. /\ smp.pc = "scan" /\ smp.todo = {} /\ smp'.pc = "sleep" /\ lastSample' = smp.at
        /\ smp.at \in Nat /\ 1 <= smp.at
        /\ UNCHANGED <<handle, fault, opened, watched>>
    BY <1>7 DEF T!EndPass, Tx2Types, Tx2Times, Resting
  <2>2. Base(m)' = Base(m)
    BY <2>1 DEF Base, Through, Resting, Adding, T!From
  <2> QED
    BY <2>1, <2>2, BoundedKept
<1> QED
  BY <1>1, <1>2, <1>3, <1>4, <1>5, <1>6, <1>7, OpenBounded, ScanBounded, AddBounded
     DEF T!Next, T!App, T!Sampler

LEMMA Tx2Next == ASSUME T!Tx2monAssumption, Tx2Inv, [T!Next]_T!vars PROVE Tx2Inv'
<1>1. \A m \in Node : Bounded(m)'
  BY Tx2EnergyNext DEF Tx2Inv
<1> QED
  BY <1>1, Tx2TypesNext, Tx2TimesNext, Tx2SampleNext, Tx2ReadingNext DEF Tx2Inv

LEMMA EnergyWithin == ASSUME T!Tx2monAssumption, Tx2Inv PROVE T!EnergyBounds
<1> DEFINE passEnd == IF smp.pc \in Resting THEN T!From(lastSample) ELSE smp.at
<1> SUFFICES ASSUME NEW n \in Node, handle[n].st = "open", n \notin fault
             PROVE  /\ handle[n].energy <= 2 * T!HiWatt * (passEnd - T!From(opened[n]))
                    /\ watched[n] # 0 =>
                         handle[n].energy >= 2 * T!LoWatt * (T!From(lastSample) - watched[n])
  BY DEF T!EnergyBounds, Resting
<1>1. /\ T!From(lastSample) \in Nat /\ T!From(opened[n]) \in Nat /\ Base(n) \in Nat
      /\ watched[n] \in Nat /\ T!From(lastSample) <= Base(n)
      /\ smp.pc \notin Resting => Base(n) <= smp.at
  BY Bases DEF Tx2Inv
<1>2. passEnd \in Nat /\ Base(n) <= passEnd
  BY <1>1 DEF Base, Through, Tx2Inv, Tx2Types
<1>3. PICK h \in Nat : h = 2 * T!HiWatt
  BY Powers
<1>4. PICK l \in Nat : l = 2 * T!LoWatt
  BY Powers
<1>5. PICK o \in Nat : o = T!From(opened[n])
  BY <1>1
<1>6. PICK x \in Nat : x = handle[n].energy
  BY DEF Bounded, Tx2Inv
<1>7. /\ x <= h * (Base(n) - o)
      /\ watched[n] # 0 => x >= l * (Base(n) - watched[n])
  BY <1>3, <1>4, <1>5, <1>6 DEF Bounded, Tx2Inv
<1> HIDE DEF passEnd
<1>8. PICK b \in Nat : b = Base(n)
  BY <1>1
<1>9. PICK f \in Nat : f = T!From(lastSample)
  BY <1>1
<1>10. h * (b - o) <= h * (passEnd - o) /\ h * (b - o) \in Int /\ h * (passEnd - o) \in Int
  <2>1. b - o \in Int /\ passEnd - o \in Int /\ b - o <= passEnd - o
    BY <1>2, <1>8
  <2> QED
    BY <2>1, Wider
<1>11. PICK k \in Nat : k = watched[n]
  BY <1>1
<1>12. l * (f - k) <= l * (b - k) /\ l * (f - k) \in Int /\ l * (b - k) \in Int
  <2>1. f - k \in Int /\ b - k \in Int /\ f - k <= b - k
    BY <1>1, <1>8, <1>9
  <2> QED
    BY <2>1, Wider
<1>13. x <= h * (passEnd - o)
  BY <1>7, <1>8, <1>10
<1>14. k # 0 => x >= l * (f - k)
  BY <1>7, <1>8, <1>11, <1>12
<1> QED
  BY <1>3, <1>4, <1>5, <1>6, <1>9, <1>11, <1>13, <1>14

LEMMA Tx2Always == ASSUME T!Tx2monAssumption PROVE T!Spec => []Tx2Inv
<1>1. T!Init => Tx2Inv
  BY Tx2Init
<1>2. Tx2Inv /\ [T!Next]_T!vars => Tx2Inv'
  BY Tx2Next
<1> QED
  BY <1>1, <1>2, PTL DEF T!Spec

\* The energy of an open tx2mon socket of which no read failed is what its power makes
\* in the time that was sampled (pwr_tx2mon.c:427), for any number of sockets, any
\* powers and clock, wherever the two threads are.
THEOREM EnergyBoundsCorrect == ASSUME T!Tx2monAssumption PROVE T!Spec => []T!EnergyBounds
<1>1. Tx2Inv => T!EnergyBounds
  BY EnergyWithin
<1> QED
  BY <1>1, Tx2Always, PTL

\* A power reading of tx2mon (pwr_tx2mon.c:621-651) is made of values the rails had
\* during the call, though the sampling thread reads the region in between.
THEOREM ReadingIsFreshCorrect == ASSUME T!Tx2monAssumption PROVE T!Spec => []T!ReadingIsFresh
<1>1. Tx2Inv => T!ReadingIsFresh
  BY DEF Tx2Inv, Tx2Reading, T!ReadingIsFresh
<1> QED
  BY <1>1, Tx2Always, PTL

LEMMA OpenPicked == ASSUME Tx2Inv, T!Next PROVE T!PickStep
<1> SUFFICES ASSUME smp.pc = "scan", smp'.pc = "read"
             PROVE  handle[smp'.node].st = "open"
  BY DEF T!PickStep
<1>1. \A n \in Node : T!Scan(n) => smp'.node = n /\ T!Wanted(n)
  BY DEF T!Scan, Tx2Inv, Tx2Types
<1>2. \E n \in Node : T!Scan(n)
  <2>1. ~T!EndPass
    <3>1. Tx2Types
      BY DEF Tx2Inv
    <3>2. T!EndPass => smp'.pc = "sleep"
      BY <3>1 DEF T!EndPass, Tx2Types
    <3> QED
      BY <3>2
  <2>2. ~T!DevInit /\ ~T!Wake /\ ~T!Sample /\ ~T!SampleCore /\ ~T!AddEnergy
    BY DEF T!DevInit, T!Asleep, T!Wake, T!Sample, T!SampleCore, T!AddEnergy
  <2>3. smp' # smp
    OBVIOUS
  <2> QED
    BY <2>1, <2>2, <2>3 DEF T!Next, T!App, T!Sampler, T!Tick, T!Open, T!Close, T!ReadPower,
       T!DecodeCore, T!DecodeSram, T!ReadReturn, T!Final, T!Fini
<1> QED
  BY <1>1, <1>2 DEF T!Wanted, Tx2Inv, Tx2Types

\* The sampling thread goes to no socket whose handle was freed (pwr_tx2mon.c:423), and
\* devInfo is freed when the thread has left it (pwr_tx2mon.c:560).
THEOREM NoneFreedCorrect ==
    ASSUME T!Tx2monAssumption PROVE T!Spec => [][T!PickStep /\ T!FreedAfterThread']_T!vars
<1>1. ASSUME Tx2Inv, T!Next PROVE T!PickStep
  BY <1>1, OpenPicked
<1>2. Tx2Inv => T!FreedAfterThread
  BY DEF Tx2Inv, Tx2Threads, T!FreedAfterThread
<1>3. Tx2Inv /\ Tx2Inv' /\ [T!Next]_T!vars => [T!PickStep /\ T!FreedAfterThread']_T!vars
  <2> SUFFICES ASSUME Tx2Inv, Tx2Inv', T!Next, T!vars' # T!vars
               PROVE  T!PickStep /\ T!FreedAfterThread'
    BY DEF T!vars
  <2>1. T!PickStep
    BY <1>1
  <2>2. T!FreedAfterThread'
    BY DEF Tx2Inv, Tx2Threads, T!FreedAfterThread
  <2> QED
    BY <2>1, <2>2
<1> QED
  BY <1>3, Tx2Always, PTL DEF T!Spec
-----------------------------------------------------------------------------
(* The dummy plugin.  NoTimeTwice compares two calls of the past; what     *)
(* makes it inductive is where the buffer and lastAccess stand now against *)
(* each read: an attribute has grown since by no more than lastAccess.     *)

DummyEntry == [op : {"read", "readv", "write"}, attr : Dummy!Attr, value : Nat, at : Nat]

DummyTypeOK ==
    /\ now \in Nat
    /\ lastAccess \in Nat
    /\ lastAccess <= now
    /\ values \in [Dummy!Attr -> Nat]
    /\ trace \in Seq(DummyEntry)

IsRead(i, attr) == trace[i].op = "read" /\ trace[i].attr = attr

\* No write of attr, and nothing but reads of the buffer, after call i.
Unwritten(i, attr) ==
    \A k \in i + 1 .. Len(trace) :
        trace[k].op = "write" => trace[k].attr # attr
Quiet(i) == \A k \in i + 1 .. Len(trace) : trace[k].op = "readv"

\* What an attribute has grown since a read of it is in lastAccess.
GrownSince ==
    \A i \in 1 .. Len(trace) : \A attr \in Dummy!Attr :
        (IsRead(i, attr) /\ Unwritten(i, attr)) =>
        /\ values[attr] - trace[i].value <= lastAccess - trace[i].at
        /\ Quiet(i) => /\ values[attr] = trace[i].value
                       /\ lastAccess = trace[i].at

DummyInv == DummyTypeOK /\ GrownSince /\ Dummy!NoTimeTwice

-----------------------------------------------------------------------------
\* The trace after a call: the calls before stay where they are.
LEMMA TraceAppend ==
    ASSUME trace \in Seq(DummyEntry), NEW e \in DummyEntry, trace' = Append(trace, e)
    PROVE  /\ trace' \in Seq(DummyEntry)
           /\ Len(trace) \in Nat
           /\ Len(trace') = Len(trace) + 1
           /\ \A k \in 1 .. Len(trace) : trace'[k] = trace[k] /\ trace[k] \in DummyEntry
           /\ trace'[Len(trace) + 1] = e
           /\ DOMAIN trace = 1 .. Len(trace)
           /\ DOMAIN trace' = 1 .. Len(trace) + 1
  BY AppendProperties, LenProperties, ElementOfSeq

\* The two steps of arithmetic in what follows.
LEMMA GrowsWithTime ==
    ASSUME NEW v \in Nat, NEW last \in Nat, NEW time \in Nat, NEW w \in Nat,
           NEW v0 \in Nat, NEW t0 \in Nat,
           v - v0 <= last - t0, w <= v + (time - last)
    PROVE  w - v0 <= time - t0
  OBVIOUS

LEMMA LaterAccess ==
    ASSUME NEW v \in Nat, NEW last \in Nat, NEW later \in Nat,
           NEW v0 \in Nat, NEW t0 \in Nat,
           v - v0 <= last - t0, last <= later
    PROVE  v - v0 <= later - t0
  OBVIOUS

\* What was so after a later call was so before it.
LEMMA EarlierPremises ==
    ASSUME trace \in Seq(DummyEntry), NEW e \in DummyEntry, trace' = Append(trace, e),
           NEW i \in 1 .. Len(trace), NEW attr \in Dummy!Attr
    PROVE  /\ IsRead(i, attr)' => IsRead(i, attr)
           /\ Unwritten(i, attr)' =>
                  Unwritten(i, attr) /\ (e.op = "write" => e.attr # attr)
           /\ Quiet(i)' => Quiet(i) /\ e.op = "readv"
<1>1. /\ Len(trace) \in Nat /\ Len(trace') = Len(trace) + 1
      /\ \A k \in 1 .. Len(trace) : trace'[k] = trace[k]
      /\ trace'[Len(trace) + 1] = e
  BY TraceAppend
<1>2. \A k \in i + 1 .. Len(trace) :
          k \in i + 1 .. Len(trace') /\ trace'[k] = trace[k]
  BY <1>1
<1>3. Len(trace') \in i + 1 .. Len(trace') /\ trace'[Len(trace')] = e
  BY <1>1
<1>4. IsRead(i, attr)' => IsRead(i, attr)
  BY <1>1 DEF IsRead
<1>5. Unwritten(i, attr)' =>
          Unwritten(i, attr) /\ (e.op = "write" => e.attr # attr)
  BY <1>2, <1>3 DEF Unwritten
<1>6. Quiet(i)' => Quiet(i) /\ e.op = "readv"
  BY <1>2, <1>3 DEF Quiet
<1> QED
  BY <1>4, <1>5, <1>6

\* A read adds the time since lastAccess to what the buffer had, so that it
\* differs from an earlier one by no more than the time between them.
LEMMA TwiceAppend ==
    ASSUME DummyTypeOK, GrownSince, Dummy!NoTimeTwice, NEW e \in DummyEntry,
           trace' = Append(trace, e),
           e.op = "read" => /\ e.value = values[e.attr] + (now - lastAccess)
                            /\ e.at = now
    PROVE  Dummy!NoTimeTwice'
<1>1. /\ Len(trace) \in Nat /\ Len(trace') = Len(trace) + 1
      /\ \A k \in 1 .. Len(trace) : trace'[k] = trace[k] /\ trace[k] \in DummyEntry
      /\ trace'[Len(trace) + 1] = e
      /\ DOMAIN trace = 1 .. Len(trace)
      /\ DOMAIN trace' = 1 .. Len(trace) + 1
  BY TraceAppend DEF DummyTypeOK
<1> SUFFICES ASSUME NEW i \in DOMAIN trace', NEW j \in DOMAIN trace',
                    NEW attr \in Dummy!Attr, i < j, Dummy!Reads(attr, i, j)',
                    \A k \in Dummy!Between(i, j)' :
                        trace'[k].op = "read" \/ trace'[k].attr # attr
             PROVE  /\ trace'[j].value - trace'[i].value <= trace'[j].at - trace'[i].at
                    /\ Dummy!Between(i, j)' = {} =>
                       trace'[j].value - trace'[i].value = trace'[j].at - trace'[i].at
  BY DEF Dummy!NoTimeTwice
<1>2. /\ i \in 1 .. Len(trace)
      /\ trace'[i] = trace[i] /\ trace[i] \in DummyEntry
      /\ \A k \in i + 1 .. j - 1 : k \in 1 .. Len(trace) /\ trace'[k] = trace[k]
  BY <1>1
<1>3. Dummy!Between(i, j)' = Dummy!Between(i, j)
  BY <1>2 DEF Dummy!Between
<1>4. \A k \in Dummy!Between(i, j) : trace[k].op = "read" \/ trace[k].attr # attr
  BY <1>2, <1>3 DEF Dummy!Between
<1>5. CASE j \in 1 .. Len(trace)
  <2>1. trace'[j] = trace[j] /\ Dummy!Reads(attr, i, j) /\ i \in DOMAIN trace /\ j \in DOMAIN trace
    BY <1>1, <1>2, <1>5 DEF Dummy!Reads
  <2> QED
    BY <1>2, <1>3, <1>4, <2>1 DEF Dummy!NoTimeTwice
<1>6. CASE j = Len(trace) + 1
  <2>1. e.op = "read" /\ e.attr = attr /\ IsRead(i, attr)
    BY <1>1, <1>2, <1>6 DEF Dummy!Reads, IsRead
  <2>2. Unwritten(i, attr)
    BY <1>1, <1>4, <1>6 DEF Unwritten, Dummy!Between
  <2>3. Dummy!Between(i, j) = {} => Quiet(i)
    BY <1>1, <1>6 DEF Quiet, Dummy!Between
  <2>4. /\ values[attr] - trace[i].value <= lastAccess - trace[i].at
        /\ Quiet(i) => values[attr] = trace[i].value /\ lastAccess = trace[i].at
    BY <1>2, <2>1, <2>2 DEF GrownSince
  <2>5. /\ values[attr] \in Nat /\ now \in Nat /\ lastAccess \in Nat
        /\ trace[i].value \in Nat /\ trace[i].at \in Nat
    BY <1>2 DEF DummyTypeOK, DummyEntry
  <2>6. trace'[j].value = values[attr] + (now - lastAccess) /\ trace'[j].at = now
    BY <1>1, <1>6, <2>1
  <2>7. /\ trace'[i] = trace[i] /\ Dummy!Between(i, j)' = Dummy!Between(i, j)
        /\ trace'[j].value \in Nat /\ trace'[j].value <= values[attr] + (now - lastAccess)
    <3>1. lastAccess <= now
      BY DEF DummyTypeOK
    <3>2. values[attr] + (now - lastAccess) \in Nat
      BY <2>5, <3>1
    <3> QED
      BY <1>2, <1>3, <2>6, <3>2
  <2>8. trace'[j].value - trace'[i].value <= trace'[j].at - trace'[i].at
    <3>1. trace'[j].value - trace[i].value <= now - trace[i].at
      BY <2>4, <2>5, <2>7, GrowsWithTime
    <3> QED
      BY <2>6, <2>7, <3>1
  <2>9. ASSUME Dummy!Between(i, j)' = {}
        PROVE  trace'[j].value - trace'[i].value = trace'[j].at - trace'[i].at
    <3>1. values[attr] = trace[i].value /\ lastAccess = trace[i].at
      BY <2>3, <2>4, <2>7, <2>9
    <3>2. /\ trace'[j].value = trace[i].value + (now - trace[i].at)
          /\ trace[i].value \in Nat /\ trace[i].at \in Nat /\ now \in Nat
      BY <2>5, <2>6, <3>1
    <3> QED
      BY <2>6, <2>7, <3>2
  <2> QED
    BY <2>8, <2>9
<1> QED
  BY <1>1, <1>5, <1>6

-----------------------------------------------------------------------------
LEMMA DummyInit == Dummy!Init => DummyInv
<1> SUFFICES ASSUME Dummy!Init PROVE DummyInv
  OBVIOUS
<1>1. trace = <<>> /\ Len(trace) = 0 /\ DOMAIN trace = {}
  BY DEF Dummy!Init
<1>2. DummyTypeOK
  BY <1>1 DEF Dummy!Init, DummyTypeOK, Dummy!Attr
<1>3. GrownSince /\ Dummy!NoTimeTwice
  BY <1>1 DEF GrownSince, Dummy!NoTimeTwice
<1> QED
  BY <1>2, <1>3 DEF DummyInv

LEMMA DummyRead == ASSUME DummyInv, NEW a \in Dummy!Attr, Dummy!Read(a) PROVE DummyInv'
<1> DEFINE e == [op |-> "read", attr |-> a, value |-> values'[a], at |-> now]
<1>1. DummyTypeOK /\ GrownSince /\ Dummy!NoTimeTwice
  BY DEF DummyInv
<1>2. /\ values' = [values EXCEPT ![a] = @ + (now - lastAccess)]
      /\ lastAccess' = now /\ now' = now /\ trace' = Append(trace, e)
  BY DEF Dummy!Read, Dummy!Touched, Dummy!Log
<1>3. /\ values' \in [Dummy!Attr -> Nat] /\ values'[a] = values[a] + (now - lastAccess)
      /\ \A b \in Dummy!Attr \ {a} : values'[b] = values[b]
  BY <1>1, <1>2 DEF DummyTypeOK
<1>4. e \in DummyEntry
  BY <1>1, <1>3 DEF DummyTypeOK, DummyEntry
<1> HIDE DEF e
<1>5. e.op = "read" /\ e.attr = a /\ e.value = values'[a] /\ e.at = now
  BY DEF e
<1>6. /\ Len(trace) \in Nat /\ Len(trace') = Len(trace) + 1 /\ trace' \in Seq(DummyEntry)
      /\ \A k \in 1 .. Len(trace) : trace'[k] = trace[k] /\ trace[k] \in DummyEntry
      /\ trace'[Len(trace) + 1] = e
  BY <1>1, <1>2, <1>4, TraceAppend DEF DummyTypeOK
<1>7. DummyTypeOK'
  BY <1>1, <1>2, <1>3, <1>6 DEF DummyTypeOK
<1>8. Dummy!NoTimeTwice'
  BY <1>1, <1>2, <1>3, <1>4, <1>5, TwiceAppend
<1>9. GrownSince'
  <2> SUFFICES ASSUME NEW i \in 1 .. Len(trace'), NEW b \in Dummy!Attr,
                      IsRead(i, b)', Unwritten(i, b)'
               PROVE  /\ values'[b] - trace'[i].value <= lastAccess' - trace'[i].at
                      /\ Quiet(i)' => /\ values'[b] = trace'[i].value
                                      /\ lastAccess' = trace'[i].at
    BY DEF GrownSince
  <2>1. CASE i = Len(trace) + 1
    <3>1. trace'[i] = e /\ b = a
      BY <1>5, <1>6, <2>1 DEF IsRead
    <3>2. /\ trace'[i].value = values'[b] /\ trace'[i].at = lastAccess'
          /\ values'[b] \in Nat /\ lastAccess' \in Nat
      BY <1>1, <1>2, <1>3, <1>5, <3>1 DEF DummyTypeOK
    <3> QED
      BY <3>2
  <2>2. CASE i \in 1 .. Len(trace)
    <3>1. IsRead(i, b) /\ Unwritten(i, b) /\ ~Quiet(i)'
      BY <1>1, <1>2, <1>4, <1>5, <2>2, EarlierPremises DEF DummyTypeOK
    <3>2. values[b] - trace[i].value <= lastAccess - trace[i].at
      BY <1>1, <2>2, <3>1 DEF GrownSince
    <3>3. /\ trace'[i] = trace[i] /\ trace[i].value \in Nat /\ trace[i].at \in Nat
          /\ values[b] \in Nat /\ now \in Nat /\ lastAccess \in Nat /\ lastAccess <= now
      BY <1>1, <1>6, <2>2 DEF DummyTypeOK, DummyEntry
    <3>4. values'[b] <= values[b] + (now - lastAccess) /\ values'[b] \in Nat
      BY <1>3, <3>3
    <3>5. lastAccess' = now
      BY <1>2
    <3>6. values'[b] - trace[i].value <= lastAccess' - trace[i].at
      BY <3>2, <3>3, <3>4, <3>5, GrowsWithTime
    <3> QED
      BY <3>1, <3>3, <3>6
  <2> QED
    BY <1>6, <2>1, <2>2
<1> QED
  BY <1>7, <1>8, <1>9 DEF DummyInv

LEMMA DummyReadv == ASSUME DummyInv, NEW a \in Dummy!Attr, Dummy!Readv(a) PROVE DummyInv'
<1> DEFINE e == [op |-> "readv", attr |-> a, value |-> values[a], at |-> now]
<1>1. DummyTypeOK /\ GrownSince /\ Dummy!NoTimeTwice
  BY DEF DummyInv
<1>2. /\ values' = values /\ lastAccess' = lastAccess /\ now' = now
      /\ trace' = Append(trace, e)
  BY DEF Dummy!Readv, Dummy!Log
<1>3. e \in DummyEntry /\ e.op = "readv"
  BY <1>1 DEF DummyTypeOK, DummyEntry
<1> HIDE DEF e
<1>4. /\ Len(trace) \in Nat /\ Len(trace') = Len(trace) + 1 /\ trace' \in Seq(DummyEntry)
      /\ \A k \in 1 .. Len(trace) : trace'[k] = trace[k]
      /\ trace'[Len(trace) + 1] = e
  BY <1>1, <1>2, <1>3, TraceAppend DEF DummyTypeOK
<1>5. DummyTypeOK'
  BY <1>1, <1>2, <1>4 DEF DummyTypeOK
<1>6. Dummy!NoTimeTwice'
  BY <1>1, <1>2, <1>3, TwiceAppend
<1>7. GrownSince'
  <2> SUFFICES ASSUME NEW i \in 1 .. Len(trace'), NEW b \in Dummy!Attr,
                      IsRead(i, b)', Unwritten(i, b)'
               PROVE  /\ values'[b] - trace'[i].value <= lastAccess' - trace'[i].at
                      /\ Quiet(i)' => /\ values'[b] = trace'[i].value
                                      /\ lastAccess' = trace'[i].at
    BY DEF GrownSince
  <2>1. i \in 1 .. Len(trace)
    BY <1>3, <1>4 DEF IsRead
  <2>2. IsRead(i, b) /\ Unwritten(i, b) /\ (Quiet(i)' => Quiet(i))
    BY <1>1, <1>2, <1>3, <2>1, EarlierPremises DEF DummyTypeOK
  <2> QED
    BY <1>1, <1>2, <1>4, <2>1, <2>2 DEF GrownSince
<1> QED
  BY <1>5, <1>6, <1>7 DEF DummyInv

\* Both writes: write sets lastAccess to the time, writev leaves it.
LEMMA DummyWrite ==
    ASSUME DummyInv, NEW a \in Dummy!Attr, NEW v \in Nat, Dummy!Write(a, v) \/ Dummy!Writev(a, v)
    PROVE  DummyInv'
<1> DEFINE e == [op |-> "write", attr |-> a, value |-> v, at |-> now]
<1>1. DummyTypeOK /\ GrownSince /\ Dummy!NoTimeTwice
  BY DEF DummyInv
<1>2. /\ values' = [values EXCEPT ![a] = v] /\ now' = now
      /\ lastAccess' = now \/ lastAccess' = lastAccess
      /\ trace' = Append(trace, e)
  BY DEF Dummy!Write, Dummy!Writev, Dummy!Touched, Dummy!Log
<1>3. e \in DummyEntry /\ e.op = "write" /\ e.attr = a
  BY <1>1 DEF DummyTypeOK, DummyEntry
<1> HIDE DEF e
<1>4. /\ values' \in [Dummy!Attr -> Nat]
      /\ \A b \in Dummy!Attr \ {a} : values'[b] = values[b]
      /\ lastAccess' \in Nat /\ lastAccess <= lastAccess' /\ lastAccess' <= now
  BY <1>1, <1>2 DEF DummyTypeOK
<1>5. /\ Len(trace) \in Nat /\ Len(trace') = Len(trace) + 1 /\ trace' \in Seq(DummyEntry)
      /\ \A k \in 1 .. Len(trace) : trace'[k] = trace[k] /\ trace[k] \in DummyEntry
      /\ trace'[Len(trace) + 1] = e
  BY <1>1, <1>2, <1>3, TraceAppend DEF DummyTypeOK
<1>6. DummyTypeOK'
  BY <1>1, <1>2, <1>4, <1>5 DEF DummyTypeOK
<1>7. Dummy!NoTimeTwice'
  BY <1>1, <1>2, <1>3, TwiceAppend
<1>8. GrownSince'
  <2> SUFFICES ASSUME NEW i \in 1 .. Len(trace'), NEW b \in Dummy!Attr,
                      IsRead(i, b)', Unwritten(i, b)'
               PROVE  /\ values'[b] - trace'[i].value <= lastAccess' - trace'[i].at
                      /\ Quiet(i)' => /\ values'[b] = trace'[i].value
                                      /\ lastAccess' = trace'[i].at
    BY DEF GrownSince
  <2>1. i \in 1 .. Len(trace)
    BY <1>3, <1>5 DEF IsRead
  <2>2. IsRead(i, b) /\ Unwritten(i, b) /\ b # a /\ ~Quiet(i)'
    BY <1>1, <1>2, <1>3, <2>1, EarlierPremises DEF DummyTypeOK
  <2>3. values[b] - trace[i].value <= lastAccess - trace[i].at
    BY <1>1, <2>1, <2>2 DEF GrownSince
  <2>4. /\ trace'[i] = trace[i] /\ trace[i].value \in Nat /\ trace[i].at \in Nat
        /\ values'[b] = values[b] /\ values[b] \in Nat /\ lastAccess \in Nat
    BY <1>1, <1>4, <1>5, <2>1, <2>2 DEF DummyTypeOK, DummyEntry
  <2>5. values[b] - trace[i].value <= lastAccess' - trace[i].at
    BY <1>4, <2>3, <2>4, LaterAccess
  <2> QED
    BY <2>2, <2>4, <2>5
<1> QED
  BY <1>6, <1>7, <1>8 DEF DummyInv

LEMMA DummyIdle == ASSUME DummyInv, Dummy!Tick \/ UNCHANGED Dummy!vars PROVE DummyInv'
<1>1. /\ DummyTypeOK /\ GrownSince /\ Dummy!NoTimeTwice
      /\ values' = values /\ lastAccess' = lastAccess /\ trace' = trace
      /\ now' = now \/ now' = now + 1
  BY DEF DummyInv, Dummy!Tick, Dummy!vars
<1>2. DummyTypeOK'
  BY <1>1 DEF DummyTypeOK
<1>3. GrownSince'
  BY <1>1 DEF GrownSince, IsRead, Unwritten, Quiet
<1>4. Dummy!NoTimeTwice'
  BY <1>1 DEF Dummy!NoTimeTwice, Dummy!Reads, Dummy!Between
<1> QED
  BY <1>2, <1>3, <1>4 DEF DummyInv

LEMMA DummyInductive ==
    ASSUME Dummy!DummyAssumption, DummyInv, Dummy!Next \/ UNCHANGED Dummy!vars
    PROVE  DummyInv'
<1>1. Written \subseteq Nat
  BY DEF Dummy!DummyAssumption
<1>2. CASE Dummy!Tick \/ UNCHANGED Dummy!vars
  BY <1>2, DummyIdle
<1>3. CASE \E attr \in Dummy!Attr : Dummy!Read(attr) \/ Dummy!Readv(attr)
  BY <1>3, DummyRead, DummyReadv
<1>4. CASE \E attr \in Dummy!Attr, v \in Written : Dummy!Write(attr, v) \/ Dummy!Writev(attr, v)
  BY <1>1, <1>4, DummyWrite
<1> QED
  BY <1>2, <1>3, <1>4 DEF Dummy!Next

\* No interval is counted twice in what dummy_dev_read (dummy_dev.c:71) gives,
\* however long a handle is used and whatever is written to it.
THEOREM DummyCorrect ==
    ASSUME Dummy!DummyAssumption
    PROVE  Dummy!Spec => []Dummy!NoTimeTwice
<1>1. DummyInv /\ [Dummy!Next]_Dummy!vars => DummyInv'
  BY DummyInductive
<1>2. DummyInv => Dummy!NoTimeTwice
  BY DEF DummyInv
<1> QED
  BY DummyInit, <1>1, <1>2, PTL DEF Dummy!Spec
-----------------------------------------------------------------------------
(* Rapl: the packages that init finds.                                     *)

Systems == Seq(Nat)

\* A cpu below n, or NULL.
Device(n) == (0 .. (n - 1)) \cup {Nothing}

\* The loop of pwr_rapldev_init, one cpu further.
FoundStep(ok, found, k) ==
    IF Rapl!NewPackage(found, k)
    THEN Append(found, Rapl!InitPackage(Len(found), ok[Len(found)])) ELSE found

\* The equation of the fold over some of the cpus.
FoundAt(ok, f, s) == IF s = {} THEN <<>> ELSE FoundStep(ok, f[Rest(s)], Last(s))
FoundFold(ok, t, f) == [s \in SUBSET t |-> FoundAt(ok, f, s)]

LEMMA RestOf ==
    ASSUME NEW n \in Nat, NEW t \in SUBSET (1 .. n), NEW u \in SUBSET t, u # {}
    PROVE  /\ t # {} /\ Last(t) \in t /\ Last(u) \in u
           /\ Rest(u) \subseteq Rest(t) /\ Rest(u) # u
           /\ ~(u \subseteq Rest(t)) => Last(u) = Last(t)
<1>1. t # {} /\ u \in SUBSET (1 .. n)
  OBVIOUS
<1>2. Last(t) \in t /\ \A i \in t : i <= Last(t)
  BY <1>1, LastExists
<1>3. Last(u) \in u /\ \A i \in u : i <= Last(u)
  BY <1>1, LastExists
<1>4. PICK a \in 1 .. n : a = Last(t)
  BY <1>2
<1>5. PICK b \in 1 .. n : b = Last(u)
  BY <1>1, <1>3
<1>6. a \in u => a = b
  BY <1>2, <1>3, <1>4, <1>5
<1>7. a \in t /\ b \in u /\ (\A i \in u : i \in t)
  BY <1>2, <1>3, <1>4, <1>5
<1>8. u \ {b} \subseteq t \ {a} /\ (~(u \subseteq t \ {a}) => a \in u)
  BY <1>6
<1> QED
  BY <1>1, <1>4, <1>5, <1>6, <1>7, <1>8 DEF Rest

\* There is a function that meets the equation.
LEMMA FoundExists ==
    ASSUME NEW ok, NEW n \in Nat
    PROVE  \E f : f = FoundFold(ok, 1 .. n, f)
<1> DEFINE A == {t \in SUBSET (1 .. n) : ~ \E f : f = FoundFold(ok, t, f)}
<1>1. A \subseteq SUBSET (1 .. n)
      /\ \A t \in SUBSET (1 .. n) : t \in A <=> ~ \E f : f = FoundFold(ok, t, f)
  OBVIOUS
<1> HIDE DEF A
<1>2. ASSUME A # {} PROVE FALSE
  <2>1. IsFiniteSet(1 .. n)
    BY FS_Interval
  <2>2. PICK t \in A : \A x \in t : t \ {x} \notin A
    BY <1>1, <1>2, <2>1, SmallestSubset, Zenon
  <2>3. t \in SUBSET (1 .. n)
    BY <1>1, <2>2
  <2>4. CASE t = {}
    <3> DEFINE f == [s \in SUBSET t |-> <<>>]
    <3>1. \A s \in SUBSET t : FoundAt(ok, f, s) = <<>>
      BY <2>4 DEF FoundAt
    <3>2. f = FoundFold(ok, t, f)
      BY <3>1 DEF FoundFold
    <3> QED
      BY <1>1, <2>2, <3>2
  <2>5. CASE t # {}
    <3>1. Last(t) \in t
      BY <2>3, <2>5, RestOf
    <3>2. Rest(t) \notin A /\ Rest(t) \in SUBSET (1 .. n)
      BY <2>2, <2>3, <3>1 DEF Rest
    <3>3. PICK g : g = FoundFold(ok, Rest(t), g)
      BY <1>1, <3>2
    <3> DEFINE f == [s \in SUBSET t |->
                        IF s \subseteq Rest(t) THEN g[s] ELSE FoundStep(ok, g[Rest(s)], Last(t))]
    <3>4. ASSUME NEW s \in SUBSET t PROVE f[s] = FoundAt(ok, f, s)
      <4>1. CASE s \subseteq Rest(t)
        <5>1. f[s] = g[s] /\ g[s] = FoundAt(ok, g, s)
          BY <3>3, <4>1 DEF FoundFold
        <5>2. s # {} => Rest(s) \subseteq Rest(t) /\ Rest(s) \in SUBSET t
          BY <2>3, RestOf DEF Rest
        <5>3. s # {} => f[Rest(s)] = g[Rest(s)]
          BY <5>2
        <5> HIDE DEF f
        <5> QED
          BY <5>1, <5>3 DEF FoundAt
      <4>2. CASE ~(s \subseteq Rest(t))
        <5>1. s # {}
          BY <4>2
        <5>2. /\ Rest(s) \subseteq Rest(t) /\ Rest(s) \in SUBSET t /\ Last(s) = Last(t)
          BY <2>3, <4>2, <5>1, RestOf DEF Rest
        <5>3. f[Rest(s)] = g[Rest(s)] /\ f[s] = FoundStep(ok, g[Rest(s)], Last(t))
          BY <4>2, <5>2
        <5> HIDE DEF f
        <5> QED
          BY <5>1, <5>2, <5>3 DEF FoundAt
      <4> QED
        BY <4>1, <4>2
    <3>5. f = FoundFold(ok, t, f)
      BY <3>4 DEF FoundFold
    <3> QED
      BY <1>1, <2>2, <3>5
  <2> QED
    BY <2>4, <2>5
<1> QED
  BY <1>1, <1>2

\* What is found among the cpus up to the last of s.
FoundSome(n, s, found) ==
    /\ found \in Seq(Device(n))
    /\ IF s = {} THEN Len(found) = 0 ELSE Len(found) <= Last(s)

LEMMA FoundGrows ==
    ASSUME NEW ok, NEW n \in Nat, NEW s \in SUBSET (1 .. n), s # {},
           NEW found, FoundSome(n, Rest(s), found)
    PROVE  FoundSome(n, s, FoundStep(ok, found, Last(s)))
<1>1. PICK x \in 1 .. n : x = Last(s)
  BY RestOf
<1>2. found \in Seq(Device(n)) /\ Len(found) \in Nat
  BY LenProperties DEF FoundSome
<1>3. Len(found) < x
  <2>1. CASE Rest(s) = {}
    BY <1>2, <2>1 DEF FoundSome
  <2>2. CASE Rest(s) # {}
    <3>1. Rest(s) \in SUBSET (1 .. n)
      BY DEF Rest
    <3>2. Last(Rest(s)) \in Rest(s)
      BY <2>2, <3>1, RestOf
    <3>3. Last(Rest(s)) \in s /\ Last(Rest(s)) # x
      BY <1>1, <3>2 DEF Rest
    <3>4. PICK y \in 1 .. n : y = Last(Rest(s))
      BY <3>3
    <3>5. \A i \in s : i <= Last(s)
      BY LastExists
    <3>6. Len(found) <= y /\ y < x
      BY <1>1, <2>2, <3>3, <3>4, <3>5 DEF FoundSome
    <3> QED
      BY <1>2, <3>6
  <2> QED
    BY <2>1, <2>2
<1>4. CASE Rapl!NewPackage(found, x)
  <2> DEFINE e == Rapl!InitPackage(Len(found), ok[Len(found)])
  <2>1. e \in Device(n)
    BY <1>2, <1>3 DEF Rapl!InitPackage, Device
  <2> HIDE DEF e
  <2>2. Append(found, e) \in Seq(Device(n)) /\ Len(Append(found, e)) = Len(found) + 1
    BY <1>2, <2>1, AppendProperties
  <2>3. FoundStep(ok, found, x) = Append(found, e)
    BY <1>4 DEF FoundStep, e
  <2> DEFINE r == FoundStep(ok, found, Last(s))
  <2>4. r = Append(found, e)
    BY <1>1, <2>3
  <2> HIDE DEF r
  <2>5. r \in Seq(Device(n)) /\ Len(r) <= x
    BY <1>2, <1>3, <2>2, <2>4
  <2>6. FoundSome(n, s, r)
    BY <1>1, <2>5 DEF FoundSome
  <2> QED
    BY <2>6 DEF r
<1>5. CASE ~ Rapl!NewPackage(found, x)
  <2>1. FoundStep(ok, found, x) = found
    BY <1>5 DEF FoundStep
  <2> DEFINE r == FoundStep(ok, found, Last(s))
  <2>2. r = found
    BY <1>1, <2>1
  <2> HIDE DEF r
  <2>3. r \in Seq(Device(n)) /\ Len(r) <= x
    BY <1>2, <1>3, <2>2
  <2>4. FoundSome(n, s, r)
    BY <1>1, <2>3 DEF FoundSome
  <2> QED
    BY <2>4 DEF r
<1> QED
  BY <1>1, <1>4, <1>5

LEMMA FoundOfFold ==
    ASSUME NEW ok, NEW n \in Nat, NEW f, f = FoundFold(ok, 1 .. n, f),
           NEW s \in SUBSET (1 .. n)
    PROVE  FoundSome(n, s, f[s])
<1> DEFINE A == {t \in SUBSET (1 .. n) : ~ FoundSome(n, t, f[t])}
<1>1. A \subseteq SUBSET (1 .. n)
      /\ \A t \in SUBSET (1 .. n) : t \in A <=> ~ FoundSome(n, t, f[t])
  OBVIOUS
<1> HIDE DEF A
<1>2. ASSUME A # {} PROVE FALSE
  <2>1. IsFiniteSet(1 .. n)
    BY FS_Interval
  <2>2. PICK t \in A : \A x \in t : t \ {x} \notin A
    BY <1>1, <1>2, <2>1, SmallestSubset, Zenon
  <2>3. t \in SUBSET (1 .. n)
    BY <1>1, <2>2
  <2>4. f[t] = FoundAt(ok, f, t)
    BY <2>3 DEF FoundFold
  <2>5. CASE t = {}
    <3>1. f[t] = <<>>
      BY <2>4, <2>5 DEF FoundAt
    <3>2. FoundSome(n, t, f[t])
      BY <2>5, <3>1, EmptySeq DEF FoundSome
    <3> QED
      BY <1>1, <2>2, <3>2
  <2>6. CASE t # {}
    <3>1. Last(t) \in t /\ Rest(t) \in SUBSET (1 .. n)
      BY <2>3, <2>6, RestOf DEF Rest
    <3>2. Rest(t) \notin A
      BY <2>2, <3>1 DEF Rest
    <3>3. FoundSome(n, Rest(t), f[Rest(t)])
      BY <1>1, <3>1, <3>2
    <3>4. FoundSome(n, t, f[t])
      BY <2>3, <2>4, <2>6, <3>3, FoundGrows DEF FoundAt
    <3> QED
      BY <1>1, <2>2, <3>4
  <2> QED
    BY <2>5, <2>6
<1> QED
  BY <1>1, <1>2

\* The devices that init finds are NULL or cpus of the system.
LEMMA FoundAreCpus ==
    ASSUME NEW ok, packageOf \in Systems
    PROVE  Rapl!Found(ok) \in Seq(Device(Len(packageOf)))
<1> DEFINE n == Len(packageOf)
           seq == [k \in 1 .. n |-> k]
           Raw(f) == [s \in SUBSET (DOMAIN seq) |->
                        IF s = {} THEN <<>>
                        ELSE IF Rapl!NewPackage(f[s \ {CHOOSE x \in s : \A y \in s : x >= y}],
                                                seq[CHOOSE x \in s : \A y \in s : x >= y])
                        THEN Append(f[s \ {CHOOSE x \in s : \A y \in s : x >= y}],
                                    Rapl!InitPackage(
                                        Len(f[s \ {CHOOSE x \in s : \A y \in s : x >= y}]),
                                        ok[Len(f[s \ {CHOOSE x \in s : \A y \in s : x >= y}])]))
                        ELSE f[s \ {CHOOSE x \in s : \A y \in s : x >= y}]]
           iter == CHOOSE f : f = Raw(f)
<1>1. Rapl!Found(ok) = iter[DOMAIN seq]
  BY DEF Rapl!Found, Rapl!FoldLeft, Rapl!MapThenFoldSet, Rapl!Max
<1>2. n \in Nat
  BY LenProperties DEF Systems
<1> HIDE DEF n
<1>3. DOMAIN seq = 1 .. n
  OBVIOUS
<1>4. ASSUME NEW f PROVE Raw(f) = FoundFold(ok, 1 .. n, f)
  <2> DEFINE L(s) == CHOOSE x \in s : \A y \in s : x >= y
             At(s) == IF s = {} THEN <<>> ELSE FoundStep(ok, f[s \ {L(s)}], seq[L(s)])
  <2>1. Raw(f) = [s \in SUBSET (DOMAIN seq) |-> At(s)]
    BY DEF FoundStep
  <2>2. ASSUME NEW s \in SUBSET (1 .. n) PROVE At(s) = FoundAt(ok, f, s)
    <3>1. L(s) = Last(s)
      BY DEF Last
    <3> HIDE DEF L
    <3>2. s # {} => Last(s) \in 1 .. n
      BY <1>2, RestOf
    <3>3. s # {} => seq[L(s)] = Last(s)
      BY <3>1, <3>2
    <3> HIDE DEF seq
    <3> QED
      BY <3>1, <3>3 DEF Rest, FoundAt
  <2> HIDE DEF Raw, At, seq
  <2> QED
    BY <1>3, <2>1, <2>2 DEF FoundFold
<1> HIDE DEF Raw
<1>5. iter = Raw(iter)
  <2>1. PICK f : f = FoundFold(ok, 1 .. n, f)
    BY <1>2, FoundExists
  <2>2. f = Raw(f)
    BY <1>4, <2>1
  <2> QED
    BY <2>2
<1> HIDE DEF iter
<1>6. iter = FoundFold(ok, 1 .. n, iter)
  BY <1>4, <1>5
<1>7. FoundSome(n, 1 .. n, iter[1 .. n])
  BY <1>2, <1>6, FoundOfFold
<1> QED
  BY <1>1, <1>3, <1>7 DEF FoundSome, n
-----------------------------------------------------------------------------
(* Rapl: what a read adds up.                                              *)

Consumptions == [Rapl!Package -> [Rapl!Domain -> Nat]]
Before(a, b) == \A p \in Rapl!Package, d \in Rapl!Domain : a[p][d] <= b[p][d]

\* The counters behind the layers: PP0 of a socket, and Second.
Second == Rapl!DomainOf("pp1")
Turns == IF fd.type = "SOCKET" THEN 2 ELSE 1

\* The energy after some turns of the loop is that of a moment between from and to, of
\* each layer.
Gathered(e, pc, from, to) ==
    \E x \in Nat, y \in Nat :
        /\ from[Rapl!Own]["PP0"] <= x /\ x <= to[Rapl!Own]["PP0"]
        /\ from[Rapl!Own][Second] <= y /\ y <= to[Rapl!Own][Second]
        /\ e = (IF fd.type = "SOCKET" /\ pc > 1 THEN x % Counts ELSE 0)
                  + (IF pc > Turns THEN y % Counts ELSE 0)

RaplTypes ==
    /\ packageOf \in Systems /\ consumed \in Consumptions
    /\ pkgs \in Seq(Device(Len(packageOf)))
    /\ fd # Nothing => fd \in [type : Rapl!Type, index : Nat, dev : Device(Len(packageOf))]

RaplCall ==
    \/ call = [pc |-> 0]
    \/ /\ call \in [pc : 1 .. Turns + 1, energy : Nat, before : Consumptions]
       /\ fd # Nothing /\ fd.dev # Nothing
       /\ Before(call.before, consumed)
       /\ Gathered(call.energy, call.pc, call.before, consumed)

RaplReadings == [energy : Nat \cup {Nothing}, before : Consumptions, after : Consumptions]
GoodRead(r) ==
    /\ r \in RaplReadings
    /\ Before(r.before, r.after) /\ Before(r.after, consumed)
    /\ r.energy # Nothing => Gathered(r.energy, Turns + 1, r.before, r.after)
    /\ call.pc > 0 => Before(r.after, call.before)

\* The reads of a handle follow each other.
RaplReads ==
    /\ reads # <<>> => fd # Nothing /\ fd.dev # Nothing
    /\ reads \in Seq(RaplReadings)
    /\ \A i \in DOMAIN reads : GoodRead(reads[i])
    /\ \A i, j \in DOMAIN reads : i < j => Before(reads[i].after, reads[j].before)

RaplInv == RaplTypes /\ RaplCall /\ RaplReads

LEMMA GatheredBy ==
    ASSUME NEW e, NEW k, NEW from, NEW to, NEW x \in Nat, NEW y \in Nat,
           from[Rapl!Own]["PP0"] <= x, x <= to[Rapl!Own]["PP0"],
           from[Rapl!Own][Second] <= y, y <= to[Rapl!Own][Second],
           e = (IF fd.type = "SOCKET" /\ k > 1 THEN x % Counts ELSE 0)
                  + (IF k > Turns THEN y % Counts ELSE 0)
    PROVE  Gathered(e, k, from, to)
  BY DEF Gathered

LEMMA SecondIs ==
    /\ Second \in Rapl!Domain /\ Second # "PP0"
    /\ Rapl!DomainOf("pp0") = "PP0"
  BY DEF Second, Rapl!DomainOf, Rapl!Domain

LEMMA OwnIsPackage ==
    ASSUME Rapl!RaplAssumption, RaplTypes, fd # Nothing, fd.dev # Nothing
    PROVE  Rapl!Own \in Rapl!Package
<1>1. packageOf \in Seq(Nat) /\ Len(packageOf) \in Nat /\ DOMAIN packageOf = 1 .. Len(packageOf)
  BY LenProperties DEF RaplTypes, Systems
<1>2. fd.dev \in 0 .. Len(packageOf) - 1
  BY <1>1 DEF RaplTypes, Device
<1>3. fd.dev + 1 \in DOMAIN packageOf
  BY <1>1, <1>2
<1> QED
  BY <1>3 DEF Rapl!Own, Rapl!Package, Rapl!Range

LEMMA BeforeMore ==
    ASSUME NEW a \in Consumptions, NEW b \in Consumptions, NEW c \in Consumptions,
           Before(a, b), Before(b, c)
    PROVE  Before(a, c)
<1> SUFFICES ASSUME NEW p \in Rapl!Package, NEW d \in Rapl!Domain
             PROVE  a[p][d] <= c[p][d]
  BY DEF Before
<1>1. a[p][d] \in Nat /\ b[p][d] \in Nat /\ c[p][d] \in Nat
  BY DEF Consumptions
<1>2. a[p][d] <= b[p][d] /\ b[p][d] <= c[p][d]
  BY DEF Before
<1> QED
  BY <1>1, <1>2

\* What was gathered up to a moment was gathered up to a later one.
LEMMA GatheredMore ==
    ASSUME NEW a \in Consumptions, NEW b \in Consumptions, NEW c \in Consumptions,
           Before(b, c), NEW e, NEW k, Gathered(e, k, a, b), Rapl!Own \in Rapl!Package
    PROVE  Gathered(e, k, a, c)
<1>1. "PP0" \in Rapl!Domain /\ Second \in Rapl!Domain
  BY SecondIs DEF Rapl!Domain
<1>2. /\ b[Rapl!Own]["PP0"] <= c[Rapl!Own]["PP0"] /\ b[Rapl!Own][Second] <= c[Rapl!Own][Second]
      /\ b[Rapl!Own]["PP0"] \in Nat /\ b[Rapl!Own][Second] \in Nat
      /\ c[Rapl!Own]["PP0"] \in Nat /\ c[Rapl!Own][Second] \in Nat
  BY <1>1 DEF Before, Consumptions
<1>3. PICK x \in Nat, y \in Nat :
        /\ a[Rapl!Own]["PP0"] <= x /\ x <= b[Rapl!Own]["PP0"]
        /\ a[Rapl!Own][Second] <= y /\ y <= b[Rapl!Own][Second]
        /\ e = (IF fd.type = "SOCKET" /\ k > 1 THEN x % Counts ELSE 0)
                  + (IF k > Turns THEN y % Counts ELSE 0)
  BY DEF Gathered
<1>4. x <= c[Rapl!Own]["PP0"] /\ y <= c[Rapl!Own][Second]
  BY <1>2, <1>3
<1> QED
  BY <1>3, <1>4 DEF Gathered

LEMMA BeforeItself == ASSUME NEW a \in Consumptions PROVE Before(a, a)
<1>1. \A p \in Rapl!Package, d \in Rapl!Domain : a[p][d] \in Nat
  BY DEF Consumptions
<1> QED
  BY <1>1 DEF Before

LEMMA RaplStarted == ASSUME Rapl!RaplAssumption, Rapl!RaplInit PROVE RaplInv
<1>1. packageOf \in Systems
  BY DEF Rapl!RaplAssumption, Rapl!RaplInit, Systems
<1>2. consumed \in Consumptions
  BY DEF Rapl!RaplInit, Rapl!Boot, Consumptions
<1>3. pkgs \in Seq(Device(Len(packageOf)))
  BY <1>1, FoundAreCpus DEF Rapl!RaplInit
<1>4. fd = Nothing /\ call = [pc |-> 0] /\ reads = <<>>
  BY DEF Rapl!RaplInit
<1>5. reads \in Seq(RaplReadings) /\ DOMAIN reads = {}
  BY <1>4, EmptySeq
<1> QED
  BY <1>1, <1>2, <1>3, <1>4, <1>5 DEF RaplInv, RaplTypes, RaplCall, RaplReads

LEMMA RaplConsume ==
    ASSUME Rapl!RaplAssumption, RaplInv, NEW p \in Rapl!Package, NEW d \in Rapl!Domain,
           Rapl!Consume(p, d)
    PROVE  RaplInv'
<1>1. /\ consumed' = [consumed EXCEPT ![p][d] = @ + 1] /\ packageOf' = packageOf
      /\ pkgs' = pkgs /\ fd' = fd /\ call' = call /\ reads' = reads
  BY DEF Rapl!Consume
<1>2. RaplTypes /\ consumed \in Consumptions
  BY DEF RaplInv, RaplTypes
<1>3. Consumptions' = Consumptions /\ Rapl!Package' = Rapl!Package /\ Rapl!Own' = Rapl!Own
      /\ Turns' = Turns /\ RaplReadings' = RaplReadings
  BY <1>1 DEF Consumptions, RaplReadings, Rapl!Package, Rapl!Own, Turns, Rapl!Range
<1>4. consumed' \in Consumptions
  BY <1>1, <1>2 DEF Consumptions
<1>5. Before(consumed, consumed')
  <2> SUFFICES ASSUME NEW q \in Rapl!Package, NEW e \in Rapl!Domain
               PROVE  consumed[q][e] <= consumed'[q][e]
    BY DEF Before
  <2>1. consumed[q][e] \in Nat
    BY <1>2 DEF Consumptions
  <2>2. consumed'[q][e] = consumed[q][e] \/ consumed'[q][e] = consumed[q][e] + 1
    BY <1>1, <1>2 DEF Consumptions
  <2> QED
    BY <2>1, <2>2
<1>6. RaplTypes'
  BY <1>1, <1>2, <1>3, <1>4 DEF RaplTypes
<1>7. ASSUME NEW a \in Consumptions, Before(a, consumed) PROVE Before(a, consumed)'
  <2>1. Before(a, consumed')
    BY <1>2, <1>4, <1>5, <1>7, BeforeMore
  <2> QED
    BY <1>3, <2>1 DEF Before
<1>8. RaplCall'
  <2>1. CASE call = [pc |-> 0]
    BY <1>1, <2>1 DEF RaplCall
  <2>2. CASE call # [pc |-> 0]
    <3>1. /\ call \in [pc : 1 .. Turns + 1, energy : Nat, before : Consumptions]
          /\ fd # Nothing /\ fd.dev # Nothing
          /\ Before(call.before, consumed)
          /\ Gathered(call.energy, call.pc, call.before, consumed)
      BY <2>2 DEF RaplInv, RaplCall
    <3>2. Rapl!Own \in Rapl!Package
      BY <1>2, <3>1, OwnIsPackage
    <3>3. call.before \in Consumptions
      BY <3>1
    <3>4. Gathered(call.energy, call.pc, call.before, consumed')
      BY <1>2, <1>4, <1>5, <3>1, <3>2, <3>3, GatheredMore
    <3>5. Gathered(call.energy, call.pc, call.before, consumed)'
      BY <1>1, <1>3, <3>4 DEF Gathered, Second, Rapl!DomainOf
    <3>6. Before(call.before, consumed)'
      BY <1>1, <1>7, <3>1, <3>3
    <3> QED
      BY <1>1, <1>3, <3>1, <3>5, <3>6 DEF RaplCall
  <2> QED
    BY <2>1, <2>2
<1>9. RaplReads'
  <2>1. RaplReads
    BY DEF RaplInv
  <2>2. ASSUME NEW r, GoodRead(r) PROVE GoodRead(r)'
    <3>1. r.after \in Consumptions
      BY <2>2 DEF GoodRead, RaplReadings
    <3>2. Before(r.after, consumed)'
      BY <1>7, <2>2, <3>1 DEF GoodRead
    <3> QED
      BY <1>1, <1>3, <2>2, <3>2 DEF GoodRead, Gathered, Second, Rapl!DomainOf, Before
  <2> QED
    BY <1>1, <1>3, <2>1, <2>2 DEF RaplReads, Before
<1> QED
  BY <1>6, <1>8, <1>9 DEF RaplInv

\* What does not change with a step that keeps the system and the handle.
LEMMA SameHandle ==
    ASSUME packageOf' = packageOf, fd' = fd
    PROVE  /\ Consumptions' = Consumptions /\ Rapl!Package' = Rapl!Package
           /\ Rapl!Own' = Rapl!Own /\ Turns' = Turns /\ RaplReadings' = RaplReadings
           /\ Second' = Second
           /\ \A a, b : Before(a, b) <=> \A p \in Rapl!Package', d \in Rapl!Domain : a[p][d] <= b[p][d]
  BY DEF Consumptions, RaplReadings, Rapl!Package, Rapl!Own, Turns, Rapl!Range, Second, Before,
     Rapl!DomainOf

LEMMA RaplOpen ==
    ASSUME Rapl!RaplAssumption, RaplInv, NEW type \in Rapl!Type, NEW index \in Nat,
           Rapl!Open(type, index)
    PROVE  RaplInv'
<1>1. /\ fd = Nothing /\ index < Len(pkgs)
      /\ fd' = [type |-> type, index |-> index, dev |-> pkgs[index + 1]]
      /\ packageOf' = packageOf /\ consumed' = consumed /\ pkgs' = pkgs /\ call' = call
      /\ reads' = reads
  BY DEF Rapl!Open, Rapl!CanOpen
<1>2. RaplTypes /\ call = [pc |-> 0] /\ reads = <<>>
  BY <1>1 DEF RaplInv, RaplCall, RaplReads
<1>3. pkgs \in Seq(Device(Len(packageOf))) /\ Len(pkgs) \in Nat
  BY <1>2, LenProperties DEF RaplTypes
<1>4. index + 1 \in 1 .. Len(pkgs)
  BY <1>1, <1>3
<1>5. pkgs[index + 1] \in Device(Len(packageOf))
  BY <1>3, <1>4, ElementOfSeq
<1>6. RaplTypes'
  BY <1>1, <1>2, <1>5 DEF RaplTypes, Consumptions, Rapl!Package, Rapl!Range
<1>7. reads' \in Seq(RaplReadings)' /\ DOMAIN reads' = {}
  BY <1>1, <1>2, EmptySeq
<1> QED
  BY <1>1, <1>2, <1>6, <1>7 DEF RaplInv, RaplCall, RaplReads

LEMMA RaplClose ==
    ASSUME RaplInv, Rapl!Close
    PROVE  RaplInv'
<1>1. /\ call.pc = 0 /\ fd' = Nothing /\ reads' = <<>>
      /\ packageOf' = packageOf /\ consumed' = consumed /\ pkgs' = pkgs /\ call' = call
  BY DEF Rapl!Close
<1>2. RaplTypes /\ call = [pc |-> 0]
  <2>1. CASE call \in [pc : 1 .. Turns + 1, energy : Nat, before : Consumptions]
    <3>1. call.pc \in 1 .. Turns + 1
      BY <2>1
    <3> QED
      BY <1>1, <3>1
  <2> QED
    BY <2>1 DEF RaplInv, RaplCall
<1>3. RaplTypes'
  BY <1>1, <1>2 DEF RaplTypes, Consumptions, Rapl!Package, Rapl!Range
<1>4. reads' \in Seq(RaplReadings)' /\ DOMAIN reads' = {}
  BY <1>1, EmptySeq
<1> QED
  BY <1>1, <1>2, <1>3, <1>4 DEF RaplInv, RaplCall, RaplReads

LEMMA RaplRead ==
    ASSUME Rapl!RaplAssumption, RaplInv, Rapl!Read
    PROVE  RaplInv'
<1>1. /\ fd # Nothing /\ fd.dev # Nothing /\ call.pc = 0
      /\ call' = [pc |-> 1, energy |-> 0, before |-> consumed]
      /\ packageOf' = packageOf /\ consumed' = consumed /\ pkgs' = pkgs /\ fd' = fd
      /\ reads' = reads
  BY DEF Rapl!Read
<1>2. RaplTypes /\ consumed \in Consumptions /\ RaplReads
  BY DEF RaplInv, RaplTypes
<1>3. Rapl!Own \in Rapl!Package
  BY <1>1, <1>2, OwnIsPackage
<1>4. consumed[Rapl!Own]["PP0"] \in Nat /\ consumed[Rapl!Own][Second] \in Nat
  BY <1>2, <1>3, SecondIs DEF Consumptions, Rapl!Domain
<1>5. Turns \in {1, 2}
  BY DEF Turns
<1>6. Gathered(0, 1, consumed, consumed)
  BY <1>4, <1>5 DEF Gathered
<1>7. RaplTypes'
  BY <1>1, <1>2 DEF RaplTypes, Consumptions, Rapl!Package, Rapl!Range
<1>8. Before(consumed, consumed)
  BY <1>2, BeforeItself
<1>9. RaplCall'
  <2>1. /\ call' \in [pc : 1 .. Turns + 1, energy : Nat, before : Consumptions]
        /\ call'.before = consumed /\ call'.energy = 0 /\ call'.pc = 1
    BY <1>1, <1>2, <1>5
  <2>2. Gathered(call.energy, call.pc, call.before, consumed)'
    BY <1>1, <1>6, <2>1, SameHandle DEF Gathered
  <2>3. Before(call.before, consumed)'
    BY <1>1, <1>8, <2>1, SameHandle DEF Before
  <2> QED
    BY <1>1, <2>1, <2>2, <2>3, SameHandle DEF RaplCall
<1>10. RaplReads'
  <2>1. ASSUME NEW r, GoodRead(r) PROVE GoodRead(r)'
    <3>1. call'.before = consumed
      BY <1>1
    <3> QED
      BY <1>1, <2>1, <3>1, SameHandle DEF GoodRead, Gathered, Before
  <2> QED
    BY <1>1, <1>2, <2>1, SameHandle DEF RaplReads, Before
<1> QED
  BY <1>7, <1>9, <1>10 DEF RaplInv

\* The turns of the loop: a socket has the layers pp0 and pp1, a memory pp1.
LEMMA LayersAre ==
    ASSUME RaplTypes, fd # Nothing
    PROVE  /\ Len(Rapl!Layers(fd.type)) = Turns
           /\ fd.type = "SOCKET" => /\ Rapl!DomainOf(Rapl!Layers(fd.type)[1]) = "PP0"
                                    /\ Rapl!DomainOf(Rapl!Layers(fd.type)[2]) = Second
           /\ fd.type # "SOCKET" => Rapl!DomainOf(Rapl!Layers(fd.type)[1]) = Second
<1>1. CASE fd.type = "SOCKET"
  <2>1. Rapl!Layers(fd.type) = <<"pp0", "pp1">> /\ Turns = 2
    BY <1>1 DEF Rapl!Layers, Turns
  <2>2. Rapl!DomainOf("pp0") = "PP0" /\ Rapl!DomainOf("pp1") = Second
    BY SecondIs DEF Second
  <2> QED
    BY <1>1, <2>1, <2>2
<1>2. CASE fd.type # "SOCKET"
  <2>1. Rapl!Layers(fd.type) = <<"pp1">> /\ Turns = 1
    BY <1>2 DEF Rapl!Layers, Turns
  <2>2. Rapl!DomainOf("pp1") = Second
    BY DEF Second
  <2> QED
    BY <1>2, <2>1, <2>2
<1> QED
  BY <1>1, <1>2

LEMMA CallInProgress ==
    ASSUME RaplInv, call.pc > 0
    PROVE  /\ call \in [pc : 1 .. Turns + 1, energy : Nat, before : Consumptions]
           /\ fd # Nothing /\ fd.dev # Nothing
           /\ Before(call.before, consumed)
           /\ Gathered(call.energy, call.pc, call.before, consumed)
<1>1. call # [pc |-> 0]
  OBVIOUS
<1> QED
  BY <1>1 DEF RaplInv, RaplCall

LEMMA RemainderIsNat ==
    ASSUME Rapl!RaplAssumption, NEW x \in Nat PROVE x % Counts \in Nat
<1>1. Counts \in Nat \ {0}
  BY DEF Rapl!RaplAssumption
<1>2. x % Counts \in 0 .. (Counts - 1)
  BY <1>1, Quotients
<1> QED
  BY <1>1, <1>2

\* One more layer is read.
LEMMA GatheredTurn ==
    ASSUME Rapl!RaplAssumption, RaplInv, call.pc > 0, call.pc <= Turns,
           NEW e, e = call.energy
               + (consumed[Rapl!Own][Rapl!DomainOf(Rapl!Layers(fd.type)[call.pc])] % Counts)
    PROVE  e \in Nat /\ Gathered(e, call.pc + 1, call.before, consumed)
<1>1. /\ call \in [pc : 1 .. Turns + 1, energy : Nat, before : Consumptions]
      /\ fd # Nothing /\ fd.dev # Nothing /\ Before(call.before, consumed)
      /\ Gathered(call.energy, call.pc, call.before, consumed)
  BY CallInProgress
<1>2. RaplTypes /\ consumed \in Consumptions /\ call.before \in Consumptions
  BY <1>1 DEF RaplInv, RaplTypes
<1>3. Rapl!Own \in Rapl!Package
  BY <1>1, <1>2, OwnIsPackage
<1>4. "PP0" \in Rapl!Domain /\ Second \in Rapl!Domain
  BY SecondIs DEF Rapl!Domain
<1>5. PICK a \in Nat : a = consumed[Rapl!Own]["PP0"]
  BY <1>2, <1>3, <1>4 DEF Consumptions
<1>6. PICK b \in Nat : b = consumed[Rapl!Own][Second]
  BY <1>2, <1>3, <1>4 DEF Consumptions
<1>7. PICK a0 \in Nat : a0 = call.before[Rapl!Own]["PP0"]
  BY <1>2, <1>3, <1>4 DEF Consumptions
<1>8. PICK b0 \in Nat : b0 = call.before[Rapl!Own][Second]
  BY <1>2, <1>3, <1>4 DEF Consumptions
<1>9. a0 <= a /\ b0 <= b
  BY <1>1, <1>3, <1>4, <1>5, <1>6, <1>7, <1>8 DEF Before
<1>10. PICK x \in Nat, y \in Nat :
        /\ a0 <= x /\ x <= a /\ b0 <= y /\ y <= b
        /\ call.energy = (IF fd.type = "SOCKET" /\ call.pc > 1 THEN x % Counts ELSE 0)
                            + (IF call.pc > Turns THEN y % Counts ELSE 0)
  BY <1>1, <1>5, <1>6, <1>7, <1>8 DEF Gathered
<1>11. PICK k \in Nat : k = call.pc /\ k >= 1 /\ k <= Turns /\ ~(k > Turns)
  BY <1>1 DEF Turns
<1>12. a % Counts \in Nat /\ b % Counts \in Nat /\ x % Counts \in Nat
  BY RemainderIsNat
<1>13. PICK ra \in Nat : ra = a % Counts
  BY <1>12
<1>14. PICK rb \in Nat : rb = b % Counts
  BY <1>12
<1>15. PICK rx \in Nat : rx = x % Counts
  BY <1>12
<1>16. call.energy = (IF fd.type = "SOCKET" /\ k > 1 THEN rx ELSE 0) + 0
  BY <1>10, <1>11, <1>15
<1>17. CASE fd.type = "SOCKET" /\ k = 1
  <2>1. Turns = 2 /\ e = call.energy + ra
    BY <1>1, <1>2, <1>5, <1>11, <1>13, <1>17, LayersAre DEF Turns
  <2>2. e = ra /\ call.pc + 1 = 2
    BY <1>11, <1>16, <1>17, <2>1
  <2>3. e = (IF fd.type = "SOCKET" /\ call.pc + 1 > 1 THEN a % Counts ELSE 0)
                + (IF call.pc + 1 > Turns THEN b % Counts ELSE 0)
    BY <1>13, <1>17, <2>1, <2>2
  <2>4. /\ call.before[Rapl!Own]["PP0"] <= a /\ a <= consumed[Rapl!Own]["PP0"]
        /\ call.before[Rapl!Own][Second] <= b /\ b <= consumed[Rapl!Own][Second]
    BY <1>5, <1>6, <1>7, <1>8, <1>9
  <2>5. e \in Nat
    BY <2>2
  <2> QED
    BY <2>3, <2>4, <2>5, GatheredBy
<1>18. CASE fd.type = "SOCKET" /\ k # 1
  <2>1. Turns = 2 /\ k = 2
    BY <1>11, <1>18 DEF Turns
  <2>2. e = call.energy + rb
    BY <1>1, <1>2, <1>6, <1>11, <1>14, <1>18, <2>1, LayersAre
  <2>3. e = rx + rb /\ call.pc + 1 = 3
    BY <1>11, <1>16, <1>18, <2>1, <2>2
  <2>4. e = (IF fd.type = "SOCKET" /\ call.pc + 1 > 1 THEN x % Counts ELSE 0)
                + (IF call.pc + 1 > Turns THEN b % Counts ELSE 0)
    BY <1>14, <1>15, <1>18, <2>1, <2>3
  <2>5. /\ call.before[Rapl!Own]["PP0"] <= x /\ x <= consumed[Rapl!Own]["PP0"]
        /\ call.before[Rapl!Own][Second] <= b /\ b <= consumed[Rapl!Own][Second]
    BY <1>5, <1>6, <1>7, <1>8, <1>9, <1>10
  <2>6. e \in Nat
    BY <2>3
  <2> QED
    BY <2>4, <2>5, <2>6, GatheredBy
<1>19. CASE fd.type # "SOCKET"
  <2>1. Turns = 1 /\ k = 1
    BY <1>11, <1>19 DEF Turns
  <2>2. e = call.energy + rb
    BY <1>1, <1>2, <1>6, <1>11, <1>14, <1>19, <2>1, LayersAre
  <2>3. e = rb /\ call.pc + 1 = 2
    BY <1>11, <1>16, <1>19, <2>1, <2>2
  <2>4. e = (IF fd.type = "SOCKET" /\ call.pc + 1 > 1 THEN x % Counts ELSE 0)
                + (IF call.pc + 1 > Turns THEN b % Counts ELSE 0)
    BY <1>14, <1>19, <2>1, <2>3
  <2>5. /\ call.before[Rapl!Own]["PP0"] <= x /\ x <= consumed[Rapl!Own]["PP0"]
        /\ call.before[Rapl!Own][Second] <= b /\ b <= consumed[Rapl!Own][Second]
    BY <1>5, <1>6, <1>7, <1>8, <1>9, <1>10
  <2>6. e \in Nat
    BY <2>3
  <2> QED
    BY <2>4, <2>5, <2>6, GatheredBy
<1> QED
  BY <1>17, <1>18, <1>19

LEMMA RaplGather ==
    ASSUME Rapl!RaplAssumption, RaplInv, Rapl!Gather
    PROVE  RaplInv'
<1> DEFINE m == consumed[Rapl!Own][Rapl!DomainOf(Rapl!Layers(fd.type)[call.pc])] % Counts
           e == call.energy + m
<1>1. /\ call.pc > 0 /\ call.pc <= Len(Rapl!Layers(fd.type))
      /\ call' = [call EXCEPT !.pc = @ + 1, !.energy = e]
      /\ packageOf' = packageOf /\ consumed' = consumed /\ pkgs' = pkgs /\ fd' = fd
      /\ reads' = reads
  BY DEF Rapl!Gather, Rapl!Msr, Rapl!Own, Rapl!Added
<1>2. /\ call \in [pc : 1 .. Turns + 1, energy : Nat, before : Consumptions]
      /\ fd # Nothing /\ fd.dev # Nothing /\ Before(call.before, consumed)
  BY <1>1, CallInProgress
<1>3. RaplTypes /\ RaplReads
  BY DEF RaplInv
<1>4. call.pc <= Turns
  BY <1>1, <1>2, <1>3, LayersAre
<1>5. e \in Nat /\ Gathered(e, call.pc + 1, call.before, consumed)
  BY <1>1, <1>4, GatheredTurn
<1> HIDE DEF e
<1>6. /\ call' \in [pc : 1 .. Turns + 1, energy : Nat, before : Consumptions]
      /\ call'.before = call.before /\ call'.energy = e /\ call'.pc = call.pc + 1
  <2>1. call' = [pc |-> call.pc + 1, energy |-> e, before |-> call.before]
    BY <1>1, <1>2
  <2>2. call.pc \in Nat /\ Turns \in {1, 2} /\ call.pc + 1 \in 1 .. Turns + 1
    BY <1>2, <1>4 DEF Turns
  <2> QED
    BY <1>2, <1>5, <2>1, <2>2
<1>7. RaplTypes'
  BY <1>1, <1>3 DEF RaplTypes, Consumptions, Rapl!Package, Rapl!Range
<1>8. RaplCall'
  <2>1. Gathered(call.energy, call.pc, call.before, consumed)'
    BY <1>1, <1>5, <1>6, SameHandle DEF Gathered
  <2>2. Before(call.before, consumed)'
    BY <1>1, <1>2, <1>6, SameHandle DEF Before
  <2> QED
    BY <1>1, <1>2, <1>6, <2>1, <2>2, SameHandle DEF RaplCall
<1>9. RaplReads'
  <2>1. ASSUME NEW r, GoodRead(r) PROVE GoodRead(r)'
    BY <1>1, <1>6, <2>1, SameHandle DEF GoodRead, Gathered, Before
  <2> QED
    BY <1>1, <1>3, <2>1, SameHandle DEF RaplReads, Before
<1> QED
  BY <1>7, <1>8, <1>9 DEF RaplInv

\* A read ends with r.
LEMMA RaplEnds ==
    ASSUME Rapl!RaplAssumption, RaplInv, call.pc > 0, call' = [pc |-> 0],
           NEW e \in Nat \cup {Nothing},
           e # Nothing => e = call.energy /\ call.pc = Turns + 1,
           reads' = Append(reads, [energy |-> e, before |-> call.before, after |-> consumed]),
           UNCHANGED <<packageOf, consumed, pkgs, fd>>
    PROVE  RaplInv'
<1>0. PICK r : r = [energy |-> e, before |-> call.before, after |-> consumed]
  OBVIOUS
<1>1. /\ call \in [pc : 1 .. Turns + 1, energy : Nat, before : Consumptions]
      /\ fd # Nothing /\ fd.dev # Nothing /\ Before(call.before, consumed)
      /\ Gathered(call.energy, call.pc, call.before, consumed)
  BY CallInProgress
<1>2. RaplTypes /\ RaplReads /\ consumed \in Consumptions /\ reads \in Seq(RaplReadings)
  BY DEF RaplInv, RaplTypes, RaplReads
<1>3. /\ r \in RaplReadings /\ r.energy = e /\ r.before = call.before /\ r.after = consumed
  BY <1>0, <1>1, <1>2 DEF RaplReadings
<1>4. reads' = Append(reads, r)
  BY <1>0
<1>5. /\ reads' \in Seq(RaplReadings) /\ Len(reads) \in Nat /\ DOMAIN reads = 1 .. Len(reads)
      /\ DOMAIN reads' = 1 .. Len(reads) + 1 /\ reads'[Len(reads) + 1] = r
      /\ \A i \in 1 .. Len(reads) : reads'[i] = reads[i]
  BY <1>2, <1>3, <1>4, AppendProperties, LenProperties
<1>6. RaplTypes'
  BY <1>2 DEF RaplTypes, Consumptions, Rapl!Package, Rapl!Range
<1>7. call'.pc = 0
  OBVIOUS
<1>8. ASSUME NEW s, GoodRead(s) PROVE GoodRead(s)'
  BY <1>7, <1>8, SameHandle DEF GoodRead, Gathered, Before
<1>9. GoodRead(r)'
  <2>1. Before(consumed, consumed)
    BY <1>2, BeforeItself
  <2>2. e # Nothing => Gathered(r.energy, Turns + 1, r.before, r.after)
    BY <1>1, <1>3
  <2> QED
    BY <1>1, <1>3, <1>7, <2>1, <2>2, SameHandle DEF GoodRead, Gathered, Before
<1>10. \A i \in DOMAIN reads : GoodRead(reads[i]) /\ Before(reads[i].after, call.before)
  BY <1>2 DEF RaplReads, GoodRead
<1>11. RaplReads'
  <2>1. \A i \in DOMAIN reads' : GoodRead(reads[i])'
    BY <1>5, <1>8, <1>9, <1>10
  <2>2. ASSUME NEW i \in DOMAIN reads', NEW j \in DOMAIN reads', i < j
        PROVE  Before(reads'[i].after, reads'[j].before)
    <3>1. i \in 1 .. Len(reads) /\ reads'[i] = reads[i]
      BY <1>5, <2>2
    <3>2. CASE j = Len(reads) + 1
      BY <1>3, <1>5, <1>10, <3>1, <3>2
    <3>3. CASE j # Len(reads) + 1
      <4>1. j \in 1 .. Len(reads) /\ reads'[j] = reads[j]
        BY <1>5, <3>3
      <4> QED
        BY <1>2, <1>5, <2>2, <3>1, <4>1 DEF RaplReads
    <3> QED
      BY <3>2, <3>3
  <2> QED
    BY <1>1, <1>5, <2>1, <2>2, SameHandle DEF RaplReads, Before
<1>12. RaplCall'
  BY DEF RaplCall
<1> QED
  BY <1>6, <1>11, <1>12 DEF RaplInv

LEMMA RaplReturn ==
    ASSUME Rapl!RaplAssumption, RaplInv, Rapl!Return \/ Rapl!GatherFails
    PROVE  RaplInv'
<1>1. call.pc > 0 /\ call' = [pc |-> 0] /\ UNCHANGED <<packageOf, consumed, pkgs, fd>>
  BY DEF Rapl!Return, Rapl!GatherFails
<1>2. CASE Rapl!Return
  <2>1. call.pc = Len(Rapl!Layers(fd.type)) + 1
        /\ reads' = Append(reads, [energy |-> call.energy, before |-> call.before,
                                   after |-> consumed])
    BY <1>2 DEF Rapl!Return
  <2>2. fd # Nothing /\ call.energy \in Nat /\ RaplTypes
    BY <1>1, CallInProgress DEF RaplInv
  <2>3. call.pc = Turns + 1
    BY <2>1, <2>2, LayersAre
  <2> QED
    BY <1>1, <2>1, <2>2, <2>3, RaplEnds
<1>3. CASE Rapl!GatherFails
  <2>1. reads' = Append(reads, [energy |-> Nothing, before |-> call.before,
                                after |-> consumed])
    BY <1>3 DEF Rapl!GatherFails
  <2> QED
    BY <1>1, <2>1, RaplEnds
<1> QED
  BY <1>2, <1>3
-----------------------------------------------------------------------------
(* Rapl: what two reads differ by.                                         *)

LEMMA DomainsAre ==
    ASSUME RaplTypes, fd # Nothing
    PROVE  Rapl!Domains = IF fd.type = "SOCKET" THEN {"PP0", Second} ELSE {Second}
<1>1. CASE fd.type = "SOCKET"
  <2>1. Rapl!Layers(fd.type) = <<"pp0", "pp1">>
    BY <1>1 DEF Rapl!Layers
  <2>2. Rapl!DomainOf("pp0") = "PP0" /\ Rapl!DomainOf("pp1") = Second
    BY SecondIs DEF Second
  <2>3. DOMAIN Rapl!Layers(fd.type) = {1, 2} /\ Rapl!Layers(fd.type)[1] = "pp0"
        /\ Rapl!Layers(fd.type)[2] = "pp1"
    BY <2>1
  <2> QED
    BY <1>1, <2>2, <2>3 DEF Rapl!Domains
<1>2. CASE fd.type # "SOCKET"
  <2>1. Rapl!Layers(fd.type) = <<"pp1">>
    BY <1>2 DEF Rapl!Layers
  <2>2. Rapl!DomainOf("pp1") = Second
    BY DEF Second
  <2>3. DOMAIN Rapl!Layers(fd.type) = {1} /\ Rapl!Layers(fd.type)[1] = "pp1"
    BY <2>1
  <2> QED
    BY <1>2, <2>2, <2>3 DEF Rapl!Domains
<1> QED
  BY <1>1, <1>2

\* The equation of the sum over the domains.
SumFold(at, f) ==
    [s \in SUBSET Rapl!Domains |->
        IF s = {} THEN 0
        ELSE at[Rapl!Own][CHOOSE x \in s : TRUE] + f[s \ {CHOOSE x \in s : TRUE}]]

LEMMA SumFoldIs ==
    ASSUME NEW at, NEW a, NEW b, Rapl!Domains = {a, b},
           at[Rapl!Own][a] \in Nat, at[Rapl!Own][b] \in Nat
    PROVE  Rapl!Energy(at) =
               IF a = b THEN at[Rapl!Own][a] ELSE at[Rapl!Own][a] + at[Rapl!Own][b]
<1> DEFINE iter == CHOOSE f : f = SumFold(at, f)
           c(s) == CHOOSE x \in s : TRUE
           g == [s \in SUBSET {a, b} |->
                    (IF a \in s THEN at[Rapl!Own][a] ELSE 0)
                    + (IF b \in s /\ b # a THEN at[Rapl!Own][b] ELSE 0)]
<1>1. Rapl!Energy(at) = iter[{a, b}]
  BY DEF SumFold, Rapl!Energy, Rapl!MapThenSumSet, Rapl!MapThenFoldSet
<1>2. PICK va \in Nat : va = at[Rapl!Own][a]
  OBVIOUS
<1>3. PICK vb \in Nat : vb = at[Rapl!Own][b]
  OBVIOUS
<1>4. \A s \in SUBSET {a, b} : s # {} => c(s) \in s /\ s \ {c(s)} \in SUBSET {a, b}
  OBVIOUS
<1> HIDE DEF c
<1>5. \A s \in SUBSET {a, b} :
          g[s] = (IF a \in s THEN va ELSE 0) + (IF b \in s /\ b # a THEN vb ELSE 0)
  BY <1>2, <1>3
<1> HIDE DEF g
<1>6. ASSUME NEW s \in SUBSET {a, b}
      PROVE  g[s] = IF s = {} THEN 0 ELSE at[Rapl!Own][c(s)] + g[s \ {c(s)}]
  <2>1. CASE s = {}
    BY <1>5, <2>1
  <2>2. CASE s # {} /\ c(s) = a
    <3>1. a \in s /\ s \ {a} \in SUBSET {a, b}
      BY <1>4, <2>2
    <3>2. g[s \ {a}] = IF b \in s /\ b # a THEN vb ELSE 0
      BY <1>5, <3>1
    <3>3. g[s] = va + IF b \in s /\ b # a THEN vb ELSE 0
      BY <1>5, <3>1
    <3> QED
      BY <1>2, <2>2, <3>2, <3>3
  <2>3. CASE s # {} /\ c(s) # a
    <3>1. b \in s /\ b # a /\ c(s) = b /\ s \ {b} \in SUBSET {a, b}
      BY <1>4, <2>3
    <3>2. g[s \ {b}] = IF a \in s THEN va ELSE 0
      BY <1>5, <3>1
    <3>3. g[s] = (IF a \in s THEN va ELSE 0) + vb
      BY <1>5, <3>1
    <3> QED
      BY <1>2, <1>3, <2>3, <3>1, <3>2, <3>3
  <2> QED
    BY <2>1, <2>2, <2>3
<1>7. g = SumFold(at, g)
  <2>1. \A s \in SUBSET {a, b} :
            g[s] = IF s = {} THEN 0
                   ELSE at[Rapl!Own][CHOOSE x \in s : TRUE] + g[s \ {CHOOSE x \in s : TRUE}]
    BY <1>6 DEF c
  <2>2. DOMAIN g = SUBSET {a, b} /\ g = [s \in SUBSET {a, b} |-> g[s]]
    BY DEF g
  <2> QED
    BY <2>1, <2>2 DEF SumFold
<1>8. iter = SumFold(at, iter)
  BY <1>7
<1> HIDE DEF iter
<1>9. \A s \in SUBSET {a, b} :
          iter[s] = IF s = {} THEN 0 ELSE at[Rapl!Own][c(s)] + iter[s \ {c(s)}]
  BY <1>8 DEF SumFold, c
<1>10. iter[{}] = 0
  BY <1>9
<1>11. iter[{a}] = va /\ iter[{b}] = vb
  <2>1. c({a}) = a /\ c({b}) = b /\ {a} \ {a} = {} /\ {b} \ {b} = {}
    BY <1>4
  <2> QED
    BY <1>2, <1>3, <1>9, <1>10, <2>1
<1>12. CASE a = b
  BY <1>1, <1>2, <1>11, <1>12
<1>13. CASE a # b
  <2>1. {a, b} \ {a} = {b} /\ {a, b} \ {b} = {a}
    BY <1>13
  <2>2. c({a, b}) = a \/ c({a, b}) = b
    BY <1>4
  <2>3. iter[{a, b}] = at[Rapl!Own][c({a, b})] + iter[{a, b} \ {c({a, b})}]
    BY <1>9
  <2>4. CASE c({a, b}) = a
    BY <1>1, <1>2, <1>3, <1>11, <1>13, <2>1, <2>3, <2>4
  <2>5. CASE c({a, b}) = b
    BY <1>1, <1>2, <1>3, <1>11, <1>13, <2>1, <2>3, <2>5
  <2> QED
    BY <2>2, <2>4, <2>5
<1> QED
  BY <1>12, <1>13

LEMMA EnergyIs ==
    ASSUME Rapl!RaplAssumption, RaplTypes, fd # Nothing, fd.dev # Nothing,
           NEW at \in Consumptions
    PROVE  Rapl!Energy(at) =
               (IF fd.type = "SOCKET" THEN at[Rapl!Own]["PP0"] ELSE 0) + at[Rapl!Own][Second]
<1>1. Rapl!Own \in Rapl!Package /\ "PP0" \in Rapl!Domain /\ Second \in Rapl!Domain
      /\ Second # "PP0"
  BY OwnIsPackage, SecondIs DEF Rapl!Domain
<1>2. at[Rapl!Own]["PP0"] \in Nat /\ at[Rapl!Own][Second] \in Nat
  BY <1>1 DEF Consumptions
<1>3. CASE fd.type = "SOCKET"
  <2>1. Rapl!Domains = {"PP0", Second}
    BY <1>3, DomainsAre
  <2> QED
    BY <1>1, <1>2, <1>3, <2>1, SumFoldIs
<1>4. CASE fd.type # "SOCKET"
  <2>1. Rapl!Domains = {Second, Second}
    BY <1>4, DomainsAre
  <2>2. Rapl!Energy(at) = at[Rapl!Own][Second]
    BY <1>2, <2>1, SumFoldIs
  <2> QED
    BY <1>2, <1>4, <2>2
<1> QED
  BY <1>3, <1>4

\* What one counter gives in two reads, without a wrap between from and to.
LEMMA OneCounter ==
    ASSUME NEW r \in Nat \ {0}, NEW from \in Nat, NEW x \in Nat, NEW between \in Nat,
           NEW next \in Nat, NEW y \in Nat, NEW to \in Nat,
           from <= x, x <= between, between <= next, next <= y, y <= to,
           from \div r = to \div r
    PROVE  (y % r) - (x % r) = y - x
<1>1. x <= to /\ y <= to /\ from <= y
  OBVIOUS
<1>2. (x % r) - (from % r) = x - from
  BY <1>1, QuotientBetween
<1>3. (y % r) - (from % r) = y - from
  BY <1>1, QuotientBetween
<1>4. \A z \in Nat : z % r \in Nat
  <2> SUFFICES ASSUME NEW z \in Nat PROVE z % r \in Nat
    OBVIOUS
  <2>1. z % r \in 0 .. (r - 1)
    BY Quotients
  <2> QED
    BY <2>1
<1>5. PICK m \in Nat : m = x % r
  BY <1>4
<1>6. PICK n \in Nat : n = y % r
  BY <1>4
<1>7. PICK k \in Nat : k = from % r
  BY <1>4
<1> QED
  BY <1>2, <1>3, <1>5, <1>6, <1>7

LEMMA TwoReads ==
    ASSUME Rapl!RaplAssumption, RaplInv, NEW i \in DOMAIN reads, NEW j \in DOMAIN reads,
           i < j, Nothing \notin {reads[i].energy, reads[j].energy},
           ~Rapl!Wrapped(reads[i].before, reads[j].after)
    PROVE  /\ reads[j].energy + Rapl!Energy(reads[i].after)
                  >= reads[i].energy + Rapl!Energy(reads[j].before)
           /\ reads[j].energy + Rapl!Energy(reads[i].before)
                  <= reads[i].energy + Rapl!Energy(reads[j].after)
<1>1. RaplTypes /\ RaplReads /\ reads # <<>> /\ fd # Nothing /\ fd.dev # Nothing
  BY DEF RaplInv, RaplReads
<1>2. GoodRead(reads[i]) /\ GoodRead(reads[j]) /\ Before(reads[i].after, reads[j].before)
  BY <1>1 DEF RaplReads
<1>3. Rapl!Own \in Rapl!Package /\ "PP0" \in Rapl!Domain /\ Second \in Rapl!Domain
  BY <1>1, OwnIsPackage, SecondIs DEF Rapl!Domain
<1>4. /\ reads[i].before \in Consumptions /\ reads[i].after \in Consumptions
      /\ reads[j].before \in Consumptions /\ reads[j].after \in Consumptions
      /\ Gathered(reads[i].energy, Turns + 1, reads[i].before, reads[i].after)
      /\ Gathered(reads[j].energy, Turns + 1, reads[j].before, reads[j].after)
  BY <1>2 DEF GoodRead, RaplReadings
<1> DEFINE OfPP0(at) == at[Rapl!Own]["PP0"]
           OfSecond(at) == at[Rapl!Own][Second]
<1>5. \A at \in Consumptions : OfPP0(at) \in Nat /\ OfSecond(at) \in Nat
  BY <1>3 DEF Consumptions
<1>6. OfPP0(reads[i].after) <= OfPP0(reads[j].before) /\ OfSecond(reads[i].after) <= OfSecond(reads[j].before)
  BY <1>2, <1>3 DEF Before
<1>7. PICK xi \in Nat, yi \in Nat :
        /\ OfPP0(reads[i].before) <= xi /\ xi <= OfPP0(reads[i].after)
        /\ OfSecond(reads[i].before) <= yi /\ yi <= OfSecond(reads[i].after)
        /\ reads[i].energy = (IF fd.type = "SOCKET" /\ Turns + 1 > 1 THEN xi % Counts ELSE 0)
                                 + (IF Turns + 1 > Turns THEN yi % Counts ELSE 0)
  BY <1>4 DEF Gathered
<1>8. PICK xj \in Nat, yj \in Nat :
        /\ OfPP0(reads[j].before) <= xj /\ xj <= OfPP0(reads[j].after)
        /\ OfSecond(reads[j].before) <= yj /\ yj <= OfSecond(reads[j].after)
        /\ reads[j].energy = (IF fd.type = "SOCKET" /\ Turns + 1 > 1 THEN xj % Counts ELSE 0)
                                 + (IF Turns + 1 > Turns THEN yj % Counts ELSE 0)
  BY <1>4 DEF Gathered
<1>9. Turns \in {1, 2} /\ Turns + 1 > 1 /\ Turns + 1 > Turns
  BY DEF Turns
<1>10. Counts \in Nat \ {0}
  BY DEF Rapl!RaplAssumption
<1>11. \A d \in Rapl!Domains :
          reads[i].before[Rapl!Own][d] \div Counts = reads[j].after[Rapl!Own][d] \div Counts
  BY DEF Rapl!Wrapped
<1>12. Second \in Rapl!Domains /\ (fd.type = "SOCKET" => "PP0" \in Rapl!Domains)
  BY <1>1, DomainsAre
<1>13. /\ OfSecond(reads[i].before) \div Counts = OfSecond(reads[j].after) \div Counts
       /\ fd.type = "SOCKET" => OfPP0(reads[i].before) \div Counts = OfPP0(reads[j].after) \div Counts
  BY <1>11, <1>12
<1>14. \A at \in Consumptions :
          Rapl!Energy(at) = (IF fd.type = "SOCKET" THEN OfPP0(at) ELSE 0) + OfSecond(at)
  BY <1>1, EnergyIs
<1> HIDE DEF OfPP0, OfSecond
<1>15. PICK p1 \in Nat, p2 \in Nat, p3 \in Nat, p4 \in Nat :
          /\ p1 = OfPP0(reads[i].before) /\ p2 = OfPP0(reads[i].after)
          /\ p3 = OfPP0(reads[j].before) /\ p4 = OfPP0(reads[j].after)
  BY <1>4, <1>5
<1>16. PICK q1 \in Nat, q2 \in Nat, q3 \in Nat, q4 \in Nat :
          /\ q1 = OfSecond(reads[i].before) /\ q2 = OfSecond(reads[i].after)
          /\ q3 = OfSecond(reads[j].before) /\ q4 = OfSecond(reads[j].after)
  BY <1>4, <1>5
<1>17. (yj % Counts) - (yi % Counts) = yj - yi
  <2>1. q1 <= yi /\ yi <= q2 /\ q2 <= q3 /\ q3 <= yj /\ yj <= q4
    BY <1>6, <1>7, <1>8, <1>16
  <2>2. q1 \div Counts = q4 \div Counts
    BY <1>13, <1>16
  <2> QED
    BY <1>10, <2>1, <2>2, OneCounter
<1>18. fd.type = "SOCKET" => (xj % Counts) - (xi % Counts) = xj - xi
  <2> SUFFICES ASSUME fd.type = "SOCKET" PROVE (xj % Counts) - (xi % Counts) = xj - xi
    OBVIOUS
  <2>1. p1 <= xi /\ xi <= p2 /\ p2 <= p3 /\ p3 <= xj /\ xj <= p4
    BY <1>6, <1>7, <1>8, <1>15
  <2>2. p1 \div Counts = p4 \div Counts
    BY <1>13, <1>15
  <2> QED
    BY <1>10, <2>1, <2>2, OneCounter
<1>19. PICK ryi \in Nat, ryj \in Nat, rxi \in Nat, rxj \in Nat :
          /\ ryi = yi % Counts /\ ryj = yj % Counts /\ rxi = xi % Counts /\ rxj = xj % Counts
  BY RemainderIsNat
<1>20. /\ reads[i].energy = (IF fd.type = "SOCKET" THEN rxi ELSE 0) + ryi
       /\ reads[j].energy = (IF fd.type = "SOCKET" THEN rxj ELSE 0) + ryj
  BY <1>7, <1>8, <1>9, <1>19
<1>21. /\ Rapl!Energy(reads[i].before) = (IF fd.type = "SOCKET" THEN p1 ELSE 0) + q1
       /\ Rapl!Energy(reads[i].after) = (IF fd.type = "SOCKET" THEN p2 ELSE 0) + q2
       /\ Rapl!Energy(reads[j].before) = (IF fd.type = "SOCKET" THEN p3 ELSE 0) + q3
       /\ Rapl!Energy(reads[j].after) = (IF fd.type = "SOCKET" THEN p4 ELSE 0) + q4
  BY <1>4, <1>14, <1>15, <1>16
<1>22. /\ ryj - ryi = yj - yi
       /\ fd.type = "SOCKET" => rxj - rxi = xj - xi
       /\ p1 <= xi /\ xi <= p2 /\ q1 <= yi /\ yi <= q2
       /\ p3 <= xj /\ xj <= p4 /\ q3 <= yj /\ yj <= q4
  BY <1>7, <1>8, <1>15, <1>16, <1>17, <1>18, <1>19
<1>23. CASE fd.type = "SOCKET"
  BY <1>20, <1>21, <1>22, <1>23
<1>24. CASE fd.type # "SOCKET"
  BY <1>20, <1>21, <1>22, <1>24
<1> QED
  BY <1>23, <1>24

\* What the bounds of two reads need is inductive.
LEMMA RaplInductive ==
    ASSUME Rapl!RaplAssumption, RaplInv, Rapl!Next \/ UNCHANGED Rapl!vars
    PROVE  RaplInv'
<1>1. CASE UNCHANGED Rapl!vars
  <2>1. /\ packageOf' = packageOf /\ consumed' = consumed /\ pkgs' = pkgs /\ fd' = fd
        /\ call' = call /\ reads' = reads
    BY <1>1 DEF Rapl!vars
  <2>2. RaplTypes'
    BY <2>1 DEF RaplInv, RaplTypes, Consumptions, Rapl!Package, Rapl!Range
  <2>3. RaplCall'
    BY <2>1, SameHandle DEF RaplInv, RaplCall, Gathered, Before
  <2>4. ASSUME NEW r, GoodRead(r) PROVE GoodRead(r)'
    BY <2>1, <2>4, SameHandle DEF GoodRead, Gathered, Before
  <2>5. RaplReads'
    BY <2>1, <2>4, SameHandle DEF RaplInv, RaplReads, Before
  <2> QED
    BY <2>2, <2>3, <2>5 DEF RaplInv
<1>2. CASE Rapl!Next
  BY <1>2, RaplConsume, RaplOpen, RaplRead, RaplGather, RaplReturn, RaplClose DEF Rapl!Next
<1> QED
  BY <1>1, <1>2

\* Two reads of rapl (pwr_rapldev.c:531) differ by what the package of the handle has
\* consumed between them, up to what it consumed during them, for any number of
\* packages, values of a counter and reads.
THEOREM DifferenceCorrect ==
    ASSUME Rapl!RaplAssumption
    PROVE  Rapl!Spec => []Rapl!DifferenceIsConsumption
<1>1. RaplInv => Rapl!DifferenceIsConsumption
  BY TwoReads DEF Rapl!DifferenceIsConsumption
<1>2. RaplInv /\ [Rapl!Next]_(Rapl!vars) => RaplInv'
  BY RaplInductive
<1> QED
  BY RaplStarted, <1>1, <1>2, PTL DEF Rapl!Spec
-----------------------------------------------------------------------------
(* The hints of the API: the files that a write of an attribute sets.      *)

FileName == {"governor", "max", "min", "setspeed"}

LEMMA LimitWrites ==
    ASSUME NEW v, NEW k \in 0 .. Len(Hint!Writes("FREQ_LIMIT_MAX", v))
    PROVE  /\ Hint!Names("FREQ_LIMIT_MAX", v, k) \subseteq {"max"}
           /\ Hint!Complete("FREQ_LIMIT_MAX", v, k) => "max" \in Hint!Names("FREQ_LIMIT_MAX", v, k)
           /\ Hint!Value("FREQ_LIMIT_MAX", v, "max") = v
<1> DEFINE w == Hint!Writes("FREQ_LIMIT_MAX", v)
<1>1. w = <<[name |-> "max", value |-> v]>>
  BY DEF Hint!Writes, Hint!File
<1>0. k \in 0 .. Len(w)
  OBVIOUS
<1> HIDE DEF w
<1>2. Len(w) = 1 /\ w[1].name = "max" /\ w[1].value = v
  BY <1>1
<1>3. k \in {0, 1} /\ (k = Len(w) => k = 1)
  BY <1>0, <1>2
<1>4. Hint!Names("FREQ_LIMIT_MAX", v, k) = {w[i].name : i \in 1 .. k}
  BY DEF Hint!Names, w
<1>5. \A i \in 1 .. k : i = 1
  BY <1>3
<1>6. Hint!Names("FREQ_LIMIT_MAX", v, k) \subseteq {"max"}
  BY <1>2, <1>4, <1>5
<1>7. ASSUME Hint!Complete("FREQ_LIMIT_MAX", v, k)
      PROVE  "max" \in Hint!Names("FREQ_LIMIT_MAX", v, k)
  <2>1. k = 1
    BY <1>3, <1>7 DEF Hint!Complete, w
  <2> QED
    BY <1>2, <1>4, <2>1
<1>8. (CHOOSE j \in 1 .. Len(w) : w[j].name = "max") = 1
  BY <1>2
<1>9. Hint!Value("FREQ_LIMIT_MAX", v, "max") = v
  BY <1>2, <1>8 DEF Hint!Value, w
<1> QED
  BY <1>6, <1>7, <1>9

\* A governor other than userspace is the last of three files.
LEMMA GovernorWrites ==
    ASSUME NEW v, v # "userspace", NEW k \in 0 .. Len(Hint!Writes("GOV", v))
    PROVE  /\ Hint!Names("GOV", v, k) \subseteq {"max", "min", "governor"}
           /\ "governor" \in Hint!Names("GOV", v, k) =>
                  "max" \in Hint!Names("GOV", v, k) /\ "min" \in Hint!Names("GOV", v, k)
           /\ Hint!Complete("GOV", v, k) => "governor" \in Hint!Names("GOV", v, k)
           /\ Hint!Value("GOV", v, "max") = Hint!DefaultMax
           /\ Hint!Value("GOV", v, "min") = Hint!DefaultMin
           /\ Hint!Value("GOV", v, "governor") = Hint!Governor(v)
<1> DEFINE w == Hint!Writes("GOV", v)
<1>1. w = <<[name |-> "max", value |-> Hint!DefaultMax], [name |-> "min", value |-> Hint!DefaultMin],
            [name |-> "governor", value |-> Hint!Governor(v)]>>
  BY DEF Hint!Writes, Hint!GovWrites, Hint!File
<1>0. k \in 0 .. Len(w)
  OBVIOUS
<1> HIDE DEF w
<1>2. /\ Len(w) = 3 /\ w[1].name = "max" /\ w[2].name = "min" /\ w[3].name = "governor"
      /\ w[1].value = Hint!DefaultMax /\ w[2].value = Hint!DefaultMin
      /\ w[3].value = Hint!Governor(v)
  BY <1>1
<1>3. k \in 0 .. 3 /\ (k = Len(w) => k = 3)
  BY <1>0, <1>2
<1>4. Hint!Names("GOV", v, k) = {w[i].name : i \in 1 .. k}
  BY DEF Hint!Names, w
<1>5. \A i \in 1 .. k : i = 1 \/ i = 2 \/ i = 3
  BY <1>3
<1>6. Hint!Names("GOV", v, k) \subseteq {"max", "min", "governor"}
  BY <1>2, <1>4, <1>5
<1>7. ASSUME "governor" \in Hint!Names("GOV", v, k)
      PROVE  "max" \in Hint!Names("GOV", v, k) /\ "min" \in Hint!Names("GOV", v, k)
  <2>1. PICK i \in 1 .. k : w[i].name = "governor"
    BY <1>4, <1>7
  <2>2. i = 3 /\ k = 3
    BY <1>2, <1>3, <1>5, <2>1
  <2>3. 1 \in 1 .. k /\ 2 \in 1 .. k
    BY <2>2
  <2> QED
    BY <1>2, <1>4, <2>3
<1>8. ASSUME Hint!Complete("GOV", v, k) PROVE "governor" \in Hint!Names("GOV", v, k)
  <2>1. k = 3 /\ 3 \in 1 .. k
    BY <1>3, <1>8 DEF Hint!Complete, w
  <2> QED
    BY <1>2, <1>4, <2>1
<1>9. /\ (CHOOSE j \in 1 .. Len(w) : w[j].name = "max") = 1
      /\ (CHOOSE j \in 1 .. Len(w) : w[j].name = "min") = 2
      /\ (CHOOSE j \in 1 .. Len(w) : w[j].name = "governor") = 3
  <2>1. \A j \in 1 .. Len(w) : /\ w[j].name = "max" <=> j = 1
                               /\ w[j].name = "min" <=> j = 2
                               /\ w[j].name = "governor" <=> j = 3
    BY <1>2
  <2>2. 1 \in 1 .. Len(w) /\ 2 \in 1 .. Len(w) /\ 3 \in 1 .. Len(w)
    BY <1>2
  <2> QED
    BY <2>1, <2>2
<1>10. /\ Hint!Value("GOV", v, "max") = Hint!DefaultMax
       /\ Hint!Value("GOV", v, "min") = Hint!DefaultMin
       /\ Hint!Value("GOV", v, "governor") = Hint!Governor(v)
  BY <1>2, <1>9 DEF Hint!Value, w
<1> QED
  BY <1>6, <1>7, <1>8, <1>10

LEMMA UserspaceWrites ==
    ASSUME NEW k \in 0 .. Len(Hint!Writes("GOV", "userspace"))
    PROVE  Hint!Names("GOV", "userspace", k) \subseteq {"governor"}
           /\ Hint!Value("GOV", "userspace", "governor") = "userspace"
<1> DEFINE w == Hint!Writes("GOV", "userspace")
<1>1. w = <<[name |-> "governor", value |-> "userspace"]>>
  BY DEF Hint!Writes, Hint!GovWrites, Hint!File
<1>0. k \in 0 .. Len(w)
  OBVIOUS
<1> HIDE DEF w
<1>2. Len(w) = 1 /\ w[1].name = "governor" /\ w[1].value = "userspace"
  BY <1>1
<1>3. \A i \in 1 .. k : i = 1
  BY <1>0, <1>2
<1>4. Hint!Names("GOV", "userspace", k) = {w[i].name : i \in 1 .. k}
  BY DEF Hint!Names, w
<1>5. (CHOOSE j \in 1 .. Len(w) : w[j].name = "governor") = 1
  BY <1>2
<1> QED
  BY <1>2, <1>3, <1>4, <1>5 DEF Hint!Value, w

LEMMA FrequencyWrites ==
    ASSUME NEW v, NEW k \in 0 .. Len(Hint!Writes("FREQ", v))
    PROVE  Hint!Names("FREQ", v, k) \subseteq {"setspeed", "max", "min"}
<1> DEFINE w == Hint!Writes("FREQ", v)
<1>1. w = <<[name |-> "setspeed", value |-> v], [name |-> "max", value |-> v],
            [name |-> "min", value |-> v]>>
  BY DEF Hint!Writes, Hint!File
<1>0. k \in 0 .. Len(w)
  OBVIOUS
<1> HIDE DEF w
<1>2. Len(w) = 3 /\ w[1].name = "setspeed" /\ w[2].name = "max" /\ w[3].name = "min"
  BY <1>1
<1>3. \A i \in 1 .. k : i = 1 \/ i = 2 \/ i = 3
  BY <1>0, <1>2
<1>4. Hint!Names("FREQ", v, k) = {w[i].name : i \in 1 .. k}
  BY DEF Hint!Names, w
<1> QED
  BY <1>2, <1>3, <1>4

\* The files of a cpu after some writes.
LEMMA OverwrittenIs ==
    ASSUME NEW f, DOMAIN f = FileName, NEW attr, NEW v, NEW names
    PROVE  /\ DOMAIN Hint!Overwritten(f, attr, v, names) = FileName
           /\ \A name \in FileName :
                  Hint!Overwritten(f, attr, v, names)[name] =
                      IF name \in names THEN Hint!Value(attr, v, name) ELSE f[name]
  BY DEF Hint!Overwritten

LEMMA NoneOverwritten ==
    ASSUME NEW f, DOMAIN f = FileName, NEW attr, NEW v, NEW names,
           NEW name \in FileName, name \notin names
    PROVE  Hint!Overwritten(f, attr, v, names)[name] = f[name]
  BY OverwrittenIs
-----------------------------------------------------------------------------
(* The hints of the API: regions and cores.                                *)

HintTypes ==
    /\ DOMAIN files = Cpu /\ \A p \in Cpu : DOMAIN files[p] = FileName
    /\ region_id_counter \in Nat
    /\ DOMAIN regions = 0 .. (region_id_counter - 1)
    /\ \A id \in DOMAIN regions :
           regions[id] \in [socket : Socket, hint : Hints, live : BOOLEAN, alone : BOOLEAN]
    /\ meant \in [Core -> [max : Nat, governor : {"unknown", "schedutil"}]]

\* The map has the entries of the live regions, and those have keys of their own.
HintMap ==
    Hint!NoneShared =>
    /\ \A id \in Hint!Live :
           /\ Hint!Key(id) \in DOMAIN region_id_map
           /\ region_id_map[Hint!Key(id)] =
                  [socket |-> regions[id].socket, hint |-> regions[id].hint]
    /\ \A k \in DOMAIN region_id_map : \E id \in Hint!Live : Hint!Key(id) = k
    /\ \A a, b \in Hint!Live : Hint!Key(a) = Hint!Key(b) => a = b
    /\ crashed => \E id \in Hint!Live : regions[id].hint = "DEFAULT"

\* What a core should have is in the files of its cpu.
CoreHas(c) ==
    /\ meant[c].max # 0 => files[Hint!Drives(c)].max = meant[c].max
    /\ meant[c].governor # "unknown" => files[Hint!Drives(c)].governor = "schedutil"
CoresHave == Hint!NoneShared => \A c \in Core : CoreHas(c)

HintInv == HintTypes /\ HintMap /\ CoresHave

LEMMA DrivesCpu ==
    ASSUME Hint!HintAssumption, NEW c \in Core PROVE Hint!Drives(c) \in Cpu
  BY DEF Hint!HintAssumption, Hint!ToiletAssumption, Hint!Drives

LEMMA CoresAreCores ==
    ASSUME Hint!HintAssumption, NEW socket \in Socket
    PROVE  Hint!Range(Cores[socket]) \subseteq Core
<1>1. Cores[socket] \in Seq(Core)
  BY DEF Hint!HintAssumption
<1>2. \A i \in DOMAIN Cores[socket] : Cores[socket][i] \in Core
  BY <1>1, ElementOfSeq, LenProperties
<1> QED
  BY <1>2 DEF Hint!Range

\* The files after the cores of a socket were set.
LEMMA SetCoresIs ==
    ASSUME HintTypes, NEW socket, NEW attr, NEW v, NEW wrote,
           Hint!SetCores(socket, attr, v, wrote)
    PROVE  /\ DOMAIN files' = Cpu /\ \A p \in Cpu : DOMAIN files'[p] = FileName
           /\ \A p \in Cpu, name \in FileName :
                  files'[p][name] =
                      IF \E c \in Hint!Range(Cores[socket]) :
                            Hint!Drives(c) = p /\ name \in Hint!Names(attr, v, wrote[c])
                      THEN Hint!Value(attr, v, name) ELSE files[p][name]
<1> DEFINE At(p) == UNION {Hint!Names(attr, v, wrote[c]) :
                             c \in {d \in Hint!Range(Cores[socket]) : Hint!Drives(d) = p}}
<1>1. files' = [p \in Cpu |-> Hint!Overwritten(files[p], attr, v, At(p))]
  BY DEF Hint!SetCores
<1>2. \A p, name : name \in At(p) <=>
          \E c \in Hint!Range(Cores[socket]) :
              Hint!Drives(c) = p /\ name \in Hint!Names(attr, v, wrote[c])
  OBVIOUS
<1> HIDE DEF At
<1>3. \A p \in Cpu : DOMAIN files[p] = FileName
  BY DEF HintTypes
<1>4. ASSUME NEW p \in Cpu
      PROVE  /\ DOMAIN files'[p] = FileName
             /\ \A name \in FileName :
                    files'[p][name] = IF name \in At(p) THEN Hint!Value(attr, v, name)
                                      ELSE files[p][name]
  <2>1. files'[p] = Hint!Overwritten(files[p], attr, v, At(p)) /\ DOMAIN files[p] = FileName
    BY <1>1, <1>3
  <2> QED
    BY <2>1, OverwrittenIs
<1>5. DOMAIN files' = Cpu
  BY <1>1
<1> QED
  BY <1>2, <1>4, <1>5

\* The files after an attribute of one core was set.
LEMMA AfterWritesIs ==
    ASSUME Hint!HintAssumption, HintTypes, NEW c \in Core, NEW attr, NEW v, NEW k,
           files' = Hint!AfterWrites(files, c, attr, v, k)
    PROVE  /\ DOMAIN files' = Cpu /\ \A p \in Cpu : DOMAIN files'[p] = FileName
           /\ \A p \in Cpu : p # Hint!Drives(c) => files'[p] = files[p]
           /\ \A name \in FileName :
                  files'[Hint!Drives(c)][name] =
                      IF name \in Hint!Names(attr, v, k) THEN Hint!Value(attr, v, name)
                      ELSE files[Hint!Drives(c)][name]
<1>1. /\ Hint!Drives(c) \in Cpu /\ DOMAIN files = Cpu
      /\ \A p \in Cpu : DOMAIN files[p] = FileName
  BY DrivesCpu DEF HintTypes
<1> DEFINE g == Hint!Overwritten(files[Hint!Drives(c)], attr, v, Hint!Names(attr, v, k))
<1>2. files' = [files EXCEPT ![Hint!Drives(c)] = g]
  BY DEF Hint!AfterWrites
<1>3. /\ DOMAIN g = FileName
      /\ \A name \in FileName :
            g[name] = IF name \in Hint!Names(attr, v, k) THEN Hint!Value(attr, v, name)
                      ELSE files[Hint!Drives(c)][name]
  BY <1>1, OverwrittenIs
<1> HIDE DEF g
<1>4. /\ DOMAIN files' = Cpu /\ files'[Hint!Drives(c)] = g
      /\ \A p \in Cpu : p # Hint!Drives(c) => files'[p] = files[p]
  BY <1>1, <1>2
<1> QED
  BY <1>1, <1>3, <1>4

LEMMA HintInit == ASSUME Hint!HintAssumption, Hint!Init PROVE HintInv
<1>1. /\ region_id_counter = 0 /\ region_id_map = <<>> /\ regions = <<>>
      /\ meant = [c \in Core |-> [max |-> 0, governor |-> "unknown"]] /\ crashed = FALSE
      /\ files = [p \in Cpu |-> [governor |-> "userspace", max |-> Hint!DefaultMax,
                                 min |-> Hint!DefaultMin, setspeed |-> Hint!DefaultMin]]
  BY DEF Hint!Init, Hint!InitFiles, Hint!NotMeant
<1>2. DOMAIN regions = {} /\ DOMAIN region_id_map = {} /\ Hint!Live = {}
  BY <1>1 DEF Hint!Live
<1>3. HintTypes
  BY <1>1, <1>2 DEF HintTypes, FileName
<1>4. HintMap
  BY <1>1, <1>2 DEF HintMap
<1>5. CoresHave
  BY <1>1 DEF CoresHave, CoreHas
<1> QED
  BY <1>3, <1>4, <1>5 DEF HintInv

LEMMA HintCreate ==
    ASSUME Hint!HintAssumption, HintInv, NEW socket \in Socket, NEW hint \in Hints,
           Hint!Create(socket, hint)
    PROVE  HintInv'
<1> DEFINE id == region_id_counter
           k0 == Hint!Key(id)
           r == [socket |-> socket, hint |-> hint, live |-> TRUE,
                 alone |-> \A l \in Hint!Live : Hint!Key(l) # k0]
<1>1. /\ region_id_map' = IF k0 \in DOMAIN region_id_map THEN region_id_map
                          ELSE [k \in DOMAIN region_id_map \cup {k0} |->
                                  IF k = k0 THEN [socket |-> socket, hint |-> hint]
                                  ELSE region_id_map[k]]
      /\ regions' = [i \in DOMAIN regions \cup {id} |-> IF i = id THEN r ELSE regions[i]]
      /\ region_id_counter' = region_id_counter + 1
      /\ files' = files /\ meant' = meant /\ crashed' = crashed /\ ~crashed
  BY DEF Hint!Create
<1>2. HintTypes /\ id \in Nat /\ id \notin DOMAIN regions /\ Hint!Live \subseteq DOMAIN regions
  BY DEF HintInv, HintTypes, Hint!Live
<1>3. r.socket = socket /\ r.hint = hint /\ r.live = TRUE
      /\ r.alone = (\A l \in Hint!Live : Hint!Key(l) # k0)
      /\ r \in [socket : Socket, hint : Hints, live : BOOLEAN, alone : BOOLEAN]
  OBVIOUS
<1> HIDE DEF r
<1>4. /\ DOMAIN regions' = DOMAIN regions \cup {id} /\ regions'[id] = r
      /\ \A i \in DOMAIN regions : regions'[i] = regions[i]
  BY <1>1, <1>2
<1>5. HintTypes'
  <2>1. DOMAIN regions' = 0 .. (region_id_counter' - 1)
    BY <1>1, <1>2, <1>4 DEF HintTypes
  <2>2. \A i \in DOMAIN regions' :
            regions'[i] \in [socket : Socket, hint : Hints, live : BOOLEAN, alone : BOOLEAN]
    BY <1>2, <1>3, <1>4 DEF HintTypes
  <2>3. region_id_counter' \in Nat
    BY <1>1, <1>2
  <2>4. files' = files /\ meant' = meant
    BY <1>1
  <2>5. /\ DOMAIN files = Cpu /\ \A p \in Cpu : DOMAIN files[p] = FileName
        /\ meant \in [Core -> [max : Nat, governor : {"unknown", "schedutil"}]]
    BY <1>2 DEF HintTypes
  <2> QED
    BY <2>1, <2>2, <2>3, <2>4, <2>5 DEF HintTypes
<1>6. Hint!NoneShared' =>
          Hint!NoneShared /\ \A l \in Hint!Live : Hint!Key(l) # k0
  <2> SUFFICES ASSUME Hint!NoneShared'
               PROVE  Hint!NoneShared /\ \A l \in Hint!Live : Hint!Key(l) # k0
    OBVIOUS
  <2>1. \A i \in DOMAIN regions' : regions'[i].alone
    BY DEF Hint!NoneShared
  <2>2. \A i \in DOMAIN regions : regions[i].alone
    BY <1>4, <2>1
  <2>3. r.alone
    BY <1>4, <2>1
  <2> QED
    BY <1>3, <2>2, <2>3 DEF Hint!NoneShared
<1>7. Hint!Live' = Hint!Live \cup {id}
  BY <1>2, <1>3, <1>4 DEF Hint!Live
<1>8. HintMap'
  <2> SUFFICES ASSUME Hint!NoneShared' PROVE HintMap'
    BY DEF HintMap
  <2>1. /\ \A i \in Hint!Live :
               /\ Hint!Key(i) \in DOMAIN region_id_map
               /\ region_id_map[Hint!Key(i)] =
                      [socket |-> regions[i].socket, hint |-> regions[i].hint]
        /\ \A k \in DOMAIN region_id_map : \E i \in Hint!Live : Hint!Key(i) = k
        /\ \A a, b \in Hint!Live : Hint!Key(a) = Hint!Key(b) => a = b
    BY <1>6 DEF HintInv, HintMap
  <2>2. k0 \notin DOMAIN region_id_map /\ \A l \in Hint!Live : Hint!Key(l) # k0
    BY <1>6, <2>1
  <2>3. /\ DOMAIN region_id_map' = DOMAIN region_id_map \cup {k0}
        /\ region_id_map'[k0] = [socket |-> socket, hint |-> hint]
        /\ \A k \in DOMAIN region_id_map : region_id_map'[k] = region_id_map[k]
    BY <1>1, <2>2
  <2>4. Hint!Key(id) = k0 /\ \A i : Hint!Key(i)' = Hint!Key(i)
    BY DEF Hint!Key
  <2> HIDE DEF k0, id
  <2>5. \A i \in Hint!Live' :
            /\ Hint!Key(i) \in DOMAIN region_id_map'
            /\ region_id_map'[Hint!Key(i)] =
                   [socket |-> regions'[i].socket, hint |-> regions'[i].hint]
    <3> SUFFICES ASSUME NEW i \in Hint!Live'
                 PROVE  /\ Hint!Key(i) \in DOMAIN region_id_map'
                        /\ region_id_map'[Hint!Key(i)] =
                               [socket |-> regions'[i].socket, hint |-> regions'[i].hint]
      OBVIOUS
    <3>1. CASE i = id
      BY <1>3, <1>4, <2>3, <2>4, <3>1
    <3>2. CASE i # id
      BY <1>2, <1>4, <1>7, <2>1, <2>3, <3>2
    <3> QED
      BY <3>1, <3>2
  <2>6. \A k \in DOMAIN region_id_map' : \E i \in Hint!Live' : Hint!Key(i) = k
    BY <1>7, <2>1, <2>3, <2>4
  <2>7. \A a, b \in Hint!Live' : Hint!Key(a) = Hint!Key(b) => a = b
    BY <1>7, <2>1, <2>2, <2>4
  <2> QED
    BY <1>1, <2>5, <2>6, <2>7 DEF HintMap, Hint!Key
<1>9. CoresHave'
  BY <1>1, <1>6 DEF HintInv, CoresHave, CoreHas, Hint!Drives
<1> QED
  BY <1>5, <1>8, <1>9 DEF HintInv

Intentions == [max : Nat, governor : {"unknown", "schedutil"}]

LEMMA FoundIsOwn ==
    ASSUME HintInv, Hint!NoneShared, NEW id \in Hint!Live
    PROVE  /\ Hint!Found(id) = [socket |-> regions[id].socket, hint |-> regions[id].hint]
           /\ DOMAIN Hint!Inserted(id) = DOMAIN region_id_map
           /\ \A k \in DOMAIN region_id_map : Hint!Inserted(id)[k] = region_id_map[k]
<1>1. /\ Hint!Key(id) \in DOMAIN region_id_map
      /\ region_id_map[Hint!Key(id)] = [socket |-> regions[id].socket, hint |-> regions[id].hint]
  BY DEF HintInv, HintMap
<1>2. Hint!Found(id) = [socket |-> regions[id].socket, hint |-> regions[id].hint]
  BY <1>1 DEF Hint!Found
<1>3. DOMAIN Hint!Inserted(id) = DOMAIN region_id_map
  BY <1>1 DEF Hint!Inserted
<1>4. \A k \in DOMAIN region_id_map : Hint!Inserted(id)[k] = region_id_map[k]
  BY <1>1 DEF Hint!Inserted
<1> QED
  BY <1>2, <1>3, <1>4

LEMMA MapKept ==
    ASSUME HintInv, NEW id \in Hint!Live, region_id_map' = Hint!Inserted(id),
           regions' = regions,
           (Hint!NoneShared /\ crashed') => regions[id].hint = "DEFAULT"
    PROVE  HintMap'
<1>1. /\ Hint!Live' = Hint!Live /\ Hint!NoneShared' = Hint!NoneShared
      /\ \A i : Hint!Key(i)' = Hint!Key(i)
  BY DEF Hint!Live, Hint!NoneShared, Hint!Key
<1> SUFFICES ASSUME Hint!NoneShared PROVE HintMap'
  BY <1>1 DEF HintMap
<1>2. DOMAIN region_id_map' = DOMAIN region_id_map
      /\ \A k \in DOMAIN region_id_map : region_id_map'[k] = region_id_map[k]
  BY FoundIsOwn
<1>3. /\ \A i \in Hint!Live :
             /\ Hint!Key(i) \in DOMAIN region_id_map
             /\ region_id_map[Hint!Key(i)] =
                    [socket |-> regions[i].socket, hint |-> regions[i].hint]
      /\ \A k \in DOMAIN region_id_map : \E i \in Hint!Live : Hint!Key(i) = k
      /\ \A a, b \in Hint!Live : Hint!Key(a) = Hint!Key(b) => a = b
  BY DEF HintInv, HintMap
<1>4. crashed' => \E i \in Hint!Live : regions[i].hint = "DEFAULT"
  OBVIOUS
<1>5. \A i \in Hint!Live :
          /\ Hint!Key(i) \in DOMAIN region_id_map'
          /\ region_id_map'[Hint!Key(i)] =
                 [socket |-> regions'[i].socket, hint |-> regions'[i].hint]
  BY <1>2, <1>3
<1> QED
  BY <1>1, <1>2, <1>3, <1>4, <1>5 DEF HintMap, Hint!Key

LEMMA MapWithout ==
    ASSUME HintInv, NEW id \in Hint!Live, region_id_map' = Hint!Without(id),
           regions' = [regions EXCEPT ![id].live = FALSE],
           ~(Hint!NoneShared /\ crashed')
    PROVE  HintMap' /\ (Hint!NoneShared' => Hint!NoneShared)
<1>1. /\ id \in DOMAIN regions
      /\ \A i \in DOMAIN regions :
             regions[i] \in [socket : Socket, hint : Hints, live : BOOLEAN, alone : BOOLEAN]
  BY DEF HintInv, HintTypes, Hint!Live
<1>2. /\ DOMAIN regions' = DOMAIN regions
      /\ \A i \in DOMAIN regions :
            /\ regions'[i].socket = regions[i].socket /\ regions'[i].hint = regions[i].hint
            /\ regions'[i].alone = regions[i].alone
            /\ i # id => regions'[i].live = regions[i].live
      /\ regions'[id].live = FALSE
  BY <1>1
<1>3. /\ Hint!Live' = Hint!Live \ {id} /\ Hint!Live \subseteq DOMAIN regions
      /\ \A i : Hint!Key(i)' = Hint!Key(i)
  BY <1>1, <1>2 DEF Hint!Live, Hint!Key
<1>4. Hint!NoneShared' <=> Hint!NoneShared
  BY <1>2 DEF Hint!NoneShared
<1> SUFFICES ASSUME Hint!NoneShared PROVE HintMap'
  BY <1>4 DEF HintMap
<1>5. /\ \A i \in Hint!Live :
             /\ Hint!Key(i) \in DOMAIN region_id_map
             /\ region_id_map[Hint!Key(i)] =
                    [socket |-> regions[i].socket, hint |-> regions[i].hint]
      /\ \A k \in DOMAIN region_id_map : \E i \in Hint!Live : Hint!Key(i) = k
      /\ \A a, b \in Hint!Live : Hint!Key(a) = Hint!Key(b) => a = b
  BY DEF HintInv, HintMap
<1>6. /\ DOMAIN region_id_map' = DOMAIN region_id_map \ {Hint!Key(id)}
      /\ \A k \in DOMAIN region_id_map' : region_id_map'[k] = region_id_map[k]
  BY DEF Hint!Without
<1>7. \A i \in Hint!Live' :
          /\ Hint!Key(i) \in DOMAIN region_id_map'
          /\ region_id_map'[Hint!Key(i)] =
                 [socket |-> regions'[i].socket, hint |-> regions'[i].hint]
  <2> SUFFICES ASSUME NEW i \in Hint!Live'
               PROVE  /\ Hint!Key(i) \in DOMAIN region_id_map'
                      /\ region_id_map'[Hint!Key(i)] =
                             [socket |-> regions'[i].socket, hint |-> regions'[i].hint]
    OBVIOUS
  <2>1. i \in Hint!Live /\ i # id /\ Hint!Key(i) # Hint!Key(id) /\ i \in DOMAIN regions
    BY <1>3, <1>5
  <2>2. Hint!Key(i) \in DOMAIN region_id_map'
    BY <1>5, <1>6, <2>1
  <2> QED
    BY <1>2, <1>5, <1>6, <2>1, <2>2
<1>8. \A k \in DOMAIN region_id_map' : \E i \in Hint!Live' : Hint!Key(i) = k
  BY <1>3, <1>5, <1>6
<1>9. \A a, b \in Hint!Live' : Hint!Key(a) = Hint!Key(b) => a = b
  BY <1>3, <1>5
<1> QED
  BY <1>3, <1>7, <1>8, <1>9 DEF HintMap, Hint!Key

LEMMA ExpectTypes ==
    ASSUME HintTypes, NEW socket, NEW expected \in [Core -> Intentions], NEW attr, NEW v,
           NEW wrote, Hint!Expect(socket, expected, attr, v, wrote)
    PROVE  meant' \in [Core -> Intentions]
<1>1. meant \in [Core -> Intentions] /\ Hint!NotMeant \in Intentions
  BY DEF HintTypes, Intentions, Hint!NotMeant
<1> QED
  BY <1>1 DEF Hint!Expect

\* The cores of a socket were given a limit or the governor: they have what is expected,
\* and the others what they had.
LEMMA CoresSet ==
    ASSUME Hint!HintAssumption, Hint!OwnCpus, HintInv, Hint!NoneShared, NEW socket \in Socket,
           NEW expected \in [Core -> Intentions], NEW attr, NEW v,
           NEW wrote \in Hint!Outcomes(socket, attr, v),
           Hint!SetCores(socket, attr, v, wrote), Hint!Expect(socket, expected, attr, v, wrote),
           \/ attr = "FREQ_LIMIT_MAX" /\ v \in Nat
              /\ \A c \in Core : expected[c].max = v /\ expected[c].governor = meant[c].governor
           \/ attr = "GOV" /\ v = "schedutil"
              /\ \A c \in Core : expected[c].max = Hint!DefaultMax
                                 /\ expected[c].governor = "schedutil",
           NEW c \in Core
    PROVE  CoreHas(c)'
<1>1. HintTypes /\ Hint!Drives(c) \in Cpu /\ {"max", "governor"} \subseteq FileName
  BY DrivesCpu DEF HintInv, FileName
<1> DEFINE cpu == Hint!Drives(c)
           Wrote(name) == \E d \in Hint!Range(Cores[socket]) :
                              Hint!Drives(d) = cpu /\ name \in Hint!Names(attr, v, wrote[d])
<1>2. \A name \in {"max", "governor"} :
          files'[cpu][name] = IF Wrote(name) THEN Hint!Value(attr, v, name) ELSE files[cpu][name]
  BY <1>1, SetCoresIs
<1>3. meant'[c] = IF c \notin Hint!Range(Cores[socket]) THEN meant[c]
                  ELSE IF c \in DOMAIN wrote /\ Hint!Complete(attr, v, wrote[c]) THEN expected[c]
                  ELSE Hint!NotMeant
  BY DEF Hint!Expect
<1>4. Hint!Drives(c)' = Hint!Drives(c)
  BY DEF Hint!Drives
<1>5. CoreHas(c)
  BY DEF HintInv, CoresHave
<1>6. SUFFICES /\ meant'[c].max # 0 => files'[cpu]["max"] = meant'[c].max
               /\ meant'[c].governor # "unknown" => files'[cpu]["governor"] = "schedutil"
  BY <1>4 DEF CoreHas
<1>7. CASE c \notin Hint!Range(Cores[socket])
  <2>1. \A d \in Hint!Range(Cores[socket]) : Hint!Drives(d) # cpu
    BY <1>7 DEF Hint!OwnCpus
  <2>2. files'[cpu]["max"] = files[cpu]["max"] /\ files'[cpu]["governor"] = files[cpu]["governor"]
    BY <1>2, <2>1
  <2>3. meant'[c] = meant[c]
    BY <1>3, <1>7
  <2> QED
    BY <1>5, <2>2, <2>3 DEF CoreHas
<1>8. CASE /\ c \in Hint!Range(Cores[socket])
           /\ ~(c \in DOMAIN wrote /\ Hint!Complete(attr, v, wrote[c]))
  <2>1. meant'[c] = [max |-> 0, governor |-> "unknown"]
    BY <1>3, <1>8 DEF Hint!NotMeant
  <2> QED
    BY <2>1
<1>9. CASE /\ c \in Hint!Range(Cores[socket])
           /\ c \in DOMAIN wrote /\ Hint!Complete(attr, v, wrote[c])
  <2>1. meant'[c] = expected[c]
    BY <1>3, <1>9
  <2>2. \A d \in Hint!Range(Cores[socket]) : wrote[d] \in 0 .. Len(Hint!Writes(attr, v))
    BY DEF Hint!Outcomes
  <2>3. CASE attr = "FREQ_LIMIT_MAX"
    <3>1. \A d \in Hint!Range(Cores[socket]) : "governor" \notin Hint!Names(attr, v, wrote[d])
      BY <2>2, <2>3, LimitWrites
    <3>2. "max" \in Hint!Names(attr, v, wrote[c]) /\ Hint!Value(attr, v, "max") = v
      BY <1>9, <2>2, <2>3, LimitWrites
    <3>3. files'[cpu]["governor"] = files[cpu]["governor"]
      BY <1>2, <3>1
    <3>4. files'[cpu]["max"] = v
      BY <1>2, <1>9, <3>2
    <3>5. expected[c].max = v /\ expected[c].governor = meant[c].governor
      BY <2>3
    <3> QED
      BY <1>5, <2>1, <3>3, <3>4, <3>5 DEF CoreHas
  <2>4. CASE attr = "GOV"
    <3>1. v = "schedutil" /\ v # "userspace" /\ expected[c].max = Hint!DefaultMax
      BY <2>4
    <3>2. /\ "governor" \in Hint!Names(attr, v, wrote[c]) /\ "max" \in Hint!Names(attr, v, wrote[c])
          /\ Hint!Value(attr, v, "max") = Hint!DefaultMax
          /\ Hint!Value(attr, v, "governor") = Hint!Governor(v)
      BY <1>9, <2>2, <2>4, <3>1, GovernorWrites
    <3>3. Hint!Governor(v) = "schedutil"
      BY <3>1 DEF Hint!Governor
    <3>4. files'[cpu]["governor"] = "schedutil" /\ files'[cpu]["max"] = Hint!DefaultMax
      BY <1>2, <1>9, <3>2, <3>3
    <3> QED
      BY <2>1, <3>1, <3>4
  <2> QED
    BY <2>3, <2>4
<1> QED
  BY <1>7, <1>8, <1>9

LEMMA HintStart ==
    ASSUME Hint!HintAssumption, Hint!OwnCpus, HintInv, NEW id \in DOMAIN regions, Hint!Start(id)
    PROVE  HintInv'
<1> DEFINE found == Hint!Found(id)
           v == Hint!Limit(found.hint)
           expected == [c \in Core |-> [meant[c] EXCEPT !.max = Hint!Expected(regions[id].hint)]]
<1>1. /\ ~crashed /\ id \in Hint!Live /\ region_id_map' = Hint!Inserted(id)
      /\ region_id_counter' = region_id_counter /\ regions' = regions
  BY DEF Hint!Start
<1>2. HintTypes /\ meant \in [Core -> Intentions]
      /\ regions[id] \in [socket : Socket, hint : Hints, live : BOOLEAN, alone : BOOLEAN]
  BY DEF HintInv, HintTypes, Intentions
<1>3. Hint!NoneShared' = Hint!NoneShared
  BY <1>1 DEF Hint!NoneShared
<1>4. Hint!NoneShared => found.socket = regions[id].socket /\ found.hint = regions[id].hint
  BY <1>1, FoundIsOwn
<1>5. v \in Nat /\ Hint!Expected(regions[id].hint) \in Nat
      /\ (found.hint = regions[id].hint => Hint!Expected(regions[id].hint) = v)
  BY DEF Hint!Limit, Hint!Expected, Hint!DefaultMax
<1>6. /\ expected \in [Core -> Intentions]
      /\ \A c \in Core : expected[c].max = Hint!Expected(regions[id].hint)
                         /\ expected[c].governor = meant[c].governor
  BY <1>2, <1>5 DEF Intentions
<1> HIDE DEF expected, v
<1>7. CASE /\ found.hint \in Hint!Limits /\ crashed' = crashed
           /\ \E wrote \in Hint!Outcomes(found.socket, "FREQ_LIMIT_MAX", v) :
                 /\ Hint!SetCores(found.socket, "FREQ_LIMIT_MAX", v, wrote)
                 /\ Hint!Expect(regions[id].socket, expected, "FREQ_LIMIT_MAX", v, wrote)
  <2> HIDE DEF found
  <2>1. PICK wrote \in Hint!Outcomes(found.socket, "FREQ_LIMIT_MAX", v) :
                 /\ Hint!SetCores(found.socket, "FREQ_LIMIT_MAX", v, wrote)
                 /\ Hint!Expect(regions[id].socket, expected, "FREQ_LIMIT_MAX", v, wrote)
    BY <1>7
  <2>2. meant' \in [Core -> Intentions]
    BY <1>2, <1>6, <2>1, ExpectTypes
  <2>3. DOMAIN files' = Cpu /\ \A p \in Cpu : DOMAIN files'[p] = FileName
    BY <1>2, <2>1, SetCoresIs
  <2>4. HintTypes'
    BY <1>1, <1>2, <2>2, <2>3 DEF HintTypes, Intentions
  <2>5. HintMap'
    BY <1>1, <1>7, MapKept
  <2>6. CoresHave'
    <3> SUFFICES ASSUME Hint!NoneShared, NEW c \in Core PROVE CoreHas(c)'
      BY <1>3 DEF CoresHave
    <3>1. found.socket = regions[id].socket /\ found.socket \in Socket
      BY <1>2, <1>4
    <3>2. \A d \in Core : expected[d].max = v /\ expected[d].governor = meant[d].governor
      BY <1>4, <1>5, <1>6
    <3>3. Hint!Expect(found.socket, expected, "FREQ_LIMIT_MAX", v, wrote)
      BY <2>1, <3>1
    <3> QED
      BY <1>5, <1>6, <2>1, <3>1, <3>2, <3>3, CoresSet
  <2> QED
    BY <2>4, <2>5, <2>6 DEF HintInv
<1>8. CASE /\ crashed' = (found.hint = "DEFAULT")
           /\ files' = files /\ meant' = meant
  <2>1. HintTypes'
    BY <1>1, <1>2, <1>8 DEF HintTypes, Intentions
  <2>2. (Hint!NoneShared /\ crashed') => regions[id].hint = "DEFAULT"
    BY <1>4, <1>8
  <2>3. HintMap'
    BY <1>1, <2>2, MapKept
  <2>4. CoresHave'
    BY <1>3, <1>8 DEF HintInv, CoresHave, CoreHas, Hint!Drives
  <2> QED
    BY <2>1, <2>3, <2>4 DEF HintInv
<1> QED
  BY <1>1, <1>7, <1>8 DEF Hint!Start, expected, v

\* Stop and Destroy: the cores are given to the governor, or NULL is followed.
LEMMA HintSchedutil ==
    ASSUME Hint!HintAssumption, Hint!OwnCpus, HintInv, NEW id \in Hint!Live,
           Hint!Schedutil(id), ~crashed
    PROVE  /\ DOMAIN files' = Cpu /\ \A p \in Cpu : DOMAIN files'[p] = FileName
           /\ meant' \in [Core -> Intentions]
           /\ Hint!NoneShared => ~crashed' /\ \A c \in Core : CoreHas(c)'
<1> DEFINE found == Hint!Found(id)
           expected == [c \in Core |-> [max |-> Hint!DefaultMax, governor |-> "schedutil"]]
<1>1. HintTypes /\ meant \in [Core -> Intentions] /\ id \in DOMAIN regions
      /\ regions[id] \in [socket : Socket, hint : Hints, live : BOOLEAN, alone : BOOLEAN]
  BY DEF HintInv, HintTypes, Intentions, Hint!Live
<1>2. Hint!NoneShared => found.socket = regions[id].socket /\ found.socket \in Socket
  BY <1>1, FoundIsOwn
<1>3. "NULL" \notin Socket
  BY DEF Hint!HintAssumption
<1>4. expected \in [Core -> Intentions]
      /\ \A c \in Core : expected[c].max = Hint!DefaultMax /\ expected[c].governor = "schedutil"
  BY DEF Intentions, Hint!DefaultMax
<1>5. CASE found.socket = "NULL"
  <2>1. files' = files /\ meant' = meant
    BY <1>5 DEF Hint!Schedutil, Hint!NoSocket
  <2> QED
    BY <1>1, <1>2, <1>3, <1>5, <2>1 DEF HintTypes
<1>6. CASE found.socket # "NULL"
  <2>1. /\ crashed' = crashed
        /\ \E wrote \in Hint!Outcomes(found.socket, "GOV", "schedutil") :
              /\ Hint!SetCores(found.socket, "GOV", "schedutil", wrote)
              /\ Hint!Expect(regions[id].socket, expected, "GOV", "schedutil", wrote)
    BY <1>6 DEF Hint!Schedutil, Hint!NoSocket
  <2> HIDE DEF found, expected
  <2>2. PICK wrote \in Hint!Outcomes(found.socket, "GOV", "schedutil") :
              /\ Hint!SetCores(found.socket, "GOV", "schedutil", wrote)
              /\ Hint!Expect(regions[id].socket, expected, "GOV", "schedutil", wrote)
    BY <2>1
  <2>3. meant' \in [Core -> Intentions]
    BY <1>1, <1>4, <2>2, ExpectTypes
  <2>4. DOMAIN files' = Cpu /\ \A p \in Cpu : DOMAIN files'[p] = FileName
    BY <1>1, <2>2, SetCoresIs
  <2>5. ASSUME Hint!NoneShared, NEW c \in Core PROVE CoreHas(c)'
    <3>1. found.socket = regions[id].socket /\ found.socket \in Socket
      BY <1>2, <2>5
    <3>2. Hint!Expect(found.socket, expected, "GOV", "schedutil", wrote)
      BY <2>2, <3>1
    <3> QED
      BY <1>4, <2>2, <2>5, <3>1, <3>2, CoresSet
  <2> QED
    BY <2>1, <2>3, <2>4, <2>5
<1> QED
  BY <1>5, <1>6

LEMMA HintStop ==
    ASSUME Hint!HintAssumption, Hint!OwnCpus, HintInv, NEW id \in DOMAIN regions, Hint!Stop(id)
    PROVE  HintInv'
<1>1. /\ ~crashed /\ id \in Hint!Live /\ region_id_map' = Hint!Inserted(id)
      /\ Hint!Schedutil(id) /\ region_id_counter' = region_id_counter /\ regions' = regions
  BY DEF Hint!Stop
<1>2. /\ DOMAIN files' = Cpu /\ \A p \in Cpu : DOMAIN files'[p] = FileName
      /\ meant' \in [Core -> Intentions]
      /\ Hint!NoneShared => ~crashed' /\ \A c \in Core : CoreHas(c)'
  BY <1>1, HintSchedutil
<1>3. HintTypes
  BY DEF HintInv
<1>4. HintTypes'
  BY <1>1, <1>2, <1>3 DEF HintTypes, Intentions
<1>5. HintMap'
  BY <1>1, <1>2, MapKept
<1>6. CoresHave'
  BY <1>1, <1>2 DEF CoresHave, Hint!NoneShared
<1> QED
  BY <1>4, <1>5, <1>6 DEF HintInv

LEMMA HintDestroy ==
    ASSUME Hint!HintAssumption, Hint!OwnCpus, HintInv, NEW id \in DOMAIN regions, Hint!Destroy(id)
    PROVE  HintInv'
<1>1. /\ ~crashed /\ id \in Hint!Live /\ region_id_map' = Hint!Without(id)
      /\ Hint!Schedutil(id) /\ region_id_counter' = region_id_counter
      /\ regions' = [regions EXCEPT ![id].live = FALSE]
  BY DEF Hint!Destroy
<1>2. /\ DOMAIN files' = Cpu /\ \A p \in Cpu : DOMAIN files'[p] = FileName
      /\ meant' \in [Core -> Intentions]
      /\ Hint!NoneShared => ~crashed' /\ \A c \in Core : CoreHas(c)'
  BY <1>1, HintSchedutil
<1>3. HintTypes
  BY DEF HintInv
<1>4. HintTypes'
  <2>1. DOMAIN regions' = DOMAIN regions
        /\ \A i \in DOMAIN regions' :
              regions'[i] \in [socket : Socket, hint : Hints, live : BOOLEAN, alone : BOOLEAN]
    BY <1>1, <1>3 DEF HintTypes
  <2> QED
    BY <1>1, <1>2, <1>3, <2>1 DEF HintTypes, Intentions
<1>5. HintMap' /\ (Hint!NoneShared' => Hint!NoneShared)
  BY <1>1, <1>2, MapWithout
<1>6. CoresHave'
  BY <1>2, <1>5 DEF CoresHave
<1> QED
  BY <1>4, <1>5, <1>6 DEF HintInv

LEMMA HintAppSet ==
    ASSUME Hint!HintAssumption, HintInv, NEW c \in Core, NEW attr, NEW v, Hint!AppSet(c, attr, v)
    PROVE  HintInv'
<1>1. /\ \E k \in 0 .. Len(Hint!Writes(attr, v)) : files' = Hint!AfterWrites(files, c, attr, v, k)
      /\ meant' = [d \in Core |-> IF Hint!Drives(d) = Hint!Drives(c) THEN Hint!NotMeant
                                  ELSE meant[d]]
      /\ region_id_counter' = region_id_counter /\ region_id_map' = region_id_map
      /\ regions' = regions /\ crashed' = crashed
  BY DEF Hint!AppSet
<1>2. HintTypes /\ meant \in [Core -> Intentions]
  BY DEF HintInv, HintTypes, Intentions
<1>3. PICK k : files' = Hint!AfterWrites(files, c, attr, v, k)
  BY <1>1
<1>4. /\ DOMAIN files' = Cpu /\ \A p \in Cpu : DOMAIN files'[p] = FileName
      /\ \A p \in Cpu : p # Hint!Drives(c) => files'[p] = files[p]
  BY <1>2, <1>3, AfterWritesIs
<1>5. meant' \in [Core -> Intentions]
  BY <1>1, <1>2 DEF Intentions, Hint!NotMeant
<1>6. HintTypes'
  BY <1>1, <1>2, <1>4, <1>5 DEF HintTypes, Intentions
<1>7. HintMap'
  BY <1>1 DEF HintInv, HintMap, Hint!NoneShared, Hint!Live, Hint!Key
<1>8. CoresHave'
  <2> SUFFICES ASSUME Hint!NoneShared, NEW d \in Core PROVE CoreHas(d)'
    BY <1>1 DEF CoresHave, Hint!NoneShared
  <2>1. Hint!Drives(d)' = Hint!Drives(d) /\ Hint!Drives(d) \in Cpu /\ CoreHas(d)
    BY DrivesCpu DEF Hint!Drives, HintInv, CoresHave
  <2>2. CASE Hint!Drives(d) = Hint!Drives(c)
    <3>1. meant'[d] = [max |-> 0, governor |-> "unknown"]
      BY <1>1, <2>2 DEF Hint!NotMeant
    <3> QED
      BY <3>1 DEF CoreHas
  <2>3. CASE Hint!Drives(d) # Hint!Drives(c)
    <3>1. meant'[d] = meant[d] /\ files'[Hint!Drives(d)] = files[Hint!Drives(d)]
      BY <1>1, <1>4, <2>1, <2>3
    <3> QED
      BY <2>1, <3>1 DEF CoreHas
  <2> QED
    BY <2>2, <2>3
<1> QED
  BY <1>6, <1>7, <1>8 DEF HintInv

LEMMA HintInductive ==
    ASSUME Hint!HintAssumption, Hint!OwnCpus, HintInv, Hint!Next \/ UNCHANGED Hint!vars
    PROVE  HintInv'
<1>1. CASE UNCHANGED Hint!vars
  <2>1. /\ files' = files /\ region_id_counter' = region_id_counter
        /\ region_id_map' = region_id_map /\ regions' = regions /\ meant' = meant
        /\ crashed' = crashed
    BY <1>1 DEF Hint!vars
  <2>2. HintTypes'
    BY <2>1 DEF HintInv, HintTypes
  <2>3. HintMap'
    BY <2>1 DEF HintInv, HintMap, Hint!NoneShared, Hint!Live, Hint!Key
  <2>4. CoresHave'
    BY <2>1 DEF HintInv, CoresHave, CoreHas, Hint!NoneShared, Hint!Drives
  <2> QED
    BY <2>2, <2>3, <2>4 DEF HintInv
<1>2. CASE Hint!Next
  BY <1>2, HintCreate, HintStart, HintStop, HintDestroy, HintAppSet DEF Hint!Next
<1> QED
  BY <1>1, <1>2

LEMMA HintImplies ==
    ASSUME Hint!HintAssumption, HintInv
    PROVE  Hint!OwnHint /\ Hint!HintInForce
<1>1. Hint!OwnHint
  <2> SUFFICES ASSUME Hint!NoneShared
               PROVE  /\ \A id \in Hint!Live : Hint!Found(id) =
                            [socket |-> regions[id].socket, hint |-> regions[id].hint]
                      /\ crashed => \E id \in Hint!Live : regions[id].hint = "DEFAULT"
    BY DEF Hint!OwnHint
  <2> QED
    BY FoundIsOwn DEF HintInv, HintMap
<1>2. Hint!HintInForce
  <2> SUFFICES ASSUME Hint!NoneShared, NEW c \in Core
               PROVE  /\ meant[c].max # 0 => Hint!ReadCore(c, "FREQ_LIMIT_MAX", 0) = meant[c].max
                      /\ meant[c].governor # "unknown" =>
                             Hint!ReadCore(c, "GOV", "unset") = meant[c].governor
    BY DEF Hint!HintInForce
  <2>1. CoreHas(c) /\ meant[c].governor \in {"unknown", "schedutil"}
    BY DEF HintInv, CoresHave, HintTypes
  <2>2. Hint!ReadCore(c, "FREQ_LIMIT_MAX", 0) = files[Hint!Drives(c)].max
    BY DEF Hint!ReadCore
  <2>3. files[Hint!Drives(c)].governor = "schedutil" =>
            Hint!ReadCore(c, "GOV", "unset") = "schedutil"
    BY DEF Hint!ReadCore, Hint!LinuxGov
  <2> QED
    BY <2>1, <2>2, <2>3 DEF CoreHas
<1> QED
  BY <1>1, <1>2

-----------------------------------------------------------------------------
\* No cpu gets a governor other than userspace before the default limits.
LEMMA GovernorLast ==
    ASSUME Hint!HintAssumption, HintInv, Hint!Next \/ UNCHANGED Hint!vars
    PROVE  Hint!LimitsBeforeGovernor
<1> SUFFICES ASSUME NEW p \in Cpu, files'[p].governor # files[p].governor,
                    files'[p].governor # "userspace"
             PROVE  files'[p].max = Hint!DefaultMax /\ files'[p].min = Hint!DefaultMin
  BY DEF Hint!LimitsBeforeGovernor
<1>1. HintTypes /\ {"governor", "max", "min"} \subseteq FileName
  BY DEF HintInv, FileName
<1>2. files' # files
  OBVIOUS
<1>3. ASSUME NEW socket, NEW attr, NEW v, NEW wrote \in Hint!Outcomes(socket, attr, v),
             Hint!SetCores(socket, attr, v, wrote),
             attr = "FREQ_LIMIT_MAX" \/ (attr = "GOV" /\ v # "userspace")
      PROVE  files'[p].max = Hint!DefaultMax /\ files'[p].min = Hint!DefaultMin
  <2>1. \A name \in {"governor", "max", "min"} :
            files'[p][name] =
                IF \E c \in Hint!Range(Cores[socket]) :
                      Hint!Drives(c) = p /\ name \in Hint!Names(attr, v, wrote[c])
                THEN Hint!Value(attr, v, name) ELSE files[p][name]
    BY <1>1, <1>3, SetCoresIs
  <2>2. \A c \in Hint!Range(Cores[socket]) : wrote[c] \in 0 .. Len(Hint!Writes(attr, v))
    BY <1>3 DEF Hint!Outcomes
  <2>3. PICK c \in Hint!Range(Cores[socket]) :
            Hint!Drives(c) = p /\ "governor" \in Hint!Names(attr, v, wrote[c])
    BY <2>1
  <2>4. attr = "GOV" /\ v # "userspace"
    BY <1>3, <2>2, <2>3, LimitWrites
  <2>5. /\ "max" \in Hint!Names(attr, v, wrote[c]) /\ "min" \in Hint!Names(attr, v, wrote[c])
        /\ Hint!Value(attr, v, "max") = Hint!DefaultMax
        /\ Hint!Value(attr, v, "min") = Hint!DefaultMin
    BY <2>2, <2>3, <2>4, GovernorWrites
  <2> QED
    BY <2>1, <2>3, <2>5
<1>4. ASSUME NEW c \in Core, NEW attr, NEW v, Hint!AppSet(c, attr, v),
             attr \in {"FREQ", "GOV"}
      PROVE  files'[p].max = Hint!DefaultMax /\ files'[p].min = Hint!DefaultMin
  <2>1. PICK k \in 0 .. Len(Hint!Writes(attr, v)) :
            files' = Hint!AfterWrites(files, c, attr, v, k)
    BY <1>4 DEF Hint!AppSet
  <2>2. /\ \A q \in Cpu : q # Hint!Drives(c) => files'[q] = files[q]
        /\ \A name \in {"governor", "max", "min"} :
                  files'[Hint!Drives(c)][name] =
                      IF name \in Hint!Names(attr, v, k) THEN Hint!Value(attr, v, name)
                      ELSE files[Hint!Drives(c)][name]
    BY <1>1, <2>1, AfterWritesIs
  <2>3. p = Hint!Drives(c) /\ "governor" \in Hint!Names(attr, v, k)
    BY <2>2
  <2>4. attr # "FREQ"
    BY <2>1, <2>3, FrequencyWrites
  <2>5. v # "userspace"
    BY <1>4, <2>1, <2>2, <2>3, <2>4, UserspaceWrites
  <2>6. /\ "max" \in Hint!Names(attr, v, k) /\ "min" \in Hint!Names(attr, v, k)
        /\ Hint!Value(attr, v, "max") = Hint!DefaultMax
        /\ Hint!Value(attr, v, "min") = Hint!DefaultMin
    BY <1>4, <2>1, <2>3, <2>4, <2>5, GovernorWrites
  <2> QED
    BY <2>2, <2>3, <2>6
<1>5. ASSUME NEW id, Hint!Schedutil(id)
      PROVE  files'[p].max = Hint!DefaultMax /\ files'[p].min = Hint!DefaultMin
  <2>1. PICK wrote \in Hint!Outcomes(Hint!Found(id).socket, "GOV", "schedutil") :
            Hint!SetCores(Hint!Found(id).socket, "GOV", "schedutil", wrote)
    BY <1>2, <1>5 DEF Hint!Schedutil
  <2> QED
    BY <1>3, <2>1
<1>6. CASE UNCHANGED Hint!vars
  BY <1>2, <1>6 DEF Hint!vars
<1>7. CASE \E socket \in Socket, hint \in Hints : Hint!Create(socket, hint)
  BY <1>2, <1>7 DEF Hint!Create
<1>8. CASE \E id \in DOMAIN regions : Hint!Start(id)
  <2>1. PICK id \in DOMAIN regions : Hint!Start(id)
    BY <1>8
  <2>2. PICK wrote \in Hint!Outcomes(Hint!Found(id).socket, "FREQ_LIMIT_MAX",
                                    Hint!Limit(Hint!Found(id).hint)) :
            Hint!SetCores(Hint!Found(id).socket, "FREQ_LIMIT_MAX",
                          Hint!Limit(Hint!Found(id).hint), wrote)
    BY <1>2, <2>1 DEF Hint!Start
  <2> QED
    BY <1>3, <2>2
<1>9. CASE \E id \in DOMAIN regions : Hint!Stop(id) \/ Hint!Destroy(id)
  BY <1>5, <1>9 DEF Hint!Stop, Hint!Destroy
<1>10. CASE \E c \in Core : (\E g \in AppGov : Hint!AppSet(c, "GOV", g)) \/ Hint!AppSet(c, "FREQ", 20)
  BY <1>4, <1>10
<1> QED
  BY <1>6, <1>7, <1>8, <1>9, <1>10 DEF Hint!Next

\* The hints of the API (pwr.cc:365-482): a region is found with its own socket and hint
\* and the cores have what the last call for their socket gave them, for any sockets,
\* cores and cpus, any keys and however many of the files of each core were written.
THEOREM HintsCorrect ==
    ASSUME Hint!HintAssumption, Hint!OwnCpus
    PROVE  Hint!Spec => [](Hint!OwnHint /\ Hint!HintInForce)
<1>1. HintInv => Hint!OwnHint /\ Hint!HintInForce
  BY HintImplies
<1>2. Hint!Init => HintInv
  BY HintInit
<1>3. HintInv /\ [Hint!Next]_(Hint!vars) => HintInv'
  BY HintInductive
<1> QED
  BY <1>1, <1>2, <1>3, PTL DEF Hint!Spec
-----------------------------------------------------------------------------
(* The plugins.  A behaviour is one of a plugin: what is inductive for the *)
(* plugin is so for the sum.                                               *)

PluginInv ==
    /\ plugin = "tx2mon" => Tx2Inv
    /\ plugin = "rapl" => RaplInv
    /\ plugin = "wattsup" => WattsUpInv
    /\ plugin = "powercap" => PowercapInv
    /\ plugin = "dummy" => DummyInv
    /\ plugin = "toilet" => HintInv
    /\ plugin = "piapi" => PiapiInv
    /\ plugin = "counters" => CountersInv

LEMMA Assumed ==
    /\ T!Tx2monAssumption /\ Rapl!RaplAssumption /\ W!WattsUpAssumption
    /\ P!PowercapAssumption /\ Dummy!DummyAssumption /\ Hint!HintAssumption
    /\ I!PiapiAssumption /\ F!CountersAssumption /\ Hint!OwnCpus
  BY PluginAssumptions, UseAssumptions

LEMMA PluginInit == ASSUME Init PROVE PluginInv
<1>1. CASE plugin = "tx2mon"
  <2>1. T!Init
    BY <1>1 DEF Init
  <2> QED
    BY <1>1, <2>1, Assumed, Tx2Init DEF PluginInv
<1>2. CASE plugin = "rapl"
  <2>1. Rapl!RaplInit
    BY <1>2 DEF Init
  <2> QED
    BY <1>2, <2>1, Assumed, RaplStarted DEF PluginInv
<1>3. CASE plugin = "wattsup"
  <2>1. W!Init
    BY <1>3 DEF Init
  <2> QED
    BY <1>3, <2>1, WattsUpInit DEF PluginInv
<1>4. CASE plugin = "powercap"
  <2>1. P!Init
    BY <1>4 DEF Init
  <2> QED
    BY <1>4, <2>1, Assumed, PowercapInit DEF PluginInv
<1>5. CASE plugin = "dummy"
  <2>1. Dummy!Init
    BY <1>5 DEF Init
  <2> QED
    BY <1>5, <2>1, DummyInit DEF PluginInv
<1>6. CASE plugin = "toilet"
  <2>1. Hint!Init
    BY <1>6 DEF Init
  <2> QED
    BY <1>6, <2>1, Assumed, HintInit DEF PluginInv
<1>7. CASE plugin = "piapi"
  <2>1. I!Init
    BY <1>7 DEF Init
  <2> QED
    BY <1>7, <2>1, PiapiInit DEF PluginInv
<1>8. CASE plugin = "counters"
  <2>1. F!Init
    BY <1>8 DEF Init
  <2> QED
    BY <1>8, <2>1, CountersInit DEF PluginInv
<1>9. plugin \in {"tx2mon", "rapl", "wattsup", "powercap", "dummy", "toilet", "piapi",
                  "counters"}
  BY DEF Init
<1> QED
  BY <1>1, <1>2, <1>3, <1>4, <1>5, <1>6, <1>7, <1>8, <1>9

\* A step is one of the plugin.
LEMMA StepOfPlugin ==
    ASSUME [Next]_vars
    PROVE  /\ plugin' = plugin
           /\ plugin = "tx2mon" => T!Next \/ UNCHANGED T!vars
           /\ plugin = "rapl" => Rapl!Next \/ UNCHANGED Rapl!vars
           /\ plugin = "wattsup" => W!Next \/ UNCHANGED W!vars
           /\ plugin = "powercap" => P!Next \/ UNCHANGED P!vars
           /\ plugin = "dummy" => Dummy!Next \/ UNCHANGED Dummy!vars
           /\ plugin = "toilet" => Hint!Next \/ UNCHANGED Hint!vars
           /\ plugin = "piapi" => I!Next \/ UNCHANGED I!vars
           /\ plugin = "counters" => F!Next \/ UNCHANGED F!vars
<1>1. CASE UNCHANGED vars
  <2>1. /\ UNCHANGED <<plugin, now, handle, call, calls, crashed, reading>>
        /\ UNCHANGED tx2monVars /\ UNCHANGED raplVars /\ UNCHANGED wattsupVars
        /\ UNCHANGED powercapVars /\ UNCHANGED dummyVars /\ UNCHANGED toiletVars
        /\ UNCHANGED piapiVars /\ UNCHANGED counterVars
    BY <1>1 DEF vars
  <2>2. UNCHANGED T!vars
    BY <2>1 DEF tx2monVars, T!vars
  <2>3. UNCHANGED Rapl!vars
    BY <2>1 DEF raplVars, Rapl!vars
  <2>4. UNCHANGED W!vars
    BY <2>1 DEF wattsupVars, W!vars
  <2>5. UNCHANGED P!vars
    BY <2>1 DEF powercapVars, P!vars
  <2>6. UNCHANGED Dummy!vars
    BY <2>1 DEF dummyVars, Dummy!vars
  <2>7. UNCHANGED Hint!vars
    BY <2>1 DEF toiletVars, Hint!vars
  <2>8. UNCHANGED I!vars
    BY <2>1 DEF piapiVars, I!vars
  <2>9. UNCHANGED F!vars
    BY <2>1 DEF counterVars, F!vars
  <2> QED
    BY <2>1, <2>2, <2>3, <2>4, <2>5, <2>6, <2>7, <2>8, <2>9
<1>2. CASE Next
  BY <1>2 DEF Next, Tx2monStep, OfTx2mon, RaplStep, WattsUpStep, PowercapStep, DummyStep,
     ToiletStep, PiapiStep, CountersStep
<1> QED
  BY <1>1, <1>2

LEMMA PluginNext == ASSUME PluginInv, [Next]_vars PROVE PluginInv'
<1>1. plugin' = plugin
  BY StepOfPlugin
<1>2. ASSUME plugin = "tx2mon" PROVE Tx2Inv'
  <2>1. Tx2Inv /\ [T!Next]_(T!vars)
    BY <1>2, StepOfPlugin DEF PluginInv
  <2> QED
    BY <2>1, Assumed, Tx2Next
<1>3. ASSUME plugin = "rapl" PROVE RaplInv'
  <2>1. RaplInv /\ (Rapl!Next \/ UNCHANGED Rapl!vars)
    BY <1>3, StepOfPlugin DEF PluginInv
  <2> QED
    BY <2>1, Assumed, RaplInductive
<1>4. ASSUME plugin = "wattsup" PROVE WattsUpInv'
  <2>1. WattsUpInv /\ [W!Next]_(W!vars)
    BY <1>4, StepOfPlugin DEF PluginInv
  <2> QED
    BY <2>1, WattsUpNext
<1>5. ASSUME plugin = "powercap" PROVE PowercapInv'
  <2>1. PowercapInv /\ [P!Next]_(P!vars)
    BY <1>5, StepOfPlugin DEF PluginInv
  <2> QED
    BY <2>1, Assumed, PowercapNext
<1>6. ASSUME plugin = "dummy" PROVE DummyInv'
  <2>1. DummyInv /\ (Dummy!Next \/ UNCHANGED Dummy!vars)
    BY <1>6, StepOfPlugin DEF PluginInv
  <2> QED
    BY <2>1, Assumed, DummyInductive
<1>7. ASSUME plugin = "toilet" PROVE HintInv'
  <2>1. HintInv /\ (Hint!Next \/ UNCHANGED Hint!vars)
    BY <1>7, StepOfPlugin DEF PluginInv
  <2> QED
    BY <2>1, Assumed, HintInductive
<1>8. ASSUME plugin = "piapi" PROVE PiapiInv'
  <2>1. PiapiInv /\ [I!Next]_(I!vars)
    BY <1>8, StepOfPlugin DEF PluginInv
  <2> QED
    BY <2>1, Assumed, PiapiNext
<1>9. ASSUME plugin = "counters" PROVE CountersInv'
  <2>1. CountersInv /\ [F!Next]_(F!vars)
    BY <1>9, StepOfPlugin DEF PluginInv
  <2> QED
    BY <2>1, Assumed, CountersNext DEF F!CountersAssumption
<1> QED
  BY <1>1, <1>2, <1>3, <1>4, <1>5, <1>6, <1>7, <1>8, <1>9 DEF PluginInv

LEMMA PluginAlways == Spec => []PluginInv
<1>1. PluginInv /\ [Next]_vars => PluginInv'
  BY PluginNext
<1> QED
  BY PluginInit, <1>1, PTL DEF Spec

\* A reading of energy says what was consumed, of every plugin that adds energies up:
\* tx2mon (pwr_tx2mon.c:427), rapl (pwr_rapldev.c:257-326), powercap (pwr_powercap.c:114),
\* dummy (dummy_dev.c:130-160).
THEOREM EnergyIsConsumptionCorrect == Spec => []EnergyIsConsumption
<1>1. ASSUME Tx2Inv PROVE T!EnergyBounds
  BY <1>1, Assumed, EnergyWithin
<1>2. ASSUME RaplInv PROVE Rapl!DifferenceIsConsumption
  BY <1>2, Assumed, TwoReads DEF Rapl!DifferenceIsConsumption
<1>3. ASSUME PowercapInv PROVE P!SocketBounds
  BY <1>3, Assumed, SocketBoundsHold
<1>4. DummyInv => Dummy!NoTimeTwice
  BY DEF DummyInv
<1>5. PluginInv => EnergyIsConsumption
  BY <1>1, <1>2, <1>3, <1>4 DEF PluginInv, EnergyIsConsumption
<1> QED
  BY <1>5, PluginAlways, PTL

\* A power reading of tx2mon is of the time of the call (pwr_tx2mon.c:621-651).
THEOREM PluginReadingIsFresh == Spec => []ReadingIsFresh
<1>1. PluginInv => ReadingIsFresh
  BY DEF PluginInv, Tx2Inv, Tx2Reading, T!ReadingIsFresh, ReadingIsFresh
<1> QED
  BY <1>1, PluginAlways, PTL

\* The sampling thread of tx2mon goes to no freed handle (pwr_tx2mon.c:423), and devInfo
\* is freed after the thread (pwr_tx2mon.c:560).
THEOREM PluginNoneFreedInUse == Spec => NoneFreedInUse
<1>1. PluginInv /\ PluginInv' /\ [Next]_vars =>
          [plugin = "tx2mon" => T!PickStep /\ T!FreedAfterThread']_vars
  <2> SUFFICES ASSUME PluginInv, PluginInv', [Next]_vars, plugin = "tx2mon", vars' # vars
               PROVE  T!PickStep /\ T!FreedAfterThread'
    OBVIOUS
  <2>1. Tx2Inv /\ Tx2Inv' /\ (T!Next \/ UNCHANGED T!vars)
    BY StepOfPlugin DEF PluginInv
  <2>2. T!FreedAfterThread'
    BY <2>1 DEF Tx2Inv, Tx2Threads, T!FreedAfterThread
  <2>3. CASE T!Next
    BY <2>1, <2>2, <2>3, OpenPicked
  <2>4. CASE UNCHANGED T!vars
    <3>1. smp' = smp
      BY <2>4 DEF T!vars
    <3> QED
      BY <2>2, <3>1 DEF T!PickStep
  <2> QED
    BY <2>1, <2>3, <2>4
<1> QED
  BY <1>1, PluginAlways, PTL DEF Spec, NoneFreedInUse

\* A reading of wattsup is behind by the calls that went wrong (pwr_wudev.c:160-200).
THEOREM PluginLagIsFailures == Spec => []LagIsFailures
<1>1. PluginInv => LagIsFailures
  BY LagHolds DEF PluginInv, LagIsFailures
<1> QED
  BY <1>1, PluginAlways, PTL

\* A region has its own socket and hint, and the cores what the last call gave them
\* (pwr.cc:365-482, pwr_toiletdev.c:197-386).
THEOREM PluginHintInForce == Spec => []HintInForce
<1>1. ASSUME HintInv PROVE Hint!OwnHint /\ Hint!HintInForce
  BY <1>1, Assumed, HintImplies
<1>2. PluginInv => HintInForce
  BY <1>1 DEF PluginInv, HintInForce
<1> QED
  BY <1>2, PluginAlways, PTL

\* A governor takes a cpu over with the default limits, however many of the files of a
\* call could be written (pwr_toiletdev.c:273-333).
THEOREM PluginLimitsBeforeGovernor == Spec => LimitsBeforeGovernor
<1>1. PluginInv /\ [Next]_vars => [plugin = "toilet" => Hint!LimitsBeforeGovernor]_vars
  <2> SUFFICES ASSUME PluginInv, [Next]_vars, plugin = "toilet"
               PROVE  Hint!LimitsBeforeGovernor
    OBVIOUS
  <2>1. HintInv /\ (Hint!Next \/ UNCHANGED Hint!vars)
    BY StepOfPlugin DEF PluginInv
  <2> QED
    BY <2>1, Assumed, GovernorLast
<1> QED
  BY <1>1, PluginAlways, PTL DEF Spec, LimitsBeforeGovernor

\* A value that a reader of piapi takes alone is the last sample of its own port and
\* request, however many threads read (pwr_piapidev.c:50-229).
THEOREM PluginOwnSample == Spec => []OwnSample
<1>1. PluginInv => OwnSample
  BY DEF PluginInv, PiapiInv, OwnSample
<1> QED
  BY <1>1, PluginAlways, PTL

\* A counter of xtpm without a warning is of the generation seen before, and xtpm and
\* pmc close what they open (pwr_xtpmdev.c:50-181, pwr_pmcdev.c:58-83).
THEOREM PluginCountersChecked == Spec => []CountersChecked
<1>1. PluginInv => CountersChecked
  BY DEF PluginInv, CountersInv, CountersChecked
<1> QED
  BY <1>1, PluginAlways, PTL
=============================================================================
