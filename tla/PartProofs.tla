----------------------------- MODULE PartProofs -----------------------------
(***************************************************************************)
(* What is promised of the parts: the properties of Parts, for any         *)
(* constants.  The statistics and the start-up are proved about here, the  *)
(* routers in a module of their own.                                       *)
(***************************************************************************)
EXTENDS Parts, CommonLemmas, SequenceTheorems

-----------------------------------------------------------------------------
(* Statistics: the reduction of samples.                                   *)

\* What is left after the positions of s: the first of them, and of position 1, that no
\* other beats.
IsFirst(op, samples, s, r) ==
    /\ r.pos \in s \cup {1} /\ r = [value |-> samples[r.pos], pos |-> r.pos]
    /\ \A i \in s \cup {1} : /\ ~ S!Beats(op, samples[i], samples[r.pos])
                             /\ i < r.pos => S!Beats(op, samples[r.pos], samples[i])

\* One step of the fold.
BestOf(op, samples, best, i) ==
    IF S!Beats(op, samples[i], best.value) THEN [value |-> samples[i], pos |-> i] ELSE best

LEMMA BestStep ==
    ASSUME NEW op, NEW n \in Nat, NEW samples \in [1 .. n -> Nat], n >= 1,
           NEW s \in SUBSET (1 .. n), s # {}, NEW best, IsFirst(op, samples, Rest(s), best)
    PROVE  IsFirst(op, samples, s, BestOf(op, samples, best, Last(s)))
<1>1. PICK x \in s : x = Last(s) /\ x \in 1 .. n /\ \A y \in s : y <= x
  BY LastExists
<1>2. PICK p \in (s \ {x}) \cup {1} : p = best.pos /\ best.value = samples[p]
  BY <1>1 DEF IsFirst, Rest
<1>3. /\ p \in 1 .. n /\ p <= x
      /\ \A i \in (s \ {x}) \cup {1} : /\ ~ S!Beats(op, samples[i], samples[p])
                                       /\ i < p => S!Beats(op, samples[p], samples[i])
  BY <1>1, <1>2 DEF IsFirst, Rest
<1>4. \A i \in 1 .. n : samples[i] \in Nat
  OBVIOUS
<1>5. CASE S!Beats(op, samples[x], samples[p])
  <2>1. BestOf(op, samples, best, x) = [value |-> samples[x], pos |-> x]
    BY <1>2, <1>5 DEF BestOf
  <2>2. \A i \in (s \ {x}) \cup {1} :
            ~ S!Beats(op, samples[i], samples[x]) /\ S!Beats(op, samples[x], samples[i])
    BY <1>1, <1>3, <1>4, <1>5 DEF S!Beats
  <2>3. ~ S!Beats(op, samples[x], samples[x])
    BY <1>1, <1>4 DEF S!Beats
  <2> QED
    BY <1>1, <2>1, <2>2, <2>3 DEF IsFirst
<1>6. CASE ~ S!Beats(op, samples[x], samples[p])
  <2>1. BestOf(op, samples, best, x) = best /\ best = [value |-> samples[p], pos |-> p]
    BY <1>2, <1>6 DEF BestOf, IsFirst
  <2>2. ~(x < p)
    BY <1>1, <1>3
  <2> QED
    BY <1>1, <1>2, <1>3, <1>6, <2>1, <2>2 DEF IsFirst
<1> QED
  BY <1>5, <1>6

LEMMA FirstUnique ==
    ASSUME NEW op, NEW n \in Nat, NEW samples \in [1 .. n -> Nat], n >= 1,
           NEW s \in SUBSET (1 .. n), NEW a, NEW b, IsFirst(op, samples, s, a),
           IsFirst(op, samples, s, b)
    PROVE  a = b
<1>1. PICK p \in 1 .. n : /\ p = a.pos /\ p \in s \cup {1}
                          /\ a = [value |-> samples[p], pos |-> p]
  BY DEF IsFirst
<1>2. PICK q \in 1 .. n : /\ q = b.pos /\ q \in s \cup {1}
                          /\ b = [value |-> samples[q], pos |-> q]
  BY DEF IsFirst
<1>3. /\ p < q => S!Beats(op, samples[q], samples[p])
      /\ q < p => S!Beats(op, samples[p], samples[q])
      /\ ~ S!Beats(op, samples[q], samples[p]) /\ ~ S!Beats(op, samples[p], samples[q])
  BY <1>1, <1>2 DEF IsFirst
<1>4. p = q
  BY <1>3
<1> QED
  BY <1>1, <1>2, <1>4

\* The equation of the fold.
Fold(op, samples, f) ==
    [s \in SUBSET (DOMAIN samples) |->
        IF s = {} THEN [value |-> samples[1], pos |-> 1]
        ELSE BestOf(op, samples, f[Rest(s)], Last(s))]

LEMMA FoldIsFirst ==
    ASSUME NEW op, NEW n \in Nat, NEW samples \in [1 .. n -> Nat], n >= 1,
           NEW f, f = Fold(op, samples, f), NEW s \in SUBSET (1 .. n)
    PROVE  IsFirst(op, samples, s, f[s])
<1> DEFINE A == {t \in SUBSET (1 .. n) : ~ IsFirst(op, samples, t, f[t])}
<1>1. A \subseteq SUBSET (1 .. n)
      /\ \A t \in SUBSET (1 .. n) : t \in A <=> ~ IsFirst(op, samples, t, f[t])
  OBVIOUS
<1> HIDE DEF A
<1>2. ASSUME A # {} PROVE FALSE
  <2>1. IsFiniteSet(1 .. n)
    BY FS_Interval
  <2>2. PICK t \in A : \A x \in t : t \ {x} \notin A
    BY <1>1, <1>2, <2>1, SmallestSubset, Zenon
  <2>3. DOMAIN samples = 1 .. n /\ t \in SUBSET (1 .. n)
    BY <1>1, <2>2
  <2>4. f[t] = IF t = {} THEN [value |-> samples[1], pos |-> 1]
               ELSE BestOf(op, samples, f[Rest(t)], Last(t))
    BY <2>3 DEF Fold
  <2>5. t # {}
    <3> SUFFICES ASSUME t = {} PROVE FALSE
      OBVIOUS
    <3>1. f[t] = [value |-> samples[1], pos |-> 1]
      BY <2>4
    <3>2. samples[1] \in Nat
      OBVIOUS
    <3>3. ~ S!Beats(op, samples[1], samples[1])
      BY <3>2 DEF S!Beats
    <3>4. IsFirst(op, samples, t, f[t])
      BY <3>1, <3>3 DEF IsFirst
    <3> QED
      BY <1>1, <2>2, <3>4
  <2>6. Rest(t) \notin A /\ Rest(t) \in SUBSET (1 .. n)
    BY <2>2, <2>3, <2>5, LastExists DEF Rest
  <2>7. IsFirst(op, samples, Rest(t), f[Rest(t)])
    BY <1>1, <2>6
  <2>8. IsFirst(op, samples, t, f[t])
    BY <2>3, <2>4, <2>5, <2>7, BestStep
  <2> QED
    BY <1>1, <2>2, <2>8
<1> QED
  BY <1>1, <1>2

\* There is a function that meets the equation: for any positions there is a first.
LEMMA FirstExists ==
    ASSUME NEW op, NEW n \in Nat, NEW samples \in [1 .. n -> Nat], n >= 1,
           NEW s \in SUBSET (1 .. n)
    PROVE  \E r : IsFirst(op, samples, s, r)
<1> DEFINE A == {t \in SUBSET (1 .. n) : ~ \E r : IsFirst(op, samples, t, r)}
<1>1. A \subseteq SUBSET (1 .. n)
      /\ \A t \in SUBSET (1 .. n) : t \in A <=> ~ \E r : IsFirst(op, samples, t, r)
  OBVIOUS
<1> HIDE DEF A
<1>2. ASSUME A # {} PROVE FALSE
  <2>1. IsFiniteSet(1 .. n)
    BY FS_Interval
  <2>2. PICK t \in A : \A x \in t : t \ {x} \notin A
    BY <1>1, <1>2, <2>1, SmallestSubset, Zenon
  <2>3. t \in SUBSET (1 .. n)
    BY <1>1, <2>2
  <2>4. t # {}
    <3> SUFFICES ASSUME t = {} PROVE FALSE
      OBVIOUS
    <3> DEFINE r == [value |-> samples[1], pos |-> 1]
    <3>1. samples[1] \in Nat
      OBVIOUS
    <3>2. ~ S!Beats(op, samples[1], samples[1])
      BY <3>1 DEF S!Beats
    <3>3. IsFirst(op, samples, t, r)
      BY <3>2 DEF IsFirst
    <3> QED
      BY <1>1, <2>2, <3>3
  <2>5. Rest(t) \notin A /\ Rest(t) \in SUBSET (1 .. n)
    BY <2>2, <2>3, <2>4, LastExists DEF Rest
  <2>6. PICK r : IsFirst(op, samples, Rest(t), r)
    BY <1>1, <2>5
  <2>7. IsFirst(op, samples, t, BestOf(op, samples, r, Last(t)))
    BY <2>3, <2>4, <2>6, BestStep
  <2> QED
    BY <1>1, <2>2, <2>7
<1> QED
  BY <1>1, <1>2

First(op, samples, s) == CHOOSE r : IsFirst(op, samples, s, r)

LEMMA FoldExists ==
    ASSUME NEW op, NEW n \in Nat, NEW samples \in [1 .. n -> Nat], n >= 1
    PROVE  \E f : f = Fold(op, samples, f)
<1> DEFINE g == [s \in SUBSET (1 .. n) |-> First(op, samples, s)]
<1>1. DOMAIN samples = 1 .. n
  OBVIOUS
<1>2. ASSUME NEW s \in SUBSET (1 .. n)
      PROVE  g[s] = IF s = {} THEN [value |-> samples[1], pos |-> 1]
                    ELSE BestOf(op, samples, g[Rest(s)], Last(s))
  <2>1. IsFirst(op, samples, s, g[s])
    BY FirstExists DEF First
  <2> HIDE DEF g
  <2>2. CASE s = {}
    BY <2>1, <2>2 DEF IsFirst
  <2>3. CASE s # {}
    <3>1. Rest(s) \in SUBSET (1 .. n)
      BY DEF Rest
    <3>2. IsFirst(op, samples, Rest(s), g[Rest(s)])
      BY <3>1, FirstExists DEF First, g
    <3>3. IsFirst(op, samples, s, BestOf(op, samples, g[Rest(s)], Last(s)))
      BY <2>3, <3>2, BestStep
    <3> DEFINE r == BestOf(op, samples, g[Rest(s)], Last(s))
    <3>4. IsFirst(op, samples, s, r)
      BY <3>3
    <3> HIDE DEF r
    <3>5. g[s] = r
      BY <2>1, <3>4, FirstUnique
    <3> QED
      BY <2>3, <3>5 DEF r
  <2> QED
    BY <2>2, <2>3
<1>3. g = Fold(op, samples, g)
  BY <1>1, <1>2 DEF Fold
<1> QED
  BY <1>3

LEMMA ReduceIsFirst ==
    ASSUME NEW op, op # "Avg", NEW n \in Nat, NEW samples \in [1 .. n -> Nat], n >= 1
    PROVE  IsFirst(op, samples, 1 .. n, S!Reduce(op, samples))
<1> DEFINE seq == [i \in DOMAIN samples |-> i]
           Raw(f) == [s \in SUBSET (DOMAIN seq) |->
                        IF s = {} THEN [value |-> samples[1], pos |-> 1]
                        ELSE IF S!Beats(op, samples[seq[CHOOSE x \in s : \A y \in s : x >= y]],
                                   f[s \ {CHOOSE x \in s : \A y \in s : x >= y}].value)
                        THEN [value |-> samples[seq[CHOOSE x \in s : \A y \in s : x >= y]],
                              pos |-> seq[CHOOSE x \in s : \A y \in s : x >= y]]
                        ELSE f[s \ {CHOOSE x \in s : \A y \in s : x >= y}]]
           iter == CHOOSE f : f = Raw(f)
<1>1. S!Reduce(op, samples) = iter[DOMAIN seq]
  BY DEF S!Reduce, S!FoldLeftDomain, S!FoldLeft, S!MapThenFoldSet, S!Max
<1>2. DOMAIN seq = 1 .. n /\ DOMAIN samples = 1 .. n
  OBVIOUS
<1>3. ASSUME NEW f PROVE Raw(f) = Fold(op, samples, f)
  <2> DEFINE Greatest(s) == CHOOSE x \in s : \A y \in s : x >= y
             At(s) == IF s = {} THEN [value |-> samples[1], pos |-> 1]
                      ELSE BestOf(op, samples, f[s \ {Greatest(s)}], seq[Greatest(s)])
  <2>1. Raw(f) = [s \in SUBSET (DOMAIN seq) |-> At(s)]
    BY DEF BestOf
  <2>2. ASSUME NEW s \in SUBSET (1 .. n)
        PROVE  At(s) = IF s = {} THEN [value |-> samples[1], pos |-> 1]
                       ELSE BestOf(op, samples, f[Rest(s)], Last(s))
    <3>1. Greatest(s) = Last(s)
      BY DEF Last
    <3> HIDE DEF Greatest
    <3>2. s # {} => Last(s) \in 1 .. n
      BY LastExists
    <3>3. s # {} => seq[Greatest(s)] = Last(s)
      BY <1>2, <3>1, <3>2
    <3> HIDE DEF seq
    <3> QED
      BY <3>1, <3>3 DEF Rest
  <2> HIDE DEF Raw, At, seq
  <2> QED
    BY <1>2, <2>1, <2>2 DEF Fold
<1> HIDE DEF Raw
<1>4. iter = Raw(iter)
  <2>1. PICK f : f = Fold(op, samples, f)
    BY FoldExists
  <2>2. f = Raw(f)
    BY <1>3, <2>1
  <2> QED
    BY <2>2
<1> HIDE DEF Raw, iter
<1>5. iter = Fold(op, samples, iter)
  BY <1>3, <1>4
<1>6. IsFirst(op, samples, 1 .. n, iter[1 .. n])
  BY <1>5, FoldIsFirst
<1> QED
  BY <1>1, <1>2, <1>6
-----------------------------------------------------------------------------
(* Statistics: their times, the logs and the readings.                     *)

StatTypes ==
    /\ now \in Nat /\ now >= 1
    /\ stat \in [Stat -> [life : {"none", "live", "gone"}, isLogging : BOOLEAN,
                          startTime : Nat, stopTime : Nat]]
    /\ log \in [Obj -> BOOLEAN] /\ stopFailed \in BOOLEAN

\* No time is of the future; one that does not log was stopped after its start.
StatTimes ==
    \A s \in Stat :
        /\ stat[s].startTime <= now /\ stat[s].stopTime <= now
        /\ stat[s].life = "none" => stat[s].startTime = 0
        /\ stat[s].life = "live" /\ ~ stat[s].isLogging /\ stat[s].startTime # 0
               => stat[s].stopTime >= stat[s].startTime

StatInv == StatTypes /\ StatTimes /\ S!LogHasStat /\ S!RunningReading

LEMMA StatInit == ASSUME S!Init PROVE StatInv
<1>1. /\ now = 1 /\ log = [o \in Obj |-> FALSE] /\ stopFailed = FALSE /\ reading = S!NoReading
      /\ stat = [s \in Stat |-> [life |-> "none", isLogging |-> FALSE,
                                 startTime |-> 0, stopTime |-> 0]]
  BY DEF S!Init, S!NewStat, S!UNINIT
<1>2. StatTypes /\ StatTimes
  <2> DEFINE r == [life |-> "none", isLogging |-> FALSE, startTime |-> 0, stopTime |-> 0]
  <2>1. /\ r \in [life : {"none", "live", "gone"}, isLogging : BOOLEAN,
                  startTime : Nat, stopTime : Nat]
        /\ r.life = "none" /\ r.startTime = 0 /\ r.stopTime = 0
    OBVIOUS
  <2>2. stat = [s \in Stat |-> r]
    BY <1>1
  <2> HIDE DEF r
  <2>3. StatTypes
    <3>1. log \in [Obj -> BOOLEAN] /\ stopFailed \in BOOLEAN
      BY <1>1
    <3>2. stat \in [Stat -> [life : {"none", "live", "gone"}, isLogging : BOOLEAN,
                             startTime : Nat, stopTime : Nat]]
      BY <2>1, <2>2, Zenon
    <3> QED
      BY <1>1, <3>1, <3>2 DEF StatTypes
  <2>4. StatTimes
    BY <1>1, <2>1, <2>2 DEF StatTimes
  <2> QED
    BY <2>3, <2>4
<1>3. S!LogHasStat /\ S!RunningReading
  BY <1>1 DEF S!LogHasStat, S!RunningReading
<1> QED
  BY <1>2, <1>3 DEF StatInv

\* A member is in the range of the members.
LEMMA MembersAre ==
    ASSUME S!StatisticsAssumption, NEW s \in Stat
    PROVE  /\ Members[s] \in Seq(Obj) /\ Len(Members[s]) \in Nat
           /\ \A k \in 0 .. Len(Members[s]) : S!FirstMembers(s, k) \subseteq S!Range(Members[s])
           /\ S!FirstMembers(s, Len(Members[s])) = S!Range(Members[s])
<1>1. Members[s] \in Seq(Obj) /\ Len(Members[s]) \in Nat
  BY DEF S!StatisticsAssumption
<1>2. DOMAIN Members[s] = 1 .. Len(Members[s])
  BY <1>1
<1> QED
  BY <1>1, <1>2 DEF S!FirstMembers, S!Range

LEMMA StartStat ==
    ASSUME S!StatisticsAssumption, StatInv, NEW s \in Stat, S!Start(s) PROVE StatInv'
<1>1. PICK k \in 0 .. Len(Members[s]) :
         /\ stat[s].life = "live"
         /\ stat' = [stat EXCEPT ![s].isLogging = TRUE, ![s].startTime = now]
         /\ log' = S!Switched(s, k, TRUE) /\ reading' = S!NoReading
         /\ UNCHANGED <<now, stopFailed>>
  BY DEF S!Start, S!Before
<1>2. StatTypes /\ StatTimes /\ S!LogHasStat
  BY DEF StatInv
<1>3. /\ \A t \in Stat : t # s => stat'[t] = stat[t]
      /\ stat'[s].life = "live" /\ stat'[s].isLogging /\ stat'[s].startTime = now
      /\ stat'[s].stopTime = stat[s].stopTime
  BY <1>1, <1>2 DEF StatTypes
<1>4. StatTypes'
  BY <1>1, <1>2 DEF StatTypes, S!Switched
<1>5. StatTimes'
  BY <1>1, <1>2, <1>3 DEF StatTimes, StatTypes
<1>6. S!LogHasStat'
  <2> SUFFICES ASSUME NEW o \in Obj, log'[o], ~ stopFailed
               PROVE  \E t \in Stat : /\ stat'[t].life = "live" /\ stat'[t].isLogging
                                      /\ o \in S!Range(Members[t])
    BY <1>1 DEF S!LogHasStat
  <2>1. CASE o \in S!FirstMembers(s, k)
    BY <1>1, <1>3, <2>1, MembersAre
  <2>2. CASE o \notin S!FirstMembers(s, k)
    <3>1. log[o]
      BY <1>1, <2>2 DEF S!Switched
    <3>2. PICK t \in Stat : /\ stat[t].life = "live" /\ stat[t].isLogging
                            /\ o \in S!Range(Members[t])
      BY <1>2, <3>1 DEF S!LogHasStat
    <3> QED
      BY <1>3, <3>2
  <2> QED
    BY <2>1, <2>2
<1> QED
  BY <1>1, <1>4, <1>5, <1>6 DEF StatInv, S!RunningReading

LEMMA StopStat ==
    ASSUME S!StatisticsAssumption, StatInv, NEW s \in Stat, NEW k \in 0 .. Len(Members[s]),
           NEW life \in {"live", "gone"}, S!StopAt(s, k, life), reading' = S!NoReading,
           now' = now
    PROVE  StatInv'
<1>1. /\ stat' = [stat EXCEPT ![s] = [stat[s] EXCEPT !.isLogging = FALSE, !.life = life,
                                                     !.stopTime = now]]
      /\ log' = S!Switched(s, k, FALSE)
      /\ stopFailed' = (stopFailed \/ k < Len(Members[s]))
  BY DEF S!StopAt, S!StopTime
<1>2. StatTypes /\ StatTimes /\ S!LogHasStat
  BY DEF StatInv
<1>3. /\ \A t \in Stat : t # s => stat'[t] = stat[t]
      /\ stat'[s].life = life /\ stat'[s].isLogging = FALSE /\ stat'[s].stopTime = now
      /\ stat'[s].startTime = stat[s].startTime
  BY <1>1, <1>2 DEF StatTypes
<1>4. StatTypes'
  <2>1. stat'[s] \in [life : {"none", "live", "gone"}, isLogging : BOOLEAN,
                      startTime : Nat, stopTime : Nat]
    BY <1>1, <1>2 DEF StatTypes
  <2>2. log' \in [Obj -> BOOLEAN] /\ stopFailed' \in BOOLEAN
    BY <1>1, <1>2 DEF StatTypes, S!Switched
  <2> QED
    BY <1>1, <1>2, <2>1, <2>2 DEF StatTypes
<1>5. StatTimes'
  BY <1>2, <1>3 DEF StatTimes, StatTypes
<1>6. S!LogHasStat'
  <2> SUFFICES ASSUME NEW o \in Obj, log'[o], ~ stopFailed'
               PROVE  \E t \in Stat : /\ stat'[t].life = "live" /\ stat'[t].isLogging
                                      /\ o \in S!Range(Members[t])
    BY DEF S!LogHasStat
  <2>1. ~ stopFailed /\ k = Len(Members[s])
    <3>1. PICK l \in Nat : l = Len(Members[s])
      BY MembersAre
    <3>2. ~ stopFailed /\ ~(k < l)
      BY <1>1, <3>1
    <3> QED
      BY <3>1, <3>2
  <2>2. log[o] /\ o \notin S!Range(Members[s])
    BY <1>1, <2>1, MembersAre DEF S!Switched
  <2>3. PICK t \in Stat : /\ stat[t].life = "live" /\ stat[t].isLogging
                          /\ o \in S!Range(Members[t])
    BY <1>2, <2>1, <2>2 DEF S!LogHasStat
  <2> QED
    BY <1>3, <2>2, <2>3
<1> QED
  BY <1>4, <1>5, <1>6 DEF StatInv, S!RunningReading

\* The least and the most of the samples that a fold has found.
LEMMA BestIs ==
    ASSUME NEW op \in {"Min", "Max"}, NEW n \in Nat, NEW samples \in [1 .. n -> Nat], n >= 1,
           NEW r, IsFirst(op, samples, 1 .. n, r)
    PROVE  /\ r.pos \in 1 .. n /\ r.value = samples[r.pos]
           /\ r.value = IF op = "Min" THEN S!Min(S!Range(samples)) ELSE S!Max(S!Range(samples))
           /\ \A i \in 1 .. n : samples[i] = r.value => i >= r.pos
<1>1. PICK p \in 1 .. n : p = r.pos /\ r.value = samples[p]
  BY DEF IsFirst
<1>2. \A i \in 1 .. n : /\ ~ S!Beats(op, samples[i], samples[p])
                        /\ i < p => S!Beats(op, samples[p], samples[i])
  BY <1>1 DEF IsFirst
<1>3. \A i \in 1 .. n : samples[i] \in Nat
  OBVIOUS
<1>4. S!Range(samples) = {samples[i] : i \in 1 .. n}
  BY DEF S!Range
<1>5. \A i \in 1 .. n : IF op = "Min" THEN samples[p] <= samples[i] ELSE samples[p] >= samples[i]
  BY <1>2, <1>3 DEF S!Beats
<1>6. \A i \in 1 .. n : samples[i] = samples[p] => i >= p
  BY <1>2, <1>3 DEF S!Beats
<1>7. CASE op = "Min"
  <2>1. samples[p] \in S!Range(samples) /\ \A y \in S!Range(samples) : samples[p] <= y /\ y \in Nat
    BY <1>3, <1>4, <1>5, <1>7
  <2>2. \A x \in S!Range(samples) : (\A y \in S!Range(samples) : x <= y) => x = samples[p]
    BY <2>1
  <2>3. S!Min(S!Range(samples)) = samples[p]
    BY <2>1, <2>2 DEF S!Min
  <2> QED
    BY <1>1, <1>6, <1>7, <2>3
<1>8. CASE op = "Max"
  <2>1. samples[p] \in S!Range(samples) /\ \A y \in S!Range(samples) : samples[p] >= y /\ y \in Nat
    BY <1>3, <1>4, <1>5, <1>8
  <2>2. \A x \in S!Range(samples) : (\A y \in S!Range(samples) : x >= y) => x = samples[p]
    BY <2>1
  <2>3. S!Max(S!Range(samples)) = samples[p]
    BY <2>1, <2>2 DEF S!Max
  <2> QED
    BY <1>1, <1>6, <1>8, <2>3
<1> QED
  BY <1>7, <1>8

LEMMA GetStat ==
    ASSUME S!StatisticsAssumption, StatInv, NEW s \in Stat, S!CanGet(s),
           NEW samples \in [1 .. S!Samples(s) -> SampleValue], S!ObjGetValue(s, samples, now)
    PROVE  S!RunningReading'
<1>1. CASE ~ stat[s].isLogging
  <2>1. ~ reading'.running
    BY <1>1 DEF S!ObjGetValue
  <2> QED
    BY <2>1 DEF S!RunningReading
<1>2. CASE stat[s].isLogging
  <2>1. PICK p \in Nat \ {0} : p = Period
    BY DEF S!StatisticsAssumption
  <2>2. PICK from \in Nat : from = stat[s].startTime /\ from # 0 /\ from <= now
    BY DEF S!CanGet, S!UNINIT, StatInv, StatTypes, StatTimes
  <2>3. PICK d \in Nat : d = now - from
    BY <2>2 DEF StatInv, StatTypes
  <2>4. S!WindowStop(s) = now /\ S!Samples(s) = d \div p
    BY <1>2, <2>1, <2>2, <2>3 DEF S!WindowStop, S!Samples
  <2>5. PICK n \in Nat : n = d \div p /\ d % p \in 0 .. p - 1 /\ d = p * n + (d % p)
    BY Quotients
  <2>6. n >= 1 /\ S!Samples(s) = n
    <3>1. S!WindowStop(s) - stat[s].startTime < 0 \/ S!Samples(s) > 0
      BY DEF S!CanGet
    <3>2. S!WindowStop(s) - stat[s].startTime = d
      BY <2>2, <2>3, <2>4
    <3> QED
      BY <2>4, <2>5, <3>1, <3>2
  <2>7. samples \in [1 .. n -> Nat] /\ Len(samples) = n /\ DOMAIN samples = 1 .. n
    <3>1. SampleValue \subseteq Nat
      BY DEF S!StatisticsAssumption
    <3>2. samples \in [1 .. n -> SampleValue]
      BY <2>6
    <3>3. samples \in Seq(SampleValue) /\ Len(samples) = n
      BY <3>2
    <3> QED
      BY <3>1, <3>2, <3>3
  <2> DEFINE op == Op[s]
             best == S!Reduce(op, samples)
  <2>8. op \in {"Min", "Max", "Avg"}
    BY DEF S!StatisticsAssumption
  <2>9. PICK len \in Nat : len = n * p /\ len = p * n
    BY <2>1
  <2> DEFINE start == now - len
             instant == IF op = "Avg" THEN 0 ELSE start + (best.pos - 1) * p
  <2>10. reading' = [stat |-> s, at |-> now, running |-> stat[s].isLogging,
                     from |-> stat[s].startTime, to |-> S!WindowStop(s),
                     samples |-> samples, value |-> best.value,
                     start |-> now - Len(samples) * Period,
                     stop |-> (now - Len(samples) * Period) + Len(samples) * Period,
                     instant |-> IF Op[s] = "Avg" THEN S!UNINIT
                                 ELSE (now - Len(samples) * Period) + (best.pos - 1) * Period]
    BY DEF S!ObjGetValue
  <2>11. /\ reading'.at = now /\ reading'.from = from /\ reading'.samples = samples
         /\ reading'.value = best.value /\ reading'.start = start
         /\ reading'.stop = start + len /\ reading'.instant = instant /\ reading'.stat = s
    BY <2>1, <2>2, <2>7, <2>9, <2>10 DEF S!UNINIT
  <2> HIDE DEF op
  <2>12. op # "Avg" =>
            /\ best.pos \in 1 .. n
            /\ best.value = IF op = "Min" THEN S!Min(S!Range(samples))
                            ELSE S!Max(S!Range(samples))
            /\ \A i \in 1 .. n : samples[i] = best.value => i >= best.pos
    BY <2>6, <2>7, <2>8, ReduceIsFirst, BestIs
  <2> HIDE DEF best
  <2>13. now \in Nat /\ now = from + d /\ start \in Int /\ start + len = now
    BY <2>2, <2>3, <2>9 DEF StatInv, StatTypes
  <2>14. start - from \in 0 .. p - 1
    <3>1. PICK r \in 0 .. p - 1 : d = len + r
      BY <2>5, <2>9
    <3> QED
      BY <2>13, <3>1
  <2>15. ASSUME op # "Avg"
         PROVE  /\ (instant - start) \div p = best.pos - 1
                /\ instant \in start .. (start + len) - 1
    <3>1. PICK k \in Nat : k = best.pos - 1 /\ k < n
      BY <2>12, <2>15
    <3>2. PICK kp \in Nat : kp = k * p /\ kp = p * k
      BY <2>1
    <3>3. instant = start + kp
      BY <2>15, <3>1, <3>2
    <3>4. kp + p <= len
      BY <2>9, <3>1, <3>2, MultipleGrows
    <3>5. kp \div p = k
      <4>1. PICK q \in Nat : q = kp \div p /\ kp % p \in 0 .. (p - 1) /\ kp = p * q + (kp % p)
        BY Quotients
      <4>2. PICK r \in 0 .. p - 1 : r = kp % p
        BY <4>1
      <4>3. PICK pq \in Nat : pq = p * q
        OBVIOUS
      <4>4. kp = pq + r
        BY <4>1, <4>2, <4>3
      <4>5. k < q => kp + p <= pq
        BY <3>2, <4>3, MultipleGrows
      <4>6. q < k => pq + p <= kp
        BY <3>2, <4>3, MultipleGrows
      <4>7. q = k
        BY <4>4, <4>5, <4>6
      <4> QED
        BY <4>1, <4>7
    <3>6. instant - start = kp
      BY <2>13, <3>3
    <3> QED
      BY <2>13, <3>1, <3>3, <3>4, <3>5, <3>6
  <2> HIDE DEF start
  <2>16. op = "Avg" => instant = 0
    OBVIOUS
  <2> HIDE DEF instant
  <2>17. op = Op[reading'.stat]
    BY <2>11 DEF op
  <2> SUFFICES
        /\ start + len = now /\ start - from \in 0 .. p - 1
        /\ instant # 0 =>
             /\ instant \in start .. (start + len) - 1
             /\ best.value = IF op = "Min" THEN S!Min(S!Range(samples))
                             ELSE S!Max(S!Range(samples))
             /\ \A i \in DOMAIN samples :
                    samples[i] = best.value => i > (instant - start) \div p
    BY <2>1, <2>11, <2>12, <2>16, <2>17 DEF S!RunningReading, S!UNINIT
  <2>18. op # "Avg" => \A i \in DOMAIN samples :
                           samples[i] = best.value => i > (instant - start) \div p
    BY <2>7, <2>12, <2>15
  <2> QED
    BY <2>12, <2>13, <2>14, <2>15, <2>16, <2>18
<1> QED
  BY <1>1, <1>2

LEMMA StatNext ==
    ASSUME S!StatisticsAssumption, StatInv, [S!Next]_S!vars PROVE StatInv'
<1>1. StatTypes /\ StatTimes /\ S!LogHasStat /\ S!RunningReading
  BY DEF StatInv
<1>2. CASE S!Tick
  <2>1. now' = now + 1 /\ reading' = S!NoReading /\ UNCHANGED <<stat, log, stopFailed>>
    BY <1>2 DEF S!Tick
  <2>2. StatTypes' /\ StatTimes'
    BY <1>1, <2>1 DEF StatTypes, StatTimes
  <2> QED
    BY <1>1, <2>1, <2>2 DEF StatInv, S!LogHasStat, S!RunningReading
<1>3. ASSUME NEW s \in Stat, S!Create(s) PROVE StatInv'
  <2>1. /\ stat[s].life = "none" /\ stat' = [stat EXCEPT ![s].life = "live"]
        /\ reading' = S!NoReading /\ UNCHANGED <<now, log, stopFailed>>
    BY <1>3 DEF S!Create
  <2>2. StatTypes'
    BY <1>1, <2>1 DEF StatTypes
  <2>3. /\ \A t \in Stat : t # s => stat'[t] = stat[t]
        /\ stat'[s].life = "live" /\ stat'[s].startTime = stat[s].startTime
        /\ stat'[s].stopTime = stat[s].stopTime
    BY <1>1, <2>1 DEF StatTypes
  <2>4. StatTimes'
    BY <1>1, <2>1, <2>3 DEF StatTimes
  <2>5. S!LogHasStat'
    BY <1>1, <2>1, <2>3 DEF S!LogHasStat
  <2> QED
    BY <2>1, <2>2, <2>4, <2>5 DEF StatInv, S!RunningReading
<1>4. ASSUME NEW s \in Stat, S!Stop(s) \/ S!Clear(s) PROVE StatInv'
  BY <1>4, StopStat DEF S!Stop, S!Clear
<1>5. ASSUME NEW s \in Stat, S!Destroy(s) PROVE StatInv'
  <2>1. CASE stat[s].isLogging
    BY <1>5, <2>1, StopStat DEF S!Destroy
  <2>2. CASE ~ stat[s].isLogging
    <3>1. /\ stat' = [stat EXCEPT ![s].life = "gone"] /\ reading' = S!NoReading
          /\ UNCHANGED <<now, log, stopFailed>>
      BY <1>5, <2>2 DEF S!Destroy
    <3>2. StatTypes'
      BY <1>1, <3>1 DEF StatTypes
    <3>3. /\ \A t \in Stat : t # s => stat'[t] = stat[t]
          /\ stat'[s].life = "gone" /\ stat'[s].startTime = stat[s].startTime
          /\ stat'[s].stopTime = stat[s].stopTime
      BY <1>1, <3>1 DEF StatTypes
    <3>4. StatTimes'
      BY <1>1, <3>1, <3>3 DEF StatTimes
    <3>5. S!LogHasStat'
      BY <1>1, <2>2, <3>1, <3>3 DEF S!LogHasStat
    <3> QED
      BY <3>1, <3>2, <3>4, <3>5 DEF StatInv, S!RunningReading
  <2> QED
    BY <2>1, <2>2
<1>6. ASSUME NEW s \in Stat, S!GetValue(s) \/ S!GetValues(s) PROVE StatInv'
  <2>1. UNCHANGED <<now, stat, log, stopFailed>>
    BY <1>6 DEF S!GetValue, S!GetValues
  <2>2. StatTypes' /\ StatTimes' /\ S!LogHasStat'
    BY <1>1, <2>1 DEF StatTypes, StatTimes, S!LogHasStat
  <2>3. \/ reading' = S!NoReading
        \/ /\ S!CanGet(s)
           /\ \E samples \in [1 .. S!Samples(s) -> SampleValue] : S!ObjGetValue(s, samples, now)
    BY <1>6 DEF S!GetValue, S!GetValues
  <2>4. S!RunningReading'
    BY <2>3, GetStat DEF S!RunningReading
  <2> QED
    BY <2>2, <2>4 DEF StatInv
<1>7. CASE UNCHANGED S!vars
  <2>1. UNCHANGED <<now, stat, log, stopFailed, reading>>
    BY <1>7 DEF S!vars
  <2>2. StatTypes' /\ StatTimes'
    BY <1>1, <2>1 DEF StatTypes, StatTimes
  <2>3. S!LogHasStat' /\ S!RunningReading'
    BY <1>1, <2>1 DEF S!LogHasStat, S!RunningReading
  <2> QED
    BY <2>2, <2>3 DEF StatInv
<1> QED
  BY <1>2, <1>3, <1>4, <1>5, <1>6, <1>7, StartStat DEF S!Next

LEMMA StatSound == StatInv => S!LogHasStat /\ S!WindowForward /\ S!RunningReading
  BY DEF StatInv, StatTypes, StatTimes, S!WindowForward, S!WindowStop, S!UNINIT

\* A device logs only for a statistic that will stop it, a window never ends before it
\* begins, and a reading of a running statistic covers the time since its start, with
\* the instant of the first sample that has its value (deviceStat.cc:20-155), for any
\* groups, samples, period and clock.
THEOREM StatisticsCorrect ==
    ASSUME S!StatisticsAssumption
    PROVE  S!Spec => [](S!LogHasStat /\ S!WindowForward /\ S!RunningReading)
<1>1. StatInv => S!LogHasStat /\ S!WindowForward /\ S!RunningReading
  BY StatSound
<1>2. S!Init => StatInv
  BY StatInit
<1>3. StatInv /\ [S!Next]_S!vars => StatInv'
  BY StatNext
<1> QED
  BY <1>1, <1>2, <1>3, PTL DEF S!Spec
-----------------------------------------------------------------------------
(* Start-up: a launcher and its daemon.                                    *)

State == {"none", "up", "ended"}
Work == {"building", "working", "ended"}
Stages == {"fork", "forked", "pause", "run", "barrier", "done", "aborted"}

\* What these proofs need of the types.
StartUpTypeOK ==
    /\ launcher \in [U!Node -> Stages] /\ app \in [U!Node -> Nat]
    /\ daemon \in [U!Node -> State] /\ clientOf \in [U!Node -> State]
    /\ thread \in [U!Node -> Seq(Work)] /\ mutex \in [U!Node -> BOOLEAN]

\* The thread that is in its constructor is the last, and has main wait.
OneBuilds(n) ==
    \A k \in DOMAIN thread[n] :
        thread[n][k] = "building" => k = Len(thread[n]) /\ mutex[n]

\* All of the daemon is at work, or it is no more.
Serves(n) ==
    \/ daemon[n] = "ended"
    \/ U!AllMade(n) /\ \A k \in DOMAIN thread[n] : thread[n][k] # "building"

\* The launcher has come past the pause that waits for the daemon.
PastDaemon(n) ==
    \/ app[n] > 1
    \/ app[n] = 1 /\ launcher[n] = "fork"
    \/ launcher[n] \in {"run", "barrier", "done"}

\* A client is the second application, and is killed before the barrier.
ClientIsSecond(n) == clientOf[n] = "up" => app[n] > 1
ClientIsKilled(n) == launcher[n] \in {"barrier", "done"} => clientOf[n] # "up"

NodeInv(n) ==
    /\ OneBuilds(n) /\ (PastDaemon(n) => Serves(n))
    /\ ClientIsSecond(n) /\ ClientIsKilled(n)

UInv == StartUpTypeOK /\ \A n \in U!Node : NodeInv(n)
-----------------------------------------------------------------------------
(* What the ranks decide stays as it is.                                   *)

LEMMA NodesStay == ASSUME ranks' = ranks PROVE U!Node' = U!Node /\ U!NumNodes' = U!NumNodes
  BY DEF U!Node, U!NumNodes, U!Launchers

LEMMA ComponentsStay ==
    ASSUME UNCHANGED U!setUp
    PROVE  /\ U!Node' = U!Node
           /\ \A n : U!Components(n)' = U!Components(n)
           /\ \A n : U!NumApps(n)' = U!NumApps(n)
  BY NodesStay DEF U!setUp, U!Components, U!NumApps, U!ClientNode, U!ImARtr, U!RootNode, U!BoardHost

-----------------------------------------------------------------------------
(* A step is one of one node, and leaves the others as they are.           *)

Same(m) ==
    /\ launcher'[m] = launcher[m] /\ app'[m] = app[m] /\ daemon'[m] = daemon[m]
    /\ clientOf'[m] = clientOf[m] /\ thread'[m] = thread[m] /\ mutex'[m] = mutex[m]

LEMMA SameInv ==
    ASSUME UNCHANGED U!setUp, NEW m \in U!Node, Same(m), NodeInv(m)
    PROVE  NodeInv(m)'
  BY ComponentsStay DEF Same, NodeInv, OneBuilds, PastDaemon, Serves, U!AllMade,
     ClientIsSecond, ClientIsKilled

LEMMA OfOneNode ==
    ASSUME UInv, UNCHANGED U!setUp, NEW n \in U!Node, StartUpTypeOK', NodeInv(n)',
           \A m \in U!Node \ {n} : Same(m)
    PROVE  UInv'
<1>1. U!Node' = U!Node
  BY ComponentsStay
<1>2. \A m \in U!Node : NodeInv(m)'
  BY SameInv DEF UInv
<1> QED
  BY <1>1, <1>2 DEF UInv

\* What a signal does to a launcher: it ends the pause, or nothing.
LEMMA SignalEnds ==
    ASSUME StartUpTypeOK, UNCHANGED U!setUp, NEW n \in U!Node, NEW sig, U!Signal(n, sig)
    PROVE  /\ launcher' \in [U!Node -> Stages]
           /\ \A m \in U!Node \ {n} : launcher'[m] = launcher[m]
           /\ \/ launcher'[n] = launcher[n]
              \/ launcher[n] = "pause" /\ launcher'[n] \in {"fork", "run"}
  BY DEF StartUpTypeOK, U!Signal, Stages

LEMMA ForkInv == ASSUME UInv, NEW n \in U!Node, U!Fork(n) PROVE UInv'
<1>1. UNCHANGED U!setUp /\ U!Node' = U!Node
  BY NodesStay DEF U!Fork, U!setUp
<1>2. StartUpTypeOK'
  <2>1. launcher' \in [U!Node -> Stages] /\ app' \in [U!Node -> Nat]
    BY DEF UInv, StartUpTypeOK, U!Fork, Stages
  <2>2. daemon' \in [U!Node -> State] /\ clientOf' \in [U!Node -> State]
    BY DEF UInv, StartUpTypeOK, U!Fork, State
  <2> QED
    BY <1>1, <2>1, <2>2 DEF UInv, StartUpTypeOK, U!Fork, U!inDaemon
<1>3. \A m \in U!Node \ {n} : Same(m)
  BY DEF UInv, StartUpTypeOK, U!Fork, Same, U!inDaemon
<1>4. NodeInv(n)'
  <2>1. U!Components(n)' = U!Components(n)
    BY <1>1, ComponentsStay
  <2>2. NodeInv(n)
    BY DEF UInv
  <2>3. /\ launcher[n] = "fork" /\ launcher'[n] = "forked" /\ app'[n] = app[n] + 1
        /\ app[n] \in Nat /\ thread' = thread /\ mutex' = mutex
        /\ app[n] # 0 => daemon' = daemon
        /\ app[n] = 0 => clientOf' = clientOf
    BY DEF UInv, StartUpTypeOK, U!Fork, U!inDaemon
  <2> QED
    BY <2>1, <2>2, <2>3 DEF NodeInv, OneBuilds, PastDaemon, Serves, U!AllMade,
       ClientIsSecond, ClientIsKilled
<1> QED
  BY <1>1, <1>2, <1>3, <1>4, OfOneNode

LEMMA PauseInv == ASSUME UInv, NEW n \in U!Node, U!Pause(n) PROVE UInv'
<1>1. UNCHANGED U!setUp /\ U!Node' = U!Node
  BY NodesStay DEF U!Pause, U!setUp
<1>2. StartUpTypeOK'
  BY <1>1 DEF UInv, StartUpTypeOK, U!Pause, Stages, U!inDaemon
<1>3. \A m \in U!Node \ {n} : Same(m)
  BY DEF UInv, StartUpTypeOK, U!Pause, Same, U!inDaemon
<1>4. NodeInv(n)'
  <2>1. U!Components(n)' = U!Components(n)
    BY <1>1, ComponentsStay
  <2>2. NodeInv(n)
    BY DEF UInv
  <2>3. /\ launcher[n] = "forked" /\ launcher'[n] = "pause"
        /\ UNCHANGED <<app, daemon, clientOf, thread, mutex>>
    BY DEF UInv, StartUpTypeOK, U!Pause, U!inDaemon
  <2> QED
    BY <2>1, <2>2, <2>3 DEF NodeInv, OneBuilds, PastDaemon, Serves, U!AllMade,
       ClientIsSecond, ClientIsKilled
<1> QED
  BY <1>1, <1>2, <1>3, <1>4, OfOneNode

\* A launcher that is aborted leaves its daemon and its client as they are.
LEMMA AbortInv == ASSUME UInv, NEW n \in U!Node, U!Abort(n) PROVE UInv'
<1>1. UNCHANGED U!setUp /\ U!Node' = U!Node
  BY NodesStay DEF U!Abort, U!setUp
<1>2. /\ launcher' = [launcher EXCEPT ![n] = "aborted"]
      /\ UNCHANGED <<app, daemon, clientOf, thread, mutex>>
  BY DEF U!Abort, U!inDaemon
<1>3. StartUpTypeOK'
  BY <1>1, <1>2 DEF UInv, StartUpTypeOK, Stages
<1>4. \A m \in U!Node \ {n} : Same(m)
  BY <1>2 DEF UInv, StartUpTypeOK, Same
<1>5. NodeInv(n)'
  <2>1. U!Components(n)' = U!Components(n)
    BY <1>1, ComponentsStay
  <2>2. NodeInv(n) /\ launcher'[n] = "aborted"
    BY <1>2 DEF UInv, StartUpTypeOK
  <2> QED
    BY <1>2, <2>1, <2>2 DEF NodeInv, OneBuilds, PastDaemon, Serves, U!AllMade,
       ClientIsSecond, ClientIsKilled
<1> QED
  BY <1>1, <1>3, <1>4, <1>5, OfOneNode

\* The end of a daemon takes its threads with it.
LEMMA EndTypes ==
    ASSUME StartUpTypeOK, NEW n \in U!Node, U!End(n)
    PROVE  /\ daemon' \in [U!Node -> State] /\ thread' \in [U!Node -> Seq(Work)]
           /\ mutex' \in [U!Node -> BOOLEAN]
           /\ daemon'[n] = "ended" /\ thread'[n] = <<>>
<1>1. daemon' \in [U!Node -> State] /\ daemon'[n] = "ended"
  BY DEF StartUpTypeOK, U!End, State
<1>2. <<>> \in Seq(Work)
  OBVIOUS
<1>3. thread' \in [U!Node -> Seq(Work)] /\ thread'[n] = <<>>
  BY <1>2 DEF StartUpTypeOK, U!End
<1>4. mutex' \in [U!Node -> BOOLEAN]
  BY DEF StartUpTypeOK, U!End
<1> QED
  BY <1>1, <1>3, <1>4

\* A daemon that ends serves nobody, but it is no more.
LEMMA DaemonEndsInv ==
    ASSUME UInv, NEW n \in U!Node, U!DaemonEnds(n) PROVE UInv'
<1>1. UNCHANGED U!setUp /\ U!Node' = U!Node
  BY NodesStay DEF U!DaemonEnds, U!setUp
<1>2. /\ launcher' \in [U!Node -> Stages]
      /\ \A m \in U!Node \ {n} : launcher'[m] = launcher[m]
      /\ \/ launcher'[n] = launcher[n]
         \/ launcher[n] = "pause" /\ launcher'[n] \in {"fork", "run"}
  BY <1>1, SignalEnds DEF UInv, U!DaemonEnds
<1>3. StartUpTypeOK'
  BY <1>1, <1>2, EndTypes DEF UInv, U!DaemonEnds, StartUpTypeOK
<1>4. \A m \in U!Node \ {n} : Same(m)
  BY <1>2 DEF UInv, StartUpTypeOK, U!DaemonEnds, U!End, Same
<1>5. NodeInv(n)'
  <2>1. U!Components(n)' = U!Components(n)
    BY <1>1, ComponentsStay
  <2>2. NodeInv(n)
    BY DEF UInv
  <2>3. /\ daemon'[n] = "ended" /\ thread'[n] = <<>>
        /\ UNCHANGED <<app, clientOf>>
    BY EndTypes DEF UInv, U!DaemonEnds
  <2> QED
    BY <1>2, <2>1, <2>2, <2>3 DEF NodeInv, OneBuilds, PastDaemon, Serves, U!AllMade,
       ClientIsSecond, ClientIsKilled
<1> QED
  BY <1>1, <1>3, <1>4, <1>5, OfOneNode

\* A client ends: there is one, so its launcher is past the daemon.
LEMMA ClientEndsInv == ASSUME UInv, NEW n \in U!Node, U!ClientEnds(n) PROVE UInv'
<1>1. UNCHANGED U!setUp /\ U!Node' = U!Node
  BY NodesStay DEF U!ClientEnds, U!setUp
<1>2. /\ launcher' \in [U!Node -> Stages]
      /\ \A m \in U!Node \ {n} : launcher'[m] = launcher[m]
      /\ \/ launcher'[n] = launcher[n]
         \/ launcher[n] = "pause" /\ launcher'[n] \in {"fork", "run"}
  BY <1>1, SignalEnds DEF UInv, U!ClientEnds
<1>3. StartUpTypeOK'
  BY <1>1, <1>2 DEF UInv, StartUpTypeOK, U!ClientEnds, State, U!inDaemon
<1>4. \A m \in U!Node \ {n} : Same(m)
  BY <1>2 DEF UInv, StartUpTypeOK, U!ClientEnds, Same, U!inDaemon
<1>5. NodeInv(n)'
  <2>1. U!Components(n)' = U!Components(n)
    BY <1>1, ComponentsStay
  <2>2. NodeInv(n)
    BY DEF UInv
  <2>3. /\ clientOf[n] = "up" /\ clientOf'[n] = "ended"
        /\ UNCHANGED <<app, daemon, thread, mutex>>
    BY DEF UInv, StartUpTypeOK, U!ClientEnds, U!inDaemon
  <2> QED
    BY <1>2, <2>1, <2>2, <2>3 DEF NodeInv, OneBuilds, PastDaemon, Serves, U!AllMade,
       ClientIsSecond, ClientIsKilled
<1> QED
  BY <1>1, <1>3, <1>4, <1>5, OfOneNode

LEMMA CreateInv == ASSUME UInv, NEW n \in U!Node, U!Create(n) PROVE UInv'
<1>1. UNCHANGED U!setUp /\ U!Node' = U!Node
  BY NodesStay DEF U!Create, U!setUp
<1>2. StartUpTypeOK'
  BY <1>1 DEF UInv, StartUpTypeOK, U!Create, Work
<1>3. \A m \in U!Node \ {n} : Same(m)
  BY DEF UInv, StartUpTypeOK, U!Create, Same
<1>4. NodeInv(n)'
  <2>1. U!Components(n)' = U!Components(n)
    BY <1>1, ComponentsStay
  <2>2. NodeInv(n) /\ thread[n] \in Seq(Work) /\ ~mutex[n]
    BY DEF UInv, StartUpTypeOK, U!Create
  <2>3. /\ thread'[n] = Append(thread[n], "building") /\ mutex'[n] = TRUE
        /\ UNCHANGED <<launcher, app, daemon, clientOf>>
        /\ Len(thread[n]) # Len(U!Components(n)) /\ daemon[n] = "up"
    BY DEF UInv, StartUpTypeOK, U!Create, U!InMain, U!AllMade
  <2>4. ~PastDaemon(n)
    BY <2>2, <2>3 DEF NodeInv, Serves, U!AllMade
  <2>5. OneBuilds(n)'
    BY <2>2, <2>3 DEF NodeInv, OneBuilds
  <2> QED
    BY <2>2, <2>3, <2>4, <2>5 DEF NodeInv, PastDaemon, ClientIsSecond, ClientIsKilled
<1> QED
  BY <1>1, <1>2, <1>3, <1>4, OfOneNode

\* The thread that unlocks the mutex was the one that builds.
LEMMA ConstructInv ==
    ASSUME UInv, NEW n \in U!Node, NEW k \in DOMAIN thread[n], U!Construct(n, k) PROVE UInv'
<1>1. UNCHANGED U!setUp /\ U!Node' = U!Node
  BY NodesStay DEF U!Construct, U!setUp
<1>2. StartUpTypeOK'
  BY <1>1 DEF UInv, StartUpTypeOK, U!Construct, U!Unlocked, Work
<1>3. \A m \in U!Node \ {n} : Same(m)
  BY DEF UInv, StartUpTypeOK, U!Construct, U!Unlocked, Same
<1>4. NodeInv(n)'
  <2>1. U!Components(n)' = U!Components(n)
    BY <1>1, ComponentsStay
  <2>2. NodeInv(n) /\ thread[n] \in Seq(Work) /\ thread[n][k] = "building"
    BY DEF UInv, StartUpTypeOK, U!Construct
  <2>3. /\ thread'[n] = [thread[n] EXCEPT ![k] = "working"]
        /\ UNCHANGED <<launcher, app, daemon, clientOf>>
    BY DEF UInv, StartUpTypeOK, U!Construct
  <2>4. /\ Len(thread'[n]) = Len(thread[n])
        /\ \A i \in DOMAIN thread'[n] : i \in DOMAIN thread[n] /\ thread'[n][i] # "building"
    BY <2>2, <2>3 DEF NodeInv, OneBuilds
  <2> QED
    BY <2>1, <2>2, <2>3, <2>4 DEF NodeInv, OneBuilds, PastDaemon, Serves, U!AllMade,
       ClientIsSecond, ClientIsKilled
<1> QED
  BY <1>1, <1>2, <1>3, <1>4, OfOneNode

LEMMA ServerEndsInv ==
    ASSUME UInv, NEW n \in U!Node, NEW k \in DOMAIN thread[n], U!ServerEnds(n, k) PROVE UInv'
<1>1. UNCHANGED U!setUp /\ U!Node' = U!Node
  BY NodesStay DEF U!ServerEnds, U!setUp
<1>2. StartUpTypeOK'
  BY <1>1 DEF UInv, StartUpTypeOK, U!ServerEnds, Work
<1>3. \A m \in U!Node \ {n} : Same(m)
  BY DEF UInv, StartUpTypeOK, U!ServerEnds, Same
<1>4. NodeInv(n)'
  <2>1. U!Components(n)' = U!Components(n)
    BY <1>1, ComponentsStay
  <2>2. NodeInv(n) /\ thread[n] \in Seq(Work)
    BY DEF UInv, StartUpTypeOK
  <2>3. /\ thread'[n] = [thread[n] EXCEPT ![k] = "ended"]
        /\ UNCHANGED <<launcher, app, daemon, clientOf, mutex>>
    BY DEF UInv, StartUpTypeOK, U!ServerEnds
  <2>4. /\ Len(thread'[n]) = Len(thread[n])
        /\ \A i \in DOMAIN thread'[n] :
              i \in DOMAIN thread[n]
              /\ (thread'[n][i] = "building" => thread[n][i] = "building")
    BY <2>2, <2>3
  <2> QED
    BY <2>1, <2>2, <2>3, <2>4 DEF NodeInv, OneBuilds, PastDaemon, Serves, U!AllMade,
       ClientIsSecond, ClientIsKilled
<1> QED
  BY <1>1, <1>2, <1>3, <1>4, OfOneNode

\* main signals when it gets the mutex after the last thread.
LEMMA ReadyInv == ASSUME UInv, NEW n \in U!Node, U!Ready(n) PROVE UInv'
<1>1. UNCHANGED U!setUp /\ U!Node' = U!Node
  BY NodesStay DEF U!Ready, U!setUp
<1>2. /\ launcher' \in [U!Node -> Stages]
      /\ \A m \in U!Node \ {n} : launcher'[m] = launcher[m]
      /\ \/ launcher'[n] = launcher[n]
         \/ launcher[n] = "pause" /\ launcher'[n] \in {"fork", "run"}
  BY <1>1, SignalEnds DEF UInv, U!Ready
<1>3. StartUpTypeOK'
  BY <1>1, <1>2 DEF UInv, StartUpTypeOK, U!Ready
<1>4. \A m \in U!Node \ {n} : Same(m)
  BY <1>2 DEF UInv, StartUpTypeOK, U!Ready, Same
<1>5. NodeInv(n)'
  <2>1. U!Components(n)' = U!Components(n)
    BY <1>1, ComponentsStay
  <2>2. NodeInv(n) /\ ~mutex[n] /\ U!AllMade(n)
    BY DEF UInv, U!Ready, U!LastLock
  <2>3. UNCHANGED <<app, daemon, clientOf, thread>>
    BY DEF U!Ready
  <2> QED
    BY <1>2, <2>1, <2>2, <2>3 DEF NodeInv, OneBuilds, PastDaemon, Serves, U!AllMade,
       ClientIsSecond, ClientIsKilled
<1> QED
  BY <1>1, <1>3, <1>4, <1>5, OfOneNode

LEMMA KillClientInv == ASSUME UInv, NEW n \in U!Node, U!KillClient(n) PROVE UInv'
<1>1. UNCHANGED U!setUp /\ U!Node' = U!Node
  BY NodesStay DEF U!KillClient, U!setUp
<1>2. StartUpTypeOK'
  BY <1>1 DEF UInv, StartUpTypeOK, U!KillClient, Stages, State, U!inDaemon
<1>3. \A m \in U!Node \ {n} : Same(m)
  BY DEF UInv, StartUpTypeOK, U!KillClient, Same, U!inDaemon
<1>4. NodeInv(n)'
  <2>1. U!Components(n)' = U!Components(n)
    BY <1>1, ComponentsStay
  <2>2. NodeInv(n)
    BY DEF UInv
  <2>3. /\ launcher[n] = "run" /\ launcher'[n] = "barrier" /\ clientOf'[n] # "up"
        /\ UNCHANGED <<app, daemon, thread, mutex>>
    BY DEF UInv, StartUpTypeOK, U!KillClient, U!inDaemon
  <2> QED
    BY <2>1, <2>2, <2>3 DEF NodeInv, OneBuilds, PastDaemon, Serves, U!AllMade,
       ClientIsSecond, ClientIsKilled
<1> QED
  BY <1>1, <1>2, <1>3, <1>4, OfOneNode

LEMMA KillDaemonInv == ASSUME UInv, NEW n \in U!Node, U!KillDaemon(n) PROVE UInv'
<1>1. UNCHANGED U!setUp /\ U!Node' = U!Node
  BY NodesStay DEF U!KillDaemon, U!setUp
<1>2. StartUpTypeOK'
  BY <1>1, EndTypes DEF UInv, StartUpTypeOK, U!KillDaemon, Stages
<1>3. \A m \in U!Node \ {n} : Same(m)
  BY DEF UInv, StartUpTypeOK, U!KillDaemon, U!End, Same
<1>4. NodeInv(n)'
  <2>1. U!Components(n)' = U!Components(n)
    BY <1>1, ComponentsStay
  <2>2. NodeInv(n)
    BY DEF UInv
  <2>3. /\ launcher[n] = "barrier" /\ launcher'[n] = "done" /\ daemon'[n] = "ended"
        /\ thread'[n] = <<>> /\ UNCHANGED <<app, clientOf>>
    BY EndTypes DEF UInv, StartUpTypeOK, U!KillDaemon
  <2> QED
    BY <2>1, <2>2, <2>3 DEF NodeInv, OneBuilds, PastDaemon, Serves, U!AllMade,
       ClientIsSecond, ClientIsKilled
<1> QED
  BY <1>1, <1>2, <1>3, <1>4, OfOneNode

LEMMA StayInv ==
    ASSUME UInv, UNCHANGED <<U!setUp, launcher, app, daemon, clientOf, thread, mutex>>
    PROVE  UInv'
<1>1. U!Node' = U!Node /\ \A m \in U!Node : Same(m)
  BY NodesStay DEF U!setUp, Same
<1>2. \A m \in U!Node : NodeInv(m)'
  BY <1>1, SameInv DEF UInv
<1> QED
  BY <1>1, <1>2 DEF UInv, StartUpTypeOK
-----------------------------------------------------------------------------
LEMMA InitUInv == U!Init => UInv
<1> SUFFICES ASSUME U!Init PROVE UInv
  OBVIOUS
<1>1. StartUpTypeOK
  BY DEF U!Init, StartUpTypeOK, Stages, State, Work
<1>2. ASSUME NEW n \in U!Node PROVE NodeInv(n)
  <2>1. /\ launcher[n] = "fork" /\ app[n] = 0 /\ daemon[n] = "none"
        /\ clientOf[n] = "none" /\ thread[n] = <<>>
    BY DEF U!Init
  <2> QED
    BY <2>1 DEF NodeInv, OneBuilds, PastDaemon, ClientIsSecond, ClientIsKilled
<1> QED
  BY <1>1, <1>2 DEF UInv

LEMMA NextUInv == UInv /\ [U!Next]_(U!vars) => UInv'
<1> SUFFICES ASSUME UInv, [U!Next]_(U!vars) PROVE UInv'
  OBVIOUS
<1>1. CASE UNCHANGED U!vars
  BY <1>1, StayInv DEF U!vars, U!setUp
<1>2. ASSUME NEW n \in U!Node, U!LauncherStep(n) PROVE UInv'
  BY <1>2, AbortInv, ForkInv, PauseInv DEF U!LauncherStep
<1>3. ASSUME NEW n \in U!Node, U!DaemonStep(n) PROVE UInv'
  <2>1. CASE U!Create(n)
    BY <2>1, CreateInv
  <2>2. CASE U!Ready(n)
    BY <2>2, ReadyInv
  <2>3. CASE U!MainEnds(n)
    BY <2>3, DaemonEndsInv DEF U!MainEnds
  <2>4. ASSUME NEW k \in DOMAIN thread[n], U!Construct(n, k) PROVE UInv'
    BY <2>4, ConstructInv
  <2>5. ASSUME NEW k \in DOMAIN thread[n], U!Retry(n, k) PROVE UInv'
    BY <2>5, StayInv DEF U!Retry
  <2>6. ASSUME NEW k \in DOMAIN thread[n], U!GiveUp(n, k) PROVE UInv'
    BY <2>6, DaemonEndsInv DEF U!GiveUp
  <2>7. ASSUME NEW k \in DOMAIN thread[n], U!ServerEnds(n, k) PROVE UInv'
    BY <2>7, ServerEndsInv
  <2> QED
    BY <1>3, <2>1, <2>2, <2>3, <2>4, <2>5, <2>6, <2>7 DEF U!DaemonStep
<1>4. ASSUME NEW n \in U!Node, U!ExecFails(n) PROVE UInv'
  BY <1>4, DaemonEndsInv DEF U!ExecFails
<1>5. ASSUME NEW n \in U!Node, U!ClientEnds(n) PROVE UInv'
  BY <1>5, ClientEndsInv
<1>6. ASSUME NEW n \in U!Node, U!KillClient(n) PROVE UInv'
  BY <1>6, KillClientInv
<1>7. ASSUME NEW n \in U!Node, U!KillDaemon(n) PROVE UInv'
  BY <1>7, KillDaemonInv
<1>8. ASSUME NEW n \in U!Node, NEW k \in DOMAIN thread[n], U!ConstructFails(n, k) PROVE UInv'
  BY <1>8, DaemonEndsInv DEF U!ConstructFails
<1> QED
  BY <1>1, <1>2, <1>3, <1>4, <1>5, <1>6, <1>7, <1>8 DEF U!Next

LEMMA ServingFromInv == UInv => U!ReadyIsServing
  BY DEF UInv, NodeInv, OneBuilds, PastDaemon, Serves, U!ReadyIsServing

\* When MPI_Init returns on a node its daemon is at work or is no more, and one thread
\* at a time is in a constructor (powerrt.cc:257, pwrdaemon.cc:100).
THEOREM ReadyIsServingCorrect == U!Spec => []U!ReadyIsServing
<1>1. UInv => U!ReadyIsServing
  BY ServingFromInv
<1> QED
  BY <1>1, InitUInv, NextUInv, PTL DEF U!Spec

\* Only the step that kills the daemon ends a launcher.
LEMMA EndIsKill ==
    ASSUME UInv, [U!Next]_(U!vars), NEW n \in U!Node, launcher[n] = "barrier", launcher'[n] = "done"
    PROVE  U!KillDaemon(n)
<1>1. launcher'[n] # launcher[n]
  OBVIOUS
<1>2. ASSUME NEW m \in U!Node, NEW sig, UNCHANGED U!setUp, U!Signal(m, sig) PROVE FALSE
  BY <1>2, <1>1, SignalEnds DEF UInv
<1>3. ASSUME NEW m \in U!Node, U!LauncherStep(m) PROVE FALSE
  BY <1>3, <1>1 DEF U!LauncherStep, U!Abort, U!Fork, U!Pause, UInv, StartUpTypeOK
<1>4. ASSUME NEW m \in U!Node, U!DaemonStep(m) PROVE FALSE
  <2>1. ASSUME NEW k \in DOMAIN thread[m],
               U!Construct(m, k) \/ U!Retry(m, k) \/ U!GiveUp(m, k) \/ U!ServerEnds(m, k)
        PROVE  FALSE
    BY <1>1, <1>2, <2>1 DEF U!Construct, U!Retry, U!GiveUp, U!ServerEnds, U!DaemonEnds
  <2>2. CASE U!Create(m)
    BY <1>1, <2>2 DEF U!Create
  <2>3. CASE U!Ready(m) \/ U!MainEnds(m)
    BY <1>2, <2>3 DEF U!Ready, U!MainEnds, U!DaemonEnds
  <2> QED
    BY <1>4, <2>1, <2>2, <2>3 DEF U!DaemonStep
<1>5. ASSUME NEW m \in U!Node, U!ExecFails(m) \/ U!ClientEnds(m) PROVE FALSE
  BY <1>2, <1>5 DEF U!ExecFails, U!ClientEnds, U!DaemonEnds
<1>6. ASSUME NEW m \in U!Node, U!KillClient(m) PROVE FALSE
  BY <1>6, <1>1 DEF U!KillClient, UInv, StartUpTypeOK
<1>7. ASSUME NEW m \in U!Node, U!KillDaemon(m) PROVE m = n
  BY <1>7, <1>1 DEF U!KillDaemon, UInv, StartUpTypeOK
<1>8. ASSUME NEW m \in U!Node, NEW k \in DOMAIN thread[m], U!ConstructFails(m, k) PROVE FALSE
  BY <1>2, <1>8 DEF U!ConstructFails, U!DaemonEnds
<1>9. ~UNCHANGED U!vars
  BY <1>1 DEF U!vars
<1> QED
  BY <1>3, <1>4, <1>5, <1>6, <1>7, <1>8, <1>9 DEF U!Next

LEMMA KilledLast == ASSUME UInv, [U!Next]_(U!vars) PROVE U!NoneCutOff
<1> SUFFICES ASSUME NEW n \in U!Node, NEW m \in U!Node,
                    launcher[n] = "barrier", launcher'[n] = "done"
             PROVE  clientOf[m] # "up"
  BY DEF U!NoneCutOff
<1>1. U!KillDaemon(n)
  BY EndIsKill
<1> QED
  BY <1>1 DEF U!KillDaemon, U!Barrier, UInv, NodeInv, ClientIsKilled

\* No daemon is killed while a client of any node is there: each launcher kills its own
\* before the barrier (powerrt.cc:282-296).
THEOREM NoneCutOffCorrect == U!Spec => [][U!NoneCutOff]_(U!vars)
<1>1. UInv /\ [U!Next]_(U!vars) => [U!NoneCutOff]_(U!vars)
  BY KilledLast
<1> QED
  BY <1>1, InitUInv, NextUInv, PTL DEF U!Spec
-----------------------------------------------------------------------------
(* The tree of routers: what is proved in RouterTreeProofs is about the    *)
(* instance of that module; its definitions are those of RouterTree.       *)

RP == INSTANCE RouterTreeProofs WITH NumNodes <- TreeNodes, NodesPerBoard <- TreeBoard

LEMMA SameRouters == R!Router = RP!Router /\ \A b : R!AtBoard(b) = RP!AtBoard(b)
  BY DEF R!NumBoards, RP!NumBoards, R!Leaf, RP!Leaf, R!RootId, RP!RootId, R!RootNode,
         RP!RootNode, R!LeafRuns, RP!LeafRuns, R!Router, RP!Router, R!AtBoard,
         RP!AtBoard

LEMMA SameTreeAssumptions == (R!TreeAssumption <=> RP!TreeAssumption) /\ (R!ServerAssumption <=> RP!ServerAssumption)
  BY DEF R!TreeAssumption, RP!TreeAssumption, R!NumBoards, RP!NumBoards, R!Leaf,
         RP!Leaf, R!RootId, RP!RootId, R!RootNode, RP!RootNode, R!LeafRuns, RP!LeafRuns,
         R!Router, RP!Router, R!RouteTable, RP!RouteTable, R!ServerAssumption,
         RP!ServerAssumption

LEMMA SameTreeInit == R!Init <=> RP!Init
  BY DEF R!NumBoards, RP!NumBoards, R!Leaf, RP!Leaf, R!RootId, RP!RootId, R!RootNode,
         RP!RootNode, R!LeafRuns, RP!LeafRuns, R!Router, RP!Router, R!Init, RP!Init

LEMMA SameClientRequest == \A q, s : R!ClientRequest(q, s) <=> RP!ClientRequest(q, s)
  BY DEF R!NumBoards, RP!NumBoards, R!RootId, RP!RootId, R!RootNode, RP!RootNode,
         R!LeafRuns, RP!LeafRuns, R!AtBoard, RP!AtBoard, R!Links, RP!Links, R!Nowhere,
         RP!Nowhere, R!findRoute, RP!findRoute, R!InRange, RP!InRange, R!getChannel,
         RP!getChannel, R!Target, RP!Target, R!Forward, RP!Forward, R!Deliver,
         RP!Deliver, R!ClientRequest, RP!ClientRequest

LEMMA SameFromRouter == \A q, p : R!FromRouter(q, p) <=> RP!FromRouter(q, p)
  BY DEF R!NumBoards, RP!NumBoards, R!RootId, RP!RootId, R!RootNode, RP!RootNode,
         R!LeafRuns, RP!LeafRuns, R!AtBoard, RP!AtBoard, R!Links, RP!Links, R!Nowhere,
         RP!Nowhere, R!findRoute, RP!findRoute, R!InRange, RP!InRange, R!getChannel,
         RP!getChannel, R!Target, RP!Target, R!Deliver, RP!Deliver, R!FromRouter,
         RP!FromRouter

LEMMA SameTreeConnect == \A s : R!ServerConnect(s) <=> RP!ServerConnect(s)
  BY DEF R!Flushed, RP!Flushed, R!Erased, RP!Erased, R!ServerConnect, RP!ServerConnect

LEMMA SameTreeTake == \A s : R!ServerTake(s) <=> RP!ServerTake(s)
  BY DEF R!ServerTake, RP!ServerTake

LEMMA SameFromServer == \A s : R!FromServer(s) <=> RP!FromServer(s)
  BY DEF R!NumBoards, RP!NumBoards, R!RootId, RP!RootId, R!RootNode, RP!RootNode,
         R!LeafRuns, RP!LeafRuns, R!AtBoard, RP!AtBoard, R!Links, RP!Links, R!Nowhere,
         RP!Nowhere, R!findRoute, RP!findRoute, R!InRange, RP!InRange, R!getChannel,
         RP!getChannel, R!Target, RP!Target, R!Forward, RP!Forward, R!FromServer,
         RP!FromServer

LEMMA SameTreeNext == (R!Next => RP!Next) /\ (UNCHANGED R!vars => UNCHANGED RP!vars)
<1>1. UNCHANGED R!vars => UNCHANGED RP!vars
  BY DEF R!vars, RP!vars
<1> QED
  BY <1>1, SameRouters, SameClientRequest, SameFromRouter, SameTreeConnect, SameTreeTake,
     SameFromServer DEF R!Next, RP!Next

LEMMA SameAnswersInOrder == R!AnswersInOrder <=> RP!AnswersInOrder
  BY DEF R!AnswersInOrder, RP!AnswersInOrder

LEMMA SameNoneDangling == R!NoneDangling <=> RP!NoneDangling
  BY DEF R!NoneDangling, RP!NoneDangling

LEMMA SameTreeType == R!TypeOK <=> RP!TypeOK
  BY DEF R!NumBoards, RP!NumBoards, R!Leaf, RP!Leaf, R!RootId, RP!RootId, R!RootNode,
         RP!RootNode, R!LeafRuns, RP!LeafRuns, R!Router, RP!Router, R!TypeOK, RP!TypeOK

LEMMA SameNumbers == \A q, kind, p, s : R!Numbers(q, kind, p, s) = RP!Numbers(q, kind, p, s)
  BY DEF R!Numbers, RP!Numbers, R!Mine, RP!Mine

LEMMA SameChannel == \A p, id : R!getChannel(p, id) = RP!getChannel(p, id)
  BY DEF R!NumBoards, RP!NumBoards, R!RootId, RP!RootId, R!RootNode, RP!RootNode,
         R!LeafRuns, RP!LeafRuns, R!AtBoard, RP!AtBoard, R!Links, RP!Links, R!InRange,
         RP!InRange, R!getChannel, RP!getChannel

LEMMA SameInTransit == \A q, s : R!InTransit(q, s) = RP!InTransit(q, s)
<1>1. \A links, p, d, kind, src, s :
          R!OnLinks(links, p, d, kind, src, s) = RP!OnLinks(links, p, d, kind, src, s)
  BY SameNumbers, SameChannel DEF R!OnLinks, RP!OnLinks
<1> QED
  BY <1>1, SameNumbers DEF R!InTransit, RP!InTransit
-----------------------------------------------------------------------------
(* A step of Parts is a step of its part.                                  *)

LEMMA StepOfPart ==
    ASSUME [Next]_vars
    PROVE  /\ part' = part
           /\ part = "tree" => R!Next \/ UNCHANGED R!vars
           /\ part = "statistics" => S!Next \/ UNCHANGED S!vars
           /\ part = "startup" => U!Next \/ UNCHANGED U!vars
<1>1. CASE UNCHANGED vars
  <2>1. /\ UNCHANGED <<part, toServer, now, pc, app>>
        /\ UNCHANGED treeVars /\ UNCHANGED statVars /\ UNCHANGED startUpVars
    BY <1>1 DEF vars
  <2>2. UNCHANGED R!vars
    BY <2>1 DEF treeVars, R!vars
  <2>3. UNCHANGED S!vars
    BY <2>1 DEF statVars, S!vars
  <2>4. UNCHANGED U!vars
    BY <2>1 DEF startUpVars, U!vars
  <2> QED
    BY <2>1, <2>2, <2>3, <2>4
<1>2. CASE Next
  BY <1>2 DEF Next, TreeStep, OfTree, StatStep, HwlocStep, ConfigStep, StartUpStep,
              OfStartUp, WireStep, LoggerStep
<1> QED
  BY <1>1, <1>2

LEMMA Assumed ==
    S!StatisticsAssumption /\ RP!TreeAssumption /\ RP!ServerAssumption
  BY PartAssumptions, SameTreeAssumptions

LEMMA UseRouted == ASSUME RoutedUse PROVE RP!Routed /\ Early = FALSE
  BY Assumed, SameRouters DEF RoutedUse, RP!Routed

TreeInv == part = "tree" => RP!KnownInv
StatPartInv == part = "statistics" => StatInv
StartUpInv == part = "startup" => UInv

LEMMA PartInit ==
    ASSUME Init
    PROVE  StatPartInv /\ StartUpInv /\ (RoutedUse => TreeInv)
<1>1. ASSUME part = "tree", RoutedUse PROVE RP!KnownInv
  <2>1. RP!Init
    BY <1>1, SameTreeInit DEF Init
  <2> QED
    BY <1>1, <2>1, UseRouted, RP!InitKnown
<1>2. ASSUME part = "statistics" PROVE StatInv
  BY <1>2, StatInit DEF Init
<1>3. ASSUME part = "startup" PROVE UInv
  BY <1>3, InitUInv DEF Init
<1> QED
  BY <1>1, <1>2, <1>3 DEF TreeInv, StatPartInv, StartUpInv

LEMMA TreeNext ==
    ASSUME RoutedUse, TreeInv, [Next]_vars
    PROVE  TreeInv'
<1>1. part' = part
  BY StepOfPart
<1>2. ASSUME part = "tree" PROVE RP!KnownInv'
  <2>1. RP!KnownInv
    BY <1>2 DEF TreeInv
  <2>2. [RP!Next]_(RP!vars)
    BY <1>2, StepOfPart, SameTreeNext
  <2> QED
    BY <2>1, <2>2, UseRouted, RP!NextKnown
<1> QED
  BY <1>1, <1>2 DEF TreeInv

LEMMA StatPartNext == ASSUME StatPartInv, [Next]_vars PROVE StatPartInv'
<1>1. part' = part
  BY StepOfPart
<1>2. ASSUME part = "statistics" PROVE StatInv'
  BY <1>2, StepOfPart, Assumed, StatNext DEF StatPartInv
<1> QED
  BY <1>1, <1>2 DEF StatPartInv

LEMMA StartUpNext == ASSUME StartUpInv, [Next]_vars PROVE StartUpInv'
<1>1. part' = part
  BY StepOfPart
<1>2. ASSUME part = "startup" PROVE UInv'
  BY <1>2, StepOfPart, NextUInv DEF StartUpInv
<1> QED
  BY <1>1, <1>2 DEF StartUpInv

-----------------------------------------------------------------------------
(* What is promised of the parts.                                          *)

\* The answers come back in the order of the requests, each once, and no event is
\* deleted that waits (router.cc:129-194).
THEOREM PartAnswersInOrder == ASSUME RoutedUse PROVE Spec => []AnswersInOrder
<1>1. ASSUME TreeInv, part = "tree" PROVE R!AnswersInOrder /\ R!NoneDangling
  <2>1. RP!KnownInv
    BY <1>1 DEF TreeInv
  <2>2. RP!TreeInv /\ RP!NoneDangling
    BY <2>1 DEF RP!KnownInv, RP!NoneDangling
  <2> QED
    BY <2>2, UseRouted, RP!OrderOfAnswers, SameAnswersInOrder, SameNoneDangling
<1>2. TreeInv => AnswersInOrder
  BY <1>1 DEF AnswersInOrder
<1>3. TreeInv /\ [Next]_vars => TreeInv'
  BY TreeNext
<1>4. Init => TreeInv
  BY PartInit
<1> QED
  BY <1>2, <1>3, <1>4, PTL DEF Spec

LEMMA SameTransitNext == (\A q, s : R!InTransit(q, s) = RP!InTransit(q, s))'
  BY SameInTransit, PTL

\* The routers of a tree are one queue from each router to each server (router.cc:110-194).
THEOREM PartImplementsDelivery == ASSUME RoutedUse PROVE Spec => ImplementsDelivery
<1> DEFINE numbers == IF part = "tree" THEN sent ELSE [p \in Asks |-> 0]
           queue == [p \in Asks |-> IF part = "tree" THEN R!InTransit(p[1], p[2]) ELSE <<>>]
<1>1. Init => D!Init
  <2> SUFFICES ASSUME Init PROVE D!Init
    OBVIOUS
  <2>1. CASE part # "tree"
    BY <2>1 DEF D!Init
  <2>2. CASE part = "tree"
    <3>1. RP!Init
      BY <2>2, SameTreeInit DEF Init
    <3>2. \A p \in Asks : RP!Going(p) = <<>>
      BY <3>1, UseRouted, RP!InitWay
    <3>3. \A p \in Asks : R!InTransit(p[1], p[2]) = <<>>
      BY <3>2, SameInTransit DEF RP!Going
    <3>4. sent = [p \in Asks |-> 0]
      BY <3>1 DEF RP!Init
    <3> QED
      BY <2>2, <3>3, <3>4 DEF D!Init
  <2> QED
    BY <2>1, <2>2
<1>2. TreeInv /\ [Next]_vars => [D!Next]_<<numbers, queue>>
  <2> SUFFICES ASSUME TreeInv, [Next]_vars
               PROVE  D!Next \/ UNCHANGED <<numbers, queue>>
    OBVIOUS
  <2>1. part' = part
    BY StepOfPart
  <2>2. CASE part # "tree"
    BY <2>1, <2>2
  <2>3. CASE part = "tree"
    <3>1. [RP!Next]_(RP!vars)
      BY <2>3, StepOfPart, SameTreeNext
    <3>2. RP!TreeInv
      BY <2>3 DEF TreeInv, RP!KnownInv
    <3>3. numbers = sent /\ numbers' = sent' /\ queue = RP!Queue /\ queue' = RP!Queue'
      BY <2>1, <2>3, SameInTransit, SameTransitNext DEF RP!Queue
    <3>4. RP!D!Next \/ UNCHANGED <<sent, RP!Queue>>
      BY <3>1, <3>2, UseRouted, RP!StepDelivers
    <3>5. RP!D!Next => D!Next
      BY <2>1, <2>3, <3>3 DEF RP!D!Next, D!Next, RP!D!Send, D!Send, RP!D!Take, D!Take, RP!Queue
    <3> QED
      BY <3>3, <3>4, <3>5
  <2> QED
    BY <2>2, <2>3
<1>3. Init => TreeInv
  BY PartInit
<1>4. TreeInv /\ [Next]_vars => TreeInv'
  BY TreeNext
<1> QED
  BY <1>1, <1>2, <1>3, <1>4, PTL DEF Spec, ImplementsDelivery, D!Spec

\* A device logs only for a statistic that will stop it, a window never ends before it
\* begins, and a reading of a running statistic covers the time since its start
\* (deviceStat.cc:20-155).
THEOREM PartStatisticsSound == Spec => []StatisticsSound
<1>1. StatPartInv => StatisticsSound
  BY StatSound DEF StatPartInv, StatisticsSound
<1>2. StatPartInv /\ [Next]_vars => StatPartInv'
  BY StatPartNext
<1>3. Init => StatPartInv
  BY PartInit
<1> QED
  BY <1>1, <1>2, <1>3, PTL DEF Spec

\* When MPI_Init returns on a node its daemon is at work or is no more
\* (powerrt.cc:257, pwrdaemon.cc:100).
THEOREM PartReadyIsServing == Spec => []ReadyIsServing
<1>1. StartUpInv => ReadyIsServing
  BY ServingFromInv DEF StartUpInv, ReadyIsServing
<1>2. StartUpInv /\ [Next]_vars => StartUpInv'
  BY StartUpNext
<1>3. Init => StartUpInv
  BY PartInit
<1> QED
  BY <1>1, <1>2, <1>3, PTL DEF Spec

\* No daemon is killed while a client of any node is there (powerrt.cc:282-296).
THEOREM PartNoneCutOff == Spec => NoneCutOff
<1>1. StartUpInv /\ [Next]_vars => [part = "startup" => U!NoneCutOff]_vars
  <2> SUFFICES ASSUME StartUpInv, [Next]_vars, part = "startup" PROVE U!NoneCutOff
    OBVIOUS
  <2>1. UInv /\ (U!Next \/ UNCHANGED U!vars)
    BY StepOfPart DEF StartUpInv
  <2> QED
    BY <2>1, KilledLast
<1>2. StartUpInv /\ [Next]_vars => StartUpInv'
  BY StartUpNext
<1>3. Init => StartUpInv
  BY PartInit
<1> QED
  BY <1>1, <1>2, <1>3, PTL DEF Spec, NoneCutOff
=============================================================================
