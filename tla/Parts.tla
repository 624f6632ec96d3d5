------------------------------- MODULE Parts -------------------------------
(***************************************************************************)
(* The parts of the library and of the daemon that have a module of their  *)
(* own.  As they are modelled they share nothing, so that a behaviour is   *)
(* one of one part, chosen in the initial state: the variables of that     *)
(* part are those of its module, by the same names, and the others are     *)
(* Unused.                                                                 *)
(***************************************************************************)
EXTENDS Integers, Sequences, FiniteSets

CONSTANTS
    Unused,
    TreeNodes, TreeBoard, Server, Asks, Unrouted, Early, MaxSent,  \* tree of routers
    Obj, Stat, Members, Groups, Op, Period, SampleValue, MaxTime,  \* statistics
    Unmatched,
    Machine, PluginList,                                        \* hwloc
    RankTable, NodesPerBoard, MaxTries,                         \* start-up
    PyMachine, XmlFile, AskName, MaxCalls,                      \* configuration
    Base, IntBytes, LongBytes, Asked, NumLists, Garbage,        \* wire
    ValueAt(_, _), TimeAt(_, _), Errors, Hops,
    LogObj, TypeGrp, Args, Power, Second, RateReads, LogTime    \* logger

VARIABLES
    part,
    localMap, pending, link, fromServer, sent, answered, dangling,
    stat, log, reading, crashed, stopFailed,
    hw, libs, number, parent, children, attrs,
    config, root, objMap, grp, calls,
    ranks, client, oneShot, launcher, daemon, clientOf, thread, mutex, tries, ready,
    handled, missed,
    req, lists, hops, toRouter, info, comms, object, done, errs, answers, toClient,
    args, timer, next, buf, bad, startValue, rounds, stop, logStart, windows, lines,
    written,
    toServer, now, pc, app   \* of several

R == INSTANCE RouterTree WITH NumNodes <- TreeNodes, NodesPerBoard <- TreeBoard
S == INSTANCE Statistics WITH Value <- SampleValue
H == INSTANCE Hwloc
U == INSTANCE StartUp
G == INSTANCE ConfigContext
W == INSTANCE Wire WITH Request <- Asked, Reading <- ValueAt, Stamp <- TimeAt
L == INSTANCE Logger WITH Obj <- LogObj, MaxTime <- LogTime

ASSUME PartAssumptions ==
    /\ R!TreeAssumption /\ R!ServerAssumption
    /\ S!StatisticsAssumption /\ H!HwlocAssumption /\ U!StartUpAssumption
    /\ G!ConfigContextAssumption /\ W!WireAssumption /\ L!LoggerAssumption

\* What these properties need: every server is in the route table, its board has a
\* router, and it is asked when it has connected.
RoutedUse == Unrouted = {} /\ ~Early /\ \A s \in Server : s.rtr \in R!Router

-----------------------------------------------------------------------------
\* The variables that only one part has.
treeVars == <<localMap, pending, link, fromServer, sent, answered, dangling>>
statVars == <<stat, log, reading, crashed, stopFailed>>
hwlocVars == <<hw, libs, number, parent, children, attrs>>
configVars == <<config, root, objMap, grp, calls>>
startUpVars == <<ranks, client, oneShot, launcher, daemon, clientOf, thread, mutex,
                 tries, ready, handled, missed>>
wireVars == <<req, lists, hops, toRouter, info, comms, object, done, errs, answers,
              toClient>>
logVars == <<args, timer, next, buf, bad, startValue, rounds, stop, logStart, windows,
             lines, written>>

vars == <<part, treeVars, statVars, hwlocVars, configVars, startUpVars, wireVars,
          logVars, toServer, now, pc, app>>

NoTree ==
    /\ localMap = Unused /\ pending = Unused /\ link = Unused /\ fromServer = Unused
    /\ sent = Unused /\ answered = Unused /\ dangling = Unused
NoStat ==
    /\ stat = Unused /\ log = Unused /\ reading = Unused /\ crashed = Unused
    /\ stopFailed = Unused
NoHwloc ==
    /\ hw = Unused /\ libs = Unused /\ number = Unused /\ parent = Unused
    /\ children = Unused /\ attrs = Unused
NoConfig ==
    /\ config = Unused /\ root = Unused /\ objMap = Unused /\ grp = Unused
    /\ calls = Unused
NoStartUp ==
    /\ ranks = Unused /\ client = Unused /\ oneShot = Unused /\ launcher = Unused
    /\ daemon = Unused /\ clientOf = Unused /\ thread = Unused /\ mutex = Unused
    /\ tries = Unused /\ ready = Unused /\ handled = Unused /\ missed = Unused
NoWire ==
    /\ req = Unused /\ lists = Unused /\ hops = Unused /\ toRouter = Unused
    /\ info = Unused /\ comms = Unused /\ object = Unused /\ done = Unused
    /\ errs = Unused /\ answers = Unused /\ toClient = Unused
NoLogger ==
    /\ args = Unused /\ timer = Unused /\ next = Unused /\ buf = Unused /\ bad = Unused
    /\ startValue = Unused /\ rounds = Unused /\ stop = Unused /\ logStart = Unused
    /\ windows = Unused /\ lines = Unused /\ written = Unused

Init ==
    \/ /\ part = "tree" /\ R!Init
       /\ NoStat /\ NoHwloc /\ NoConfig /\ NoStartUp /\ NoWire /\ NoLogger
       /\ now = Unused /\ pc = Unused /\ app = Unused
    \/ /\ part = "statistics" /\ S!Init
       /\ NoTree /\ NoHwloc /\ NoConfig /\ NoStartUp /\ NoWire /\ NoLogger
       /\ toServer = Unused /\ pc = Unused /\ app = Unused
    \/ /\ part = "hwloc" /\ H!Init
       /\ NoTree /\ NoStat /\ NoConfig /\ NoStartUp /\ NoWire /\ NoLogger
       /\ toServer = Unused /\ now = Unused /\ app = Unused
    \/ /\ part = "config" /\ G!Init
       /\ NoTree /\ NoStat /\ NoHwloc /\ NoStartUp /\ NoWire /\ NoLogger
       /\ toServer = Unused /\ now = Unused /\ app = Unused
    \/ /\ part = "startup" /\ U!Init
       /\ NoTree /\ NoStat /\ NoHwloc /\ NoConfig /\ NoWire /\ NoLogger
       /\ toServer = Unused /\ now = Unused /\ pc = Unused
    \/ /\ part = "wire" /\ W!Init
       /\ NoTree /\ NoStat /\ NoHwloc /\ NoConfig /\ NoStartUp /\ NoLogger
       /\ now = Unused /\ pc = Unused
    \/ /\ part = "logger" /\ L!Init
       /\ NoTree /\ NoStat /\ NoHwloc /\ NoConfig /\ NoStartUp /\ NoWire
       /\ toServer = Unused /\ app = Unused

\* What is not of the part stays Unused.
OfTree(Step) ==
    /\ part = "tree" /\ Step
    /\ UNCHANGED <<part, statVars, hwlocVars, configVars, startUpVars, wireVars,
                   logVars, now, pc, app>>
TreeStep == OfTree(R!Next)
StatStep ==
    /\ part = "statistics" /\ S!Next
    /\ UNCHANGED <<part, treeVars, hwlocVars, configVars, startUpVars, wireVars,
                   logVars, toServer, pc, app>>
HwlocStep ==
    /\ part = "hwloc" /\ H!Next
    /\ UNCHANGED <<part, treeVars, statVars, configVars, startUpVars, wireVars,
                   logVars, toServer, now, app>>
ConfigStep ==
    /\ part = "config" /\ G!Next
    /\ UNCHANGED <<part, treeVars, statVars, hwlocVars, startUpVars, wireVars, logVars,
                   toServer, now, app>>
OfStartUp(Step) ==
    /\ part = "startup" /\ Step
    /\ UNCHANGED <<part, treeVars, statVars, hwlocVars, configVars, wireVars, logVars,
                   toServer, now, pc>>
StartUpStep == OfStartUp(U!Next)
WireStep ==
    /\ part = "wire" /\ W!Next
    /\ UNCHANGED <<part, treeVars, statVars, hwlocVars, configVars, startUpVars,
                   logVars, now, pc>>
LoggerStep ==
    /\ part = "logger" /\ L!Next
    /\ UNCHANGED <<part, treeVars, statVars, hwlocVars, configVars, startUpVars,
                   wireVars, toServer, app>>

Next ==
    \/ TreeStep \/ StatStep \/ HwlocStep \/ ConfigStep
    \/ StartUpStep \/ WireStep \/ LoggerStep

\* Every router and server takes what select offers it, and every server connects;
\* the operating systems run launchers and daemons.
MostNodes == UNION {0 .. Len(table) - 1 : table \in RankTable}
treeOnly == <<treeVars, toServer>>
startUpOnly == <<startUpVars, app>>
Fairness ==
    /\ \A q, r \in R!Router : WF_treeOnly(OfTree(R!FromRouter(q, r)))
    /\ \A s \in Server :
        /\ WF_treeOnly(OfTree(R!ServerConnect(s)))
        /\ WF_treeOnly(OfTree(R!ServerTake(s)))
        /\ WF_treeOnly(OfTree(R!FromServer(s)))
    /\ \A n \in MostNodes :
        /\ WF_startUpOnly(OfStartUp(n \in DOMAIN launcher /\ U!LauncherStep(n)))
        /\ WF_startUpOnly(OfStartUp(n \in DOMAIN launcher /\ U!DaemonStep(n)))

Spec == Init /\ [][Next]_vars /\ Fairness
-----------------------------------------------------------------------------
\* The variables of every part keep their types.
TypeOK ==
    /\ part = "tree" => R!TypeOK
    /\ part = "statistics" => S!TypeOK
    /\ part = "logger" => L!TypeOK

\* tree: the answers come back in the order of the requests, each once, and no event is
\* deleted that waits (router.cc:129-194), if RoutedUse.
AnswersInOrder == part = "tree" => R!AnswersInOrder /\ R!NoneDangling

\* tree: again and again every request that was sent has its answer, in the order of
\* the requests (router.cc:129-194).
EveryRequestAnswered == []<>(part = "tree" => R!AllAnswered)

\* tree: the routers together are one queue from each router to each server
\* (router.cc:110-194).
D == INSTANCE Delivery WITH
    Pair <- Asks,
    sent <- IF part = "tree" THEN sent ELSE [p \in Asks |-> 0],
    queue <- [p \in Asks |-> IF part = "tree" THEN R!InTransit(p[1], p[2]) ELSE <<>>]
ImplementsDelivery == D!Spec

\* statistics: a device logs only for a statistic that is live and will stop it
\* (deviceStat.cc:20-46); the window of a reading never ends before it begins, and that
\* of a running statistic reaches from its start to now (deviceStat.cc:107-155).
StatisticsSound ==
    part = "statistics" => S!LogHasStat /\ S!WindowForward /\ S!RunningReading


\* config: the energy of an object is read from every device below it once, where
\* the device is, and a group of a type has every object of it once
\* (distCntxt.cc:283-339, cntxt.cc:148-166).
EverythingOnce == part = "config" => G!EverythingOnce

\* config: the route to an object that is asked over the network leads to its server
\* (machine.py:130-154, daemon.py:61-144).
ServersRouted == part = "config" => G!ServersRouted

\* wire: the servers are asked for what the application asks for, and it gets what
\* they find; no event leaves a byte to the next (serialize.h:24-121, events.h).
WireIntact == part = "wire" => W!WireIntact

\* logger: a line of the log says what was measured of the object and the attribute it
\* names, when it says, and what was set was set everywhere (logger/mult.h:62-98,
\* energy.h:20-53, stat.h:44-92, setMult.h:59-80).
LogIsTrue == part = "logger" => L!LogIsTrue

\* startup: the launchers of all nodes make the same list of hosts, if the names of
\* the hosts are equally long (powerrt.cc:342-399).
ListsNameHosts == part = "startup" => U!ListsNameHosts

\* startup: when MPI_Init returns the daemon is at work (powerrt.cc:257,
\* pwrdaemon.cc:100).
ReadyIsServing == part = "startup" => U!ReadyIsServing

\* startup: MPI_Finalize kills no daemon while a client may wait for it
\* (powerrt.cc:282-296), which another POWERRT_SCRIPT than exec.py must have started.
NoneCutOff == [][part = "startup" => U!NoneCutOff]_vars

\* startup: every launcher comes to the end of MPI_Init or is aborted, also if the daemon
\* ends before it is at work.  It is not promised to a launcher that got a signal before
\* its pause, nor while a client is there that neither signals nor ends
\* (powerrt.cc:237-258).
LaunchEnds == []<>(part = "startup" => \A n \in U!Node : U!Launched(n))
=============================================================================
