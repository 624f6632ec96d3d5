\* Each part in turn.
SPECIFICATION Spec
CONSTANTS
    Unused = Unused
    TreeNodes = 3
    TreeBoard = 2
    Server <- McServer
    Asks <- McAsks
    Unrouted = {}
    Early = FALSE
    MaxSent = 2
    Obj <- McObj
    Stat <- McStat
    Members <- McMembers
    Groups <- McGroups
    Op <- McOp
    Period = 2
    SampleValue <- McSampleValue
    MaxTime = 5
    Unmatched = FALSE
    Machine <- McMachine
    PluginList <- McPluginList
    RankTable <- McRankTable
    NodesPerBoard = 3
    MaxTries = 1
    PyMachine <- McPyMachine
    XmlFile <- McXmlFile
    AskName <- McAskName
    MaxCalls = 2
    Base = 4
    IntBytes = 2
    LongBytes = 3
    Asked <- McAsked
    NumLists <- McNumLists
    Garbage <- McGarbage
    ValueAt <- McValueAt
    TimeAt <- McTimeAt
    Errors <- McErrors
    Hops <- McHops
    LogObj <- McLogObj
    TypeGrp <- McTypeGrp
    Args <- McArgs
    Power <- McPower
    Second = 2
    RateReads = 2
    LogTime = 7
INVARIANTS
    TypeOK
    AnswersInOrder
    WireIntact
    LogIsTrue
    StatisticsSound
    
    EverythingOnce
    ServersRouted
    ListsNameHosts
    ReadyIsServing
PROPERTIES
    EveryRequestAnswered
    ImplementsDelivery
    NoneCutOff
    LaunchEnds
\* Requests, attempts and time are bounded.
CHECK_DEADLOCK FALSE
