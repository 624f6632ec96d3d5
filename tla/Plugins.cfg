\* Each plugin in turn.
SPECIFICATION Spec
CONSTANTS
    Unused = Unused
    Unread = Unread
    Nothing = Nothing
    Node <- McNode
    Watts <- McWatts
    Outcome <- McOutcome
    MaxTime = 3
    CpuTable <- McCpuTable
    CpuModel = "EP"
    Counts = 2
    MaxUnits = 3
    Fails = TRUE
    MaxRaplReads = 2
    NumZones = 1
    MaxRange = 4
    MaxEnergy = 7
    Written <- McWritten
    MaxReads = 4
    Cpu <- McCpu
    Core <- McCore
    CpuOf <- McCpuOf
    Hwloc = FALSE
    Socket <- McSocket
    Cores <- McCores
    Hints <- McHints
    KeySize = 2
    MaxRegions = 3
    MaxHintCalls = 3
    AppGov <- McAppGov
    Reader <- McReader
    Port <- McPort
    Total <- McTotal
    MaxAsked = 3
    MaxReadv = 1
    MaxGeneration = 3
    MaxFds = 2
    MaxCalls = 5
    MaxAttrs = 2
INVARIANTS
    TypeOK
    EnergyIsConsumption
    ReadingIsFresh
    LagIsFailures
    HintInForce
    OwnSample
    CountersChecked
PROPERTIES
    NoneFreedInUse
    LimitsBeforeGovernor
    FinalReturns
\* Calls and time are bounded.
CHECK_DEADLOCK FALSE
