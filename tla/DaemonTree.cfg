\* Two applications, an inner server and its two leaves.
SPECIFICATION Spec
CONSTANTS
    a1 = a1
    a2 = a2
    b = b
    n0 = n0
    n1 = n1
    ma = ma
    mg = mg
    mp = mp
    mh = mh
    mb = mb
    NoComm = NoComm
    App = {a1, a2}
    Server = {b, n0, n1}
    Comm = {ma, mg, mb}
    Owner <- MCOwner
    Members <- MCMembers
    Slots <- MCSlots
    Nested <- MCNested
    Device <- MCDevice
    Flaky = {}
    Poller = {a2}
    Allowed <- MCAllowed
    MaxReq = 2
INVARIANTS
    TypeOK
    NoFault
    PendingCounts
    FanOut
    EndToEnd
    AnswersExact
\* An application may stop asking.
CHECK_DEADLOCK FALSE
