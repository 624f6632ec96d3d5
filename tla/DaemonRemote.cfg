\* The whole implements RemoteRequest, also with a leaf that fails, and every request is
\* answered.
SPECIFICATION FairSpec
CONSTANTS
    a1 = a1
    a2 = a2
    b = b
    n0 = n0
    n1 = n1
    ma = ma
    mg = mg
    mp = mp
    mh = mh
    mb = mb
    NoComm = NoComm
    App = {a1}
    Server = {b, n0, n1}
    Comm = {ma, mg, mp, mb}
    Owner <- MCOwner
    Members <- MCMembers
    Slots <- MCSlots
    Nested <- MCNested
    Device <- MCDevice
    Flaky = {n1}
    Poller = {}
    Allowed <- MCAllowed
    MaxReq = 2
PROPERTIES
    RemoteSpec
    WaitReturns
    CommsReclaimed
\* An application may stop asking.
CHECK_DEADLOCK FALSE
