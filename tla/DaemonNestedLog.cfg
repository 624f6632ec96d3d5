\* A log request of an inner object reaches the router with two objects.
SPECIFICATION Spec
CONSTANTS
    a1 = a1
    a2 = a2
    b = b
    n0 = n0
    n1 = n1
    ma = ma
    mg = mg
    mp = mp
    mh = mh
    mb = mb
    NoComm = NoComm
    App = {a1, a2}
    Server = {b, n0, n1}
    Comm = {ma, mb}
    Owner <- MCOwner
    Members <- MCMembers
    Slots <- MCSlots
    Nested <- MCNested
    Device <- MCDevice
    Flaky = {}
    Poller = {}
    Allowed <- MCLogAllowed
    MaxReq = 1
INVARIANTS
    LogsOneObject
\* An application may stop asking.
CHECK_DEADLOCK FALSE
