\* A leaf that fails says so to nobody.
SPECIFICATION Spec
CONSTANTS
    a1 = a1
    a2 = a2
    b = b
    n0 = n0
    n1 = n1
    ma = ma
    mg = mg
    mp = mp
    mh = mh
    mb = mb
    NoComm = NoComm
    App = {a1, a2}
    Server = {n0, n1}
    Comm = {mp, mh}
    Owner <- MCOwner
    Members <- MCMembers
    Slots <- MCSlots
    Nested <- MCNested
    Device <- MCDevice
    Flaky = {n1}
    Poller = {}
    Allowed <- MCAllowed
    MaxReq = 1
INVARIANTS
    ErrorsFlagged
\* An application may stop asking.
CHECK_DEADLOCK FALSE
