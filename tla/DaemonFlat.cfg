\* Two applications that read, set, log and sample two leaves.
SPECIFICATION Spec
CONSTANTS
    a1 = a1
    a2 = a2
    b = b
    n0 = n0
    n1 = n1
    ma = ma
    mg = mg
    mp = mp
    mh = mh
    mb = mb
    NoComm = NoComm
    App = {a1, a2}
    Server = {n0, n1}
    Comm = {mp, mh}
    Owner <- MCOwner
    Members <- MCMembers
    Slots <- MCSlots
    Nested <- MCNested
    Device <- MCDevice
    Flaky = {n1}
    Poller = {a2}
    Allowed <- MCAllowed
    MaxReq = 2
INVARIANTS
    InOrder
    SetExactlyOnce
    CallbackOnce
\* An application may stop asking.
CHECK_DEADLOCK FALSE
