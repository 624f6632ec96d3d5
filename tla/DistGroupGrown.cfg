\* A group that is used, grows and is used again.
SPECIFICATION Spec
CONSTANTS
    l1 = l1
    l2 = l2
    r1 = r1
    r2 = r2
    Obj = {l1, l2, r1, r2}
    Local = {l1, l2}
    Zero = Zero
    Unset = Unset
    NAttr = 2
    MaxObjs = 3
    MaxCalls = 2
INVARIANTS
    RequestFits
\* The calls are bounded.
CHECK_DEADLOCK FALSE
