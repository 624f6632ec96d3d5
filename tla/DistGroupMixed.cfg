\* Values of a group of local and remote objects.
SPECIFICATION Spec
CONSTANTS
    l1 = l1
    l2 = l2
    r1 = r1
    r2 = r2
    Obj = {l1, l2, r1, r2}
    Local = {l1, l2}
    Zero = Zero
    Unset = Unset
    NAttr = 2
    MaxObjs = 3
    MaxCalls = 2
INVARIANTS
    UniqueInPlace
\* The calls are bounded.
CHECK_DEADLOCK FALSE
