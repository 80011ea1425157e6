SPECIFICATION Spec
CONSTANTS
    f1 = f1  f2 = f2  n1 = n1  n2 = n2
    Files = {f1, f2}
    Prepared = {f1, f2}
    Handlers = {h1, h2}
    ChanSize = 1
    Changes = {n1}
    FileOf <- MCFileOf
    StopModes = {"never"}
    NoFile = NoFile
    Absent = Absent
SYMMETRY HandlerSymmetry
INVARIANT FreshAfterNotify
CHECK_DEADLOCK FALSE
