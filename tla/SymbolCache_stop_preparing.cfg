SPECIFICATION FairSpec
CONSTANTS
    f1 = f1  f2 = f2  n1 = n1  n2 = n2
    Files = {f1, f2}
    Prepared = {f1, f2}
    Handlers = {h1, h2}
    ChanSize = 1
    Changes = {}
    FileOf <- MCFileOf
    StopModes = {"any"}
    NoFile = NoFile
    Absent = Absent
PROPERTY StopReturned
CHECK_DEADLOCK FALSE
