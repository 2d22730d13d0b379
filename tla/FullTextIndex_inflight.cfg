CONSTANTS
    Format = {f1, f2}
    Unextractable = {}
    Content = {c1, c2}
    Blank = {}
    Broken = {}
    TextOf <- MCTextOf
    Alike = {}
    Worker = {w1}
    Disturb = {"inflight"}
    MaxChanges = 3
    MaxRestarts = 0
    None = None
SPECIFICATION Spec
INVARIANT IndexIsCurrent
CHECK_DEADLOCK FALSE
