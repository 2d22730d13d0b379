CONSTANTS
    Format = {f1, f2}
    Unextractable = {}
    Content = {c1}
    Broken = {}
    TextOf <- MCTextOf
    Alike = {}
    Blank = {}
    Worker = {w1}
    Disturb = {"toggle"}
    MaxChanges = 2
    MaxRestarts = 1
    None = None
SPECIFICATION FairSpec
PROPERTY EventuallyIndexed
CHECK_DEADLOCK FALSE
