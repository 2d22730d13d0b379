CONSTANTS
    Format = {f1, f2}
    Unextractable = {f2}
    Content = {c1, c2, c3}
    Broken = {}
    TextOf <- MCTextOf
    Alike = {c1, c2}
    Blank = {}
    Worker = {w1, w2}
    Disturb = {"toggle"}
    MaxChanges = 4
    MaxRestarts = 1
    None = None
SPECIFICATION Spec
INVARIANTS IndexIsCurrent OneJobEach NothingOfGoneFormats ProgressHasJob
SYMMETRY Symmetry
CHECK_DEADLOCK FALSE
