CONSTANTS
    Book = {b1, b2}
    Backup = {m1}
    Unconvertible = {b2}
    Disturb = {"oserror", "dump", "interrupt", "rollback"}
    MaxChanges = 2
    MaxStops = 1
    NoBook = NoBook
    NoSeq = NoSeq
SPECIFICATION Spec
INVARIANTS NumbersAreFresh GoneBooksStayGone
