CONSTANTS
    Book = {b1, b2}
    Backup = {m1}
    Unconvertible = {b2}
    Disturb = {"oserror"}
    MaxChanges = 3
    MaxStops = 1
    NoBook = NoBook
    NoSeq = NoSeq
SPECIFICATION FairSpec
INVARIANTS StaleIsDirty CacheMatchesTable SequenceNamesVersion
PROPERTY EventuallyBackedUp
