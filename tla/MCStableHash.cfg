\* Two files, of which one takes the other's place, and two changes at any
\* point of two attempts, on systems with and without native identities.
SPECIFICATION FairSpec
CONSTANTS
    File = {f1, f2}
    Byte = {x, y}
    MaxLen = 2
    FirstTime = 0
    MaxRetries = 1
    MaxChanges = 2
    NoFile = NoFile
    NoIdent = NoIdent
CHECK_DEADLOCK FALSE
INVARIANTS
    TypeOK
    ObservedWasAtPath
PROPERTIES
    RetriesOnlyChanges
    HashEnds
