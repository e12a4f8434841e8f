\* Two threads, two changes of one scenario next to BASELINE, a question and one fault.
SPECIFICATION FairSpec
CONSTANTS
    Workers = {w1, w2}
    Readers = {r1}
    MaxId = 1
    MaxChanges = 2
    MaxFaults = 1
INVARIANTS
    TypeOK
    RefreshRepairs
    CalmReceiptsAreRight
PROPERTIES
    ComesBack
