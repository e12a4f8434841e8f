\* Two threads, three requests of any kind, edits of BASELINE among them, every
\* fault and one restart.
SPECIFICATION Spec
SYMMETRY Symmetry
CONSTANTS
    Workers = {w1, w2}
    Drafts = {d1}
    Ops = {"create", "update", "update_baseline", "delete", "draft", "confirm",
           "cancel"}
    Faults = {"duplicate", "neo4j", "crash", "rebuild"}
    MaxId = 3
    MaxRequests = 3
    MaxRestarts = 1
INVARIANTS
    TypeOK
    BaselineIntact
    StoredWhole
    LeftOpenIsConfined
    NoOrphans
    DerivesFromStored
