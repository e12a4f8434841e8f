\* A draft is confirmed and cancelled at the same time; nothing fails.
SPECIFICATION Spec
CONSTANTS
    Workers = {w1, w2}
    Drafts = {d1}
    Ops = {"draft", "confirm", "cancel"}
    Faults = {}
    MaxId = 3
    MaxRequests = 3
    MaxRestarts = 0
INVARIANTS
    CancelledMadeNothing
