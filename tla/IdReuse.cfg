\* A scenario is created after another one was deleted; one request at a time.
SPECIFICATION Spec
CONSTANTS
    Workers = {w1}
    Drafts = {d1}
    Ops = {"create", "delete"}
    Faults = {}
    MaxId = 4
    MaxRequests = 4
    MaxRestarts = 0
PROPERTIES
    CreateIsFresh
