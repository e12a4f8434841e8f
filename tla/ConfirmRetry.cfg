\* A draft is confirmed again after Neo4j has failed the first confirmation;
\* one request at a time.
SPECIFICATION Spec
CONSTANTS
    Workers = {w1}
    Drafts = {d1}
    Ops = {"draft", "confirm"}
    Faults = {"neo4j"}
    MaxId = 4
    MaxRequests = 4
    MaxRestarts = 0
INVARIANTS
    ConfirmOnce
