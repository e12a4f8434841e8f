\* Two threads save a scenario and nothing fails.
SPECIFICATION Spec
SYMMETRY Symmetry
CONSTANTS
    Workers = {w1, w2}
    Readers = {}
    MaxId = 1
    MaxChanges = 2
    MaxFaults = 0
INVARIANTS
    ObjectsFollowStore
