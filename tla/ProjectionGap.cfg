\* A question asked while another thread saves a scenario; nothing fails.
SPECIFICATION Spec
SYMMETRY Symmetry
CONSTANTS
    Workers = {w1}
    Readers = {r1}
    MaxId = 1
    MaxChanges = 1
    MaxFaults = 0
INVARIANTS
    NoMatchIsAbsence
