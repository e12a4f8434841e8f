\* As Bootstrap.cfg, but the workbooks are installed before the service is
\* restarted, as docs/ASSUMPTIONS_AND_CONFIRMATIONS.md:5 prescribes: possibly
\* under a process that is just starting.
SPECIFICATION Spec
CONSTANTS
    Sources = {june, july}
    Versions = {v2, v3}
    Ids = {s1, s2}
    None = None
    HotReplace = TRUE
    MaxChanges = 3
    MaxStops = 3
INVARIANTS
    BaselineFollowsWorkbooks
