\* Two editions of the workbooks and of the rules, installed while the
\* service is down, up to three times, with up to three stops anywhere.
SPECIFICATION Spec
CONSTANTS
    Sources = {june, july}
    Versions = {v2, v3}
    Ids = {s1, s2}
    None = None
    HotReplace = FALSE
    MaxChanges = 3
    MaxStops = 3
INVARIANTS
    TypeOK
    ServesCurrentBaseline
    SnapshotsNeverMix
PROPERTIES
    ScenariosSurviveRestarts
    ImplementsLedger
