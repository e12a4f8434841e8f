------------------------------ MODULE Bootstrap ------------------------------
(***************************************************************************)
(* The life of the service process: DemoState loads the workbooks, then    *)
(* initialize() either reopens the stored BASELINE or resets the SQLite    *)
(* tables and rebuilds it, one committed store call at a time.  The        *)
(* process can stop between any two calls; the workbooks can be replaced   *)
(* and new rules deployed.                                                 *)
(*                                                                         *)
(* The repository keeps the asset, category and block rows it read when it *)
(* was constructed (rows), but hashes the files and reads the workload     *)
(* sheet again on every use (files).                                       *)
(***************************************************************************)
EXTENDS Naturals

CONSTANTS
    Sources,      \* fingerprints the three workbooks can have
    Versions,     \* calculation versions of the deployed rules
    Ids,          \* identifiers of What-if scenarios
    None,         \* no value
    HotReplace,   \* TRUE: workbooks may be replaced while a process runs
    MaxChanges,   \* bound: installations of workbooks or rules
    MaxStops      \* bound: process stops

ASSUME HotReplaceAssumption == HotReplace \in BOOLEAN

ASSUME BoundsAssumption == MaxChanges \in Nat /\ MaxStops \in Nat

VARIABLES
    files,      \* fingerprint of the workbooks in the data directory now
    deployed,   \* DemoState.calculation_version of the installed code
    pc,         \* next step of the process, "down" when there is none
    rows,       \* fingerprint of the rows held in memory by the repository
    result,     \* the forecast computed but not yet stored
    db,         \* the SQLite tables
    changes,    \* installations so far
    stops,      \* process stops so far
    edited      \* observed, read by no action: a client has recomputed
                \* BASELINE with assumptions of its own since the last reset

vars == <<files, deployed, pc, rows, result, db, changes, stops, edited>>

-----------------------------------------------------------------------------
(* Data *)

\* A forecast is determined by the cached rows, the workload sheet read when
\* it ran, the rules, and the assumptions of a client where there are any.
Calculation(r, w, v, a) ==
    [rows |-> r, workload |-> w, rules |-> v, assumed |-> a]

Calculations ==
    [rows : Sources, workload : Sources, rules : Versions, assumed : BOOLEAN]

ASSUME NoneAssumption ==
    /\ None \notin Sources
    /\ None \notin Versions
    /\ None \notin Calculations

\* The tables, each with the calculation its BASELINE rows come from.
Tables ==
    [snapshot    : Sources \cup {None},        \* source_snapshots
     scenario    : BOOLEAN,                    \* scenarios
     results     : Calculations \cup {None},   \* forecast, summary, anomalies
     rules       : Calculations \cup {None},   \* rule_executions
     assumptions : Calculations \cup {None},   \* scenario_assumptions
     metadata    : Versions \cup {None},       \* scenario_metadata
     whatif      : [Ids -> Calculations \cup {None}]]  \* saved scenarios

EmptyTables ==
    [snapshot |-> None, scenario |-> FALSE, results |-> None, rules |-> None,
     assumptions |-> None, metadata |-> None, whatif |-> [s \in Ids |-> None]]

StartupSteps ==
    {"decide", "reset", "snapshot", "compute", "scenario", "results",
     "rules", "metadata", "refresh"}

-----------------------------------------------------------------------------
(* Start-up *)

Init ==
    /\ files \in Sources
    /\ deployed \in Versions
    /\ pc = "down"
    /\ rows = None
    /\ result = None
    /\ db = EmptyTables
    /\ changes = 0
    /\ stops = 0
    /\ edited = FALSE

\* The repository reads the workbooks into memory.
Load ==
    /\ pc = "down"
    /\ rows' = files
    /\ pc' = "decide"
    /\ UNCHANGED <<files, deployed, result, db, changes, stops, edited>>

\* MUTANT: the version of the rules is not compared.
DecideIgnoringVersion ==
    /\ pc = "decide"
    /\ pc' = IF db.scenario /\ db.snapshot = files THEN "refresh" ELSE "reset"
    /\ UNCHANGED <<files, deployed, rows, result, db, changes, stops, edited>>

\* MUTANT: every start rebuilds.
DecideAlwaysReset ==
    /\ pc = "decide"
    /\ pc' = "reset"
    /\ UNCHANGED <<files, deployed, rows, result, db, changes, stops, edited>>

\* The stored baseline is reopened only when it is there, the fingerprint of
\* the files equals the recorded one and the version is the deployed one.
Decide ==
    /\ pc = "decide"
    /\ pc' = IF /\ db.scenario
                /\ db.snapshot = files
                /\ db.metadata = deployed
             THEN "refresh"
             ELSE "reset"
    /\ UNCHANGED <<files, deployed, rows, result, db, changes, stops, edited>>

\* MUTANT: only the rows of the baseline are deleted.
ResetBaselineOnly ==
    /\ pc = "reset"
    /\ db' = [EmptyTables EXCEPT !.whatif = db.whatif]
    /\ pc' = "snapshot"
    /\ edited' = FALSE
    /\ UNCHANGED <<files, deployed, rows, result, changes, stops>>

Reset ==
    /\ pc = "reset"
    /\ db' = EmptyTables
    /\ pc' = "snapshot"
    /\ edited' = FALSE
    /\ UNCHANGED <<files, deployed, rows, result, changes, stops>>

\* MUTANT: the version of the rules is stored with the fingerprint, up front.
SaveSnapshotAndVersion ==
    /\ pc = "snapshot"
    /\ db' = [db EXCEPT !.snapshot = files, !.metadata = deployed]
    /\ pc' = "compute"
    /\ UNCHANGED <<files, deployed, rows, result, changes, stops, edited>>

\* save_snapshot stores a fingerprint taken again from the files.
SaveSnapshot ==
    /\ pc = "snapshot"
    /\ db' = [db EXCEPT !.snapshot = files]
    /\ pc' = "compute"
    /\ UNCHANGED <<files, deployed, rows, result, changes, stops, edited>>

RunForecast ==
    /\ pc = "compute"
    /\ result' = Calculation(rows, files, deployed, FALSE)
    /\ pc' = "scenario"
    /\ UNCHANGED <<files, deployed, rows, db, changes, stops, edited>>

SaveScenario ==
    /\ pc = "scenario"
    /\ db' = [db EXCEPT !.scenario = TRUE]
    /\ pc' = "results"
    /\ UNCHANGED <<files, deployed, rows, result, changes, stops, edited>>

ReplaceScenarioResults ==
    /\ pc = "results"
    /\ db' = [db EXCEPT !.results = result]
    /\ pc' = "rules"
    /\ UNCHANGED <<files, deployed, rows, result, changes, stops, edited>>

SaveRuleExecutions ==
    /\ pc = "rules"
    /\ db' = [db EXCEPT !.rules = result]
    /\ pc' = "metadata"
    /\ UNCHANGED <<files, deployed, rows, result, changes, stops, edited>>

\* MUTANT: source_snapshot_id and calculation_version are swapped.
SaveSwappedMetadata ==
    /\ pc = "metadata"
    /\ db' = [db EXCEPT !.metadata = db.snapshot, !.assumptions = result]
    /\ pc' = "refresh"
    /\ UNCHANGED <<files, deployed, rows, result, changes, stops, edited>>

\* The calculation version, on which the next start decides, is stored last.
SaveScenarioMetadata ==
    /\ pc = "metadata"
    /\ db' = [db EXCEPT !.metadata = deployed, !.assumptions = result]
    /\ pc' = "refresh"
    /\ UNCHANGED <<files, deployed, rows, result, changes, stops, edited>>

RefreshOntologyModel ==
    /\ pc = "refresh"
    /\ pc' = "serving"
    /\ UNCHANGED <<files, deployed, rows, result, db, changes, stops, edited>>

-----------------------------------------------------------------------------
(* Service and environment *)

\* What a request computes: from the cached rows and today's workload sheet,
\* with the client's assumptions, of which there must be one.
ClientCalculation == Calculation(rows, files, deployed, TRUE)

\* A What-if scenario is saved: new, or computed again over an old one.
CreateScenario(s) ==
    /\ pc = "serving"
    /\ db' = [db EXCEPT !.whatif[s] = ClientCalculation]
    /\ UNCHANGED <<files, deployed, pc, rows, result, changes, stops, edited>>

DeleteScenario(s) ==
    /\ pc = "serving"
    /\ db.whatif[s] # None
    /\ db' = [db EXCEPT !.whatif[s] = None]
    /\ UNCHANGED <<files, deployed, pc, rows, result, changes, stops, edited>>

\* BASELINE itself is computed again with the assumptions a client posts for
\* it.  The saves are committed one by one, assumptions with the version
\* first, then results, then rules, and the request may fail after each (when
\* it fails among the assumptions, those inserted so far stay: the client's).
EditBaseline ==
    /\ pc = "serving"
    /\ LET new == ClientCalculation
       IN  \/ db' = [db EXCEPT !.metadata = deployed, !.assumptions = new]
           \/ db' = [db EXCEPT !.metadata = deployed, !.assumptions = new,
                               !.results = new]
           \/ db' = [db EXCEPT !.metadata = deployed, !.assumptions = new,
                               !.results = new, !.rules = new]
    /\ edited' = TRUE
    /\ UNCHANGED <<files, deployed, pc, rows, result, changes, stops>>

\* The process ends, by a crash, a failing step or the operator: what is in
\* memory is lost, what was committed stays.
Stop ==
    /\ pc # "down"
    /\ stops < MaxStops
    /\ pc' = "down"
    /\ rows' = None
    /\ result' = None
    /\ stops' = stops + 1
    /\ UNCHANGED <<files, deployed, db, changes, edited>>

ReplaceWorkbooks ==
    /\ pc = "down" \/ HotReplace
    /\ changes < MaxChanges
    /\ files' \in Sources \ {files}
    /\ changes' = changes + 1
    /\ UNCHANGED <<deployed, pc, rows, result, db, stops, edited>>

DeployRules ==
    /\ pc = "down"
    /\ changes < MaxChanges
    /\ deployed' \in Versions \ {deployed}
    /\ changes' = changes + 1
    /\ UNCHANGED <<files, pc, rows, result, db, stops, edited>>

-----------------------------------------------------------------------------
Startup ==
    \/ Load
    \/ Decide
    \/ Reset
    \/ SaveSnapshot
    \/ RunForecast
    \/ SaveScenario
    \/ ReplaceScenarioResults
    \/ SaveRuleExecutions
    \/ SaveScenarioMetadata
    \/ RefreshOntologyModel

Next ==
    \/ Startup
    \/ \E s \in Ids : CreateScenario(s) \/ DeleteScenario(s)
    \/ EditBaseline
    \/ Stop
    \/ ReplaceWorkbooks
    \/ DeployRules

Spec == Init /\ [][Next]_vars

-----------------------------------------------------------------------------
(* Properties *)

\* Every variable keeps its shape (the tables of business_store.py and the
\* steps of DemoState.initialize).
TypeOK ==
    /\ files \in Sources
    /\ deployed \in Versions
    /\ pc \in StartupSteps \cup {"down", "serving"}
    /\ rows \in Sources \cup {None}
    /\ result \in Calculations \cup {None}
    /\ db \in Tables
    /\ changes \in Nat
    /\ stops \in Nat
    /\ edited \in BOOLEAN

CurrentCalculation == Calculation(files, files, deployed, FALSE)

\* What a part of BASELINE may hold: the calculation of the current workbooks
\* and rules, with a client's assumptions only where a client put them.
CurrentParts ==
    {CurrentCalculation}
        \cup (IF edited THEN {Calculation(files, files, deployed, TRUE)} ELSE {})

\* Whatever sequence of stops, restarts, new workbooks, new rules and edits of
\* BASELINE (whole or failed half-way) came before, the service answers
\* requests only from a baseline that is complete and computed, in all its
\* parts, from the workbooks in the directory by the deployed rules; a
\* client's assumptions are in it only if a client edited it since the last
\* rebuild (the decision of initialize() and its order of saves).
ServesCurrentBaseline ==
    pc = "serving" =>
        /\ db.scenario
        /\ db.snapshot = files
        /\ db.metadata = deployed
        /\ {db.results, db.rules, db.assumptions} \subseteq CurrentParts

\* Results of two snapshots never stand side by side: every saved scenario,
\* at any moment of any start-up, was computed from the rows and rules of the
\* stored baseline (reset_business_data empties all tables in one commit).
SameSource(c, d) ==
    c.rows = d.rows /\ c.workload = d.workload /\ c.rules = d.rules

SnapshotsNeverMix ==
    \A s \in Ids :
        db.whatif[s] # None =>
            db.results # None /\ SameSource(db.whatif[s], db.results)

\* A saved scenario disappears only because a request deletes it or because
\* the workbooks or the rules are not those of the stored baseline; a restart
\* alone, however often it is interrupted, keeps it (initialize returns early).
Outdated == db.snapshot # files \/ db.metadata # deployed

ScenariosSurviveRestarts ==
    [][\A s \in Ids :
          db.whatif[s] # None /\ db'.whatif[s] = None
              => pc = "serving" \/ Outdated]_vars

\* The steps of start-up and the requests implement the ledger, the baseline
\* counting as stored from the moment its metadata is.  A client's edit of
\* BASELINE is an edit of the ledger's once its results are stored.
StoredBaseline == IF db.metadata = None THEN None ELSE db.results

Ledger ==
    INSTANCE BaselineLedger
    WITH source <- files, version <- deployed, open <- (pc = "serving"),
         baseline <- StoredBaseline, scenarios <- db.whatif

ImplementsLedger == Ledger!Spec

\* docs/ARCHITECTURE.md:17: a start rebuilds the baseline when the fingerprint
\* of the workbooks has changed; the baseline it serves was then computed from
\* the rows it has loaded.
BaselineFollowsWorkbooks == pc = "serving" => db.results.rows = rows
=============================================================================
