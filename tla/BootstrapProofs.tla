--------------------------- MODULE BootstrapProofs ---------------------------
(***************************************************************************)
(* Proofs about Bootstrap for every value of its constants, workbooks being *)
(* installed while the service is down (NotHot).  The invariant Inv says,  *)
(* step by step of start-up, which tables are already those of the current *)
(* calculation, and that a stored version vouches for all of them.         *)
(***************************************************************************)
EXTENDS Bootstrap, TLAPS

Building ==
    {"snapshot", "compute", "scenario", "results", "rules", "metadata"}

\* What the process holds in memory belongs to the workbooks on disk.
MemoryInv ==
    /\ pc # "down" => rows = files
    /\ pc \in {"scenario", "results", "rules", "metadata"}
          => result = CurrentCalculation

\* A rebuild has stored the tables of the steps before pc.
StageInv ==
    /\ pc \in Building => db.metadata = None
    /\ pc \in Building \ {"snapshot"} => db.snapshot = files
    /\ pc \in {"results", "rules", "metadata"} => db.scenario
    /\ pc \in {"rules", "metadata"} => db.results = CurrentCalculation
    /\ pc \in Building => ~edited
    /\ pc = "metadata" => db.rules = CurrentCalculation
    /\ pc \in {"refresh", "serving"} =>
          db.snapshot = files /\ db.metadata = deployed

\* What a stored baseline is computed from, clients' assumptions apart.
PartsOf(r, v) ==
    {Calculation(r, r, v, FALSE)}
        \cup (IF edited THEN {Calculation(r, r, v, TRUE)} ELSE {})

\* The stored version, written last, vouches for every other table, and goes
\* on doing so when a client edits the baseline.
VersionVouches ==
    db.metadata # None =>
        /\ db.scenario
        /\ db.snapshot \in Sources
        /\ {db.results, db.rules, db.assumptions}
                \subseteq PartsOf(db.snapshot, db.metadata)

NoOrphans == db.metadata = None => \A s \in Ids : db.whatif[s] = None

Inv ==
    /\ TypeOK
    /\ MemoryInv
    /\ StageInv
    /\ VersionVouches
    /\ NoOrphans
    /\ SnapshotsNeverMix

-----------------------------------------------------------------------------
(* Type correctness *)

\* A forecast is only ever run by a process that has loaded the workbooks.
TypeInv == TypeOK /\ (pc # "down" => rows \in Sources)

LEMMA InitType == Init => TypeInv
<1> SUFFICES ASSUME Init PROVE TypeInv
    OBVIOUS
<1>1. db \in Tables
    BY DEF Init, EmptyTables, Tables
<1>2. edited \in BOOLEAN
    BY DEF Init
<1> QED
    BY <1>1, <1>2, NoneAssumption DEF Init, TypeInv, TypeOK, StartupSteps

LEMMA ForecastType ==
    ASSUME TypeInv, pc # "down"
    PROVE  \A a \in BOOLEAN : Calculation(rows, files, deployed, a) \in Calculations
BY DEF TypeInv, TypeOK, Calculation, Calculations

LEMMA NextType == TypeInv /\ [Next]_vars => TypeInv'
<1> SUFFICES ASSUME TypeInv, [Next]_vars PROVE TypeInv'
    OBVIOUS
<1> USE DEF TypeInv, TypeOK, StartupSteps
<1>1. CASE Load  BY <1>1 DEF Load
<1>2. CASE Decide  BY <1>2 DEF Decide
<1>3. CASE Reset  BY <1>3 DEF Reset, EmptyTables, Tables
<1>4. CASE SaveSnapshot  BY <1>4 DEF SaveSnapshot, Tables
<1>5. CASE RunForecast  BY <1>5, ForecastType DEF RunForecast
<1>6. CASE SaveScenario  BY <1>6 DEF SaveScenario, Tables
<1>7. CASE ReplaceScenarioResults
    BY <1>7 DEF ReplaceScenarioResults, Tables
<1>8. CASE SaveRuleExecutions  BY <1>8 DEF SaveRuleExecutions, Tables
<1>9. CASE SaveScenarioMetadata  BY <1>9 DEF SaveScenarioMetadata, Tables
<1>10. CASE RefreshOntologyModel  BY <1>10 DEF RefreshOntologyModel
<1>11. ASSUME NEW s \in Ids, CreateScenario(s) PROVE TypeInv'
    BY <1>11, ForecastType DEF CreateScenario, ClientCalculation, Tables
<1>12. ASSUME NEW s \in Ids, DeleteScenario(s) PROVE TypeInv'
    BY <1>12 DEF DeleteScenario, Tables
<1>17. CASE EditBaseline
    BY <1>17, ForecastType DEF EditBaseline, ClientCalculation, Tables
<1>13. CASE Stop  BY <1>13 DEF Stop
<1>14. CASE ReplaceWorkbooks  BY <1>14 DEF ReplaceWorkbooks
<1>15. CASE DeployRules  BY <1>15 DEF DeployRules
<1>16. CASE UNCHANGED vars  BY <1>16 DEF vars
<1> QED
    BY <1>1, <1>2, <1>3, <1>4, <1>5, <1>6, <1>7, <1>8, <1>9, <1>10, <1>11,
       <1>12, <1>17, <1>13, <1>14, <1>15, <1>16 DEF Next, Startup

\* Every variable keeps its shape in every behaviour, workbooks replaced
\* under a running process included (initialize() and its store calls).
THEOREM TypeCorrect == Spec => []TypeOK
<1>1. TypeInv => TypeOK
    BY DEF TypeInv
<1> QED
    BY <1>1, InitType, NextType, PTL DEF Spec

-----------------------------------------------------------------------------
(* The inductive invariant, for workbooks installed while the service is   *)
(* down                                                                    *)

NotHot == HotReplace = FALSE

LEMMA InitInv == Init => Inv
BY NoneAssumption, InitType
DEF Init, Inv, TypeInv, MemoryInv, StageInv, VersionVouches, NoOrphans,
    SnapshotsNeverMix, EmptyTables, Building

LEMMA CalculationIsSome ==
    ASSUME NEW r \in Sources, NEW w \in Sources, NEW v \in Versions,
           NEW a \in BOOLEAN
    PROVE  Calculation(r, w, v, a) # None
BY NoneAssumption DEF Calculation, Calculations

\* What a stored version says of the results stored with it.
LEMMA Vouched ==
    ASSUME TypeOK, VersionVouches, db.metadata # None
    PROVE  /\ db.results \in Calculations /\ db.results # None
           /\ db.results.rows = db.snapshot
           /\ db.results.workload = db.snapshot
           /\ db.results.rules = db.metadata
<1>1. db.metadata \in Versions /\ db.snapshot \in Sources
    BY DEF TypeOK, VersionVouches, Tables
<1>2. db.results \in {Calculation(db.snapshot, db.snapshot, db.metadata, a)
                          : a \in BOOLEAN}
    BY DEF VersionVouches, PartsOf
<1>3. PICK a \in BOOLEAN :
          db.results = Calculation(db.snapshot, db.snapshot, db.metadata, a)
    BY <1>2
<1>4. db.results # None
    BY <1>1, <1>3, CalculationIsSome
<1>5. db.results \in Calculations
    BY <1>1, <1>3 DEF Calculation, Calculations
<1> QED
    BY <1>3, <1>4, <1>5 DEF Calculation

LEMMA NextInv == NotHot /\ Inv /\ [Next]_vars => Inv'
<1> SUFFICES ASSUME NotHot, Inv, [Next]_vars PROVE Inv'
    OBVIOUS
<1> DEFINE Rest == MemoryInv /\ StageInv /\ VersionVouches /\ NoOrphans
                     /\ SnapshotsNeverMix
<1>0. TypeOK'
    BY NoneAssumption, NextType DEF Inv, MemoryInv, TypeInv, TypeOK
<1> USE NoneAssumption DEF Inv, TypeOK, StartupSteps, MemoryInv, StageInv,
        VersionVouches, PartsOf, NoOrphans, SnapshotsNeverMix, SameSource,
        Building, Calculation, ClientCalculation
<1>1. CASE Load  BY <1>1 DEF Load, CurrentCalculation
<1>2. CASE Decide  BY <1>2 DEF Decide, CurrentCalculation
<1>3. CASE Reset  BY <1>0, <1>3 DEF Reset, EmptyTables, CurrentCalculation
<1>4. CASE SaveSnapshot
    BY <1>4 DEF SaveSnapshot, Tables, CurrentCalculation
<1>5. CASE RunForecast  BY <1>0, <1>5 DEF RunForecast, CurrentCalculation
<1>6. CASE SaveScenario
    BY <1>6 DEF SaveScenario, Tables, CurrentCalculation
<1>7. CASE ReplaceScenarioResults
    BY <1>7 DEF ReplaceScenarioResults, Tables, CurrentCalculation
<1>8. CASE SaveRuleExecutions
    BY <1>8 DEF SaveRuleExecutions, Tables, CurrentCalculation
<1>9. CASE SaveScenarioMetadata
    BY <1>9 DEF SaveScenarioMetadata, Tables, CurrentCalculation
<1>10. CASE RefreshOntologyModel
    BY <1>10 DEF RefreshOntologyModel, CurrentCalculation
<1>11. ASSUME NEW s \in Ids, CreateScenario(s) PROVE Rest'
  <2>1. /\ db' = [db EXCEPT !.whatif[s] = ClientCalculation]
        /\ rows = files /\ db.snapshot = files /\ db.metadata = deployed
        /\ pc = "serving" /\ UNCHANGED <<files, deployed, pc, rows, result, edited>>
      BY <1>11 DEF CreateScenario
  <2>2. db.metadata # None /\ ClientCalculation \in Calculations
      BY <2>1, ForecastType DEF TypeInv
  <2>3. db.results # None /\ SameSource(ClientCalculation, db.results)
      BY <2>1, <2>2, Vouched
  <2>4. MemoryInv' /\ StageInv' /\ VersionVouches' /\ NoOrphans'
      BY <2>1, <2>2 DEF Tables, CurrentCalculation
  <2>5. SnapshotsNeverMix'
      BY <2>1, <2>3 DEF Tables
  <2> QED
      BY <2>4, <2>5
<1>12. ASSUME NEW s \in Ids, DeleteScenario(s) PROVE Rest'
    BY <1>12 DEF DeleteScenario, Tables, CurrentCalculation
<1>17. CASE EditBaseline
  <2>1. /\ rows = files /\ db.snapshot = files /\ db.metadata = deployed
        /\ pc = "serving" /\ edited'
        /\ UNCHANGED <<files, deployed, pc, rows, result>>
      BY <1>17 DEF EditBaseline
  <2>2. /\ db'.whatif = db.whatif /\ db'.scenario = db.scenario
        /\ db'.snapshot = db.snapshot /\ db'.metadata = db.metadata
    <3> DEFINE new == ClientCalculation
    <3> HIDE DEF new
    <3>1. CASE db' = [db EXCEPT !.metadata = deployed, !.assumptions = new]
        BY <2>1, <3>1 DEF Tables
    <3>2. CASE db' = [db EXCEPT !.metadata = deployed, !.assumptions = new,
                                !.results = new]
        BY <2>1, <3>2 DEF Tables
    <3>3. CASE db' = [db EXCEPT !.metadata = deployed, !.assumptions = new,
                                !.results = new, !.rules = new]
        BY <2>1, <3>3 DEF Tables
    <3> QED
        BY <1>17, <3>1, <3>2, <3>3 DEF EditBaseline, new
  <2>3. /\ db'.results \in {db.results, ClientCalculation}
        /\ db'.rules \in {db.rules, ClientCalculation}
        /\ db'.assumptions = ClientCalculation
      BY <1>17 DEF EditBaseline, Tables
  <2>4. /\ db.scenario /\ db.metadata # None
        /\ {db.results, db.rules, db.assumptions}
              \subseteq PartsOf(db.snapshot, db.metadata)
      BY <2>1
  <2>5. PartsOf(db.snapshot, db.metadata)'
            = {Calculation(files, files, deployed, FALSE), ClientCalculation}
      BY <2>1, <2>2
  <2>6. {db.results, db.rules, db.assumptions}
            \subseteq PartsOf(db.snapshot, db.metadata)'
      BY <2>1, <2>4, <2>5
  <2>7. VersionVouches'
      BY <2>1, <2>2, <2>3, <2>4, <2>5, <2>6
  <2>11. ClientCalculation \in Calculations /\ ClientCalculation # None
      BY <2>1, ForecastType, CalculationIsSome DEF TypeInv
  <2>12. db.results # None
      BY <2>4, Vouched
  <2>8. db'.results # None
      BY <2>3, <2>11, <2>12
  <2>9. MemoryInv' /\ StageInv' /\ NoOrphans'
      BY <2>1, <2>2
  <2>13. /\ db.results.rows = files /\ db.results.workload = files
         /\ db.results.rules = deployed
      BY <2>1, <2>4, Vouched
  <2>10. SnapshotsNeverMix'
      BY <2>1, <2>2, <2>3, <2>8, <2>13
  <2> QED
      BY <1>0, <2>7, <2>9, <2>10
<1>13. CASE Stop  BY <1>13 DEF Stop, CurrentCalculation
<1>14. CASE ReplaceWorkbooks
    BY <1>14 DEF ReplaceWorkbooks, NotHot, CurrentCalculation
<1>15. CASE DeployRules  BY <1>15 DEF DeployRules, CurrentCalculation
<1>16. CASE UNCHANGED vars  BY <1>16 DEF vars, CurrentCalculation
<1> QED
    BY <1>0, <1>1, <1>2, <1>3, <1>4, <1>5, <1>6, <1>7, <1>8, <1>9, <1>10,
       <1>11, <1>12, <1>17, <1>13, <1>14, <1>15, <1>16 DEF Next, Startup

\* The inductive invariant holds throughout every behaviour.
THEOREM InvHolds ==
    ASSUME NotHot
    PROVE  Spec => []Inv
<1>1. Inv /\ [Next]_vars => Inv'
    BY NotHot, NextInv
<1> QED
    BY <1>1, InitInv, PTL DEF Spec

-----------------------------------------------------------------------------
(* What the invariant gives *)

\* Requests are answered only from a complete baseline of the current
\* workbooks and rules, for any number of stops, changes and scenarios.
THEOREM BaselineIsCurrent ==
    ASSUME NotHot
    PROVE  Spec => []ServesCurrentBaseline
<1>1. Inv => ServesCurrentBaseline
    BY NoneAssumption
    DEF Inv, StageInv, VersionVouches, PartsOf, ServesCurrentBaseline, TypeOK,
        CurrentParts, CurrentCalculation
<1> QED
    BY <1>1, InvHolds, PTL

\* Scenarios computed from different snapshots are never stored together.
THEOREM OneSnapshot ==
    ASSUME NotHot
    PROVE  Spec => []SnapshotsNeverMix
<1>1. Inv => SnapshotsNeverMix
    BY DEF Inv
<1> QED
    BY <1>1, InvHolds, PTL

\* initialize() resets the tables only when they hold no versioned baseline
\* or one of other workbooks or rules.
ResetIsDue == pc = "reset" => (db.metadata = None \/ Outdated)

THEOREM ResetOnlyWhenDue ==
    ASSUME NotHot
    PROVE  Spec => []ResetIsDue
<1>1. Init => ResetIsDue
    BY DEF Init, ResetIsDue
<1>2. Inv /\ ResetIsDue /\ [Next]_vars => ResetIsDue'
  <2> SUFFICES ASSUME Inv, ResetIsDue, [Next]_vars PROVE ResetIsDue'
      OBVIOUS
  <2>1. CASE Decide
      BY <2>1, NoneAssumption
      DEF Decide, ResetIsDue, Outdated, Inv, VersionVouches, TypeOK
  <2>2. CASE UNCHANGED vars
      BY <2>2 DEF vars, ResetIsDue, Outdated
  <2>3. CASE Next /\ ~Decide
      BY <2>3
      DEF Next, Startup, Load, Reset, SaveSnapshot, RunForecast, SaveScenario,
          ReplaceScenarioResults, SaveRuleExecutions, SaveScenarioMetadata,
          RefreshOntologyModel, CreateScenario, DeleteScenario, EditBaseline,
          Stop, ReplaceWorkbooks, DeployRules, NotHot, ResetIsDue, Outdated
  <2> QED
      BY <2>1, <2>2, <2>3
<1> QED
    BY <1>1, <1>2, InvHolds, PTL DEF Spec

\* Restarting, however often it is interrupted, never loses a scenario
\* (initialize() returns early, and resets only when that is due).
THEOREM RestartsKeepScenarios ==
    ASSUME NotHot
    PROVE  Spec => ScenariosSurviveRestarts
<1> DEFINE Keeps ==
        \A s \in Ids : db.whatif[s] # None /\ db'.whatif[s] = None
                          => pc = "serving" \/ Outdated
<1>1. Inv /\ ResetIsDue /\ [Next]_vars => [Keeps]_vars
  <2> SUFFICES ASSUME Inv, ResetIsDue, Next, pc # "serving" PROVE Keeps
      BY DEF vars
  <2>1. CASE Reset
      BY <2>1 DEF Reset, ResetIsDue, Inv, NoOrphans
  <2>2. db'.whatif = db.whatif \/ Reset
      BY DEF Next, Startup, Load, Decide, SaveSnapshot, RunForecast,
          SaveScenario, ReplaceScenarioResults, SaveRuleExecutions,
          SaveScenarioMetadata, RefreshOntologyModel, CreateScenario,
          DeleteScenario, EditBaseline, Stop, ReplaceWorkbooks, DeployRules,
          Inv, TypeOK,
          Tables
  <2> QED
      BY <2>1, <2>2
<1> QED
    BY <1>1, ResetOnlyWhenDue, InvHolds, PTL DEF Spec, ScenariosSurviveRestarts

-----------------------------------------------------------------------------
(* The start-up protocol implements the ledger: Reset discards, storing    *)
(* the version builds, RefreshOntologyModel opens, Stop closes, and every  *)
(* other step of start-up stutters                                         *)

LEMMA VersionedBaseline ==
    ASSUME Inv
    PROVE  /\ StoredBaseline = None <=> db.metadata = None
           /\ pc \in Building => StoredBaseline = None
           /\ pc \in {"refresh", "serving"} =>
                 StoredBaseline \in {Ledger!Built, Ledger!Assumed}
           /\ StoredBaseline \in {Ledger!Built, Ledger!Assumed} =>
                 db.metadata # None /\ ~Outdated
<1> USE NoneAssumption
    DEF Inv, TypeOK, StageInv, VersionVouches, PartsOf, StoredBaseline,
        Outdated, Ledger!Built, Ledger!Assumed, Ledger!Calculation,
        Calculation, Calculations, Building
<1>1. ASSUME db.metadata # None
      PROVE  /\ db.results \in Calculations /\ db.results # None
             /\ db.results.rows = db.snapshot
             /\ db.results.rules = db.metadata
    BY <1>1, Vouched
<1>2. files \in Sources /\ deployed \in Versions /\ edited \in BOOLEAN
    OBVIOUS
<1>3. StoredBaseline = None <=> db.metadata = None
    BY <1>1
<1>4. ASSUME pc \in {"refresh", "serving"}
      PROVE  StoredBaseline \in {Ledger!Built, Ledger!Assumed}
    BY <1>2, <1>4
<1>5. ASSUME StoredBaseline \in {Ledger!Built, Ledger!Assumed}
      PROVE  db.metadata # None /\ ~Outdated
  <2>1. StoredBaseline # None
      BY <1>2, <1>5, CalculationIsSome
  <2> QED
      BY <1>1, <1>2, <1>5, <2>1
<1> QED
    BY <1>3, <1>4, <1>5

\* Every behaviour of the start-up protocol and its requests is one of the
\* ledger (initialize(), the scenario requests and the process's end).
THEOREM Refinement ==
    ASSUME NotHot
    PROVE  Spec => ImplementsLedger
<1> USE DEF Ledger!Built, Ledger!Assumed, Ledger!Calculation,
            Ledger!NoScenarios
<1>1. Init => Ledger!Init
    BY DEF Init, Ledger!Init, EmptyTables, StoredBaseline
<1>2. Inv /\ Inv' /\ ResetIsDue /\ [Next]_vars => [Ledger!Next]_Ledger!vars
  <2> SUFFICES ASSUME Inv, Inv', ResetIsDue, [Next]_vars
               PROVE  [Ledger!Next]_Ledger!vars
      OBVIOUS
  <2> USE DEF Ledger!Next, Ledger!vars, StoredBaseline, CurrentCalculation,
              Calculation, Inv, TypeOK
  <2>1. CASE Load  BY <2>1 DEF Load
  <2>2. CASE Decide  BY <2>2 DEF Decide
  <2>3. CASE Reset
    <3>1. Ledger!Discard
        BY <2>3, VersionedBaseline
        DEF Reset, Ledger!Discard, ResetIsDue, EmptyTables
    <3> QED  BY <3>1
  <2>4. CASE SaveSnapshot
      BY <2>4, VersionedBaseline DEF SaveSnapshot, StageInv, Building, Tables
  <2>5. CASE RunForecast  BY <2>5 DEF RunForecast
  <2>6. CASE SaveScenario
      BY <2>6 DEF SaveScenario, StageInv, Building, Tables
  <2>7. CASE ReplaceScenarioResults
      BY <2>7 DEF ReplaceScenarioResults, StageInv, Building, Tables
  <2>8. CASE SaveRuleExecutions
      BY <2>8 DEF SaveRuleExecutions, StageInv, Building, Tables
  <2>9. CASE SaveScenarioMetadata
    <3>1. Ledger!Build
        BY <2>9, NoneAssumption
        DEF SaveScenarioMetadata, Ledger!Build, StageInv, Building, Tables
    <3> QED  BY <3>1
  <2>10. CASE RefreshOntologyModel
    <3>1. Ledger!Open
        BY <2>10, VersionedBaseline DEF RefreshOntologyModel, Ledger!Open
    <3> QED  BY <3>1
  <2>11. ASSUME NEW s \in Ids, CreateScenario(s) PROVE Ledger!Next
    <3>1. Ledger!Save(s)
        BY <2>11
        DEF CreateScenario, ClientCalculation, Ledger!Save, MemoryInv, Tables
    <3> QED  BY <3>1
  <2>12. ASSUME NEW s \in Ids, DeleteScenario(s) PROVE Ledger!Next
    <3>1. Ledger!Delete(s)
        BY <2>12 DEF DeleteScenario, Ledger!Delete, Tables
    <3> QED  BY <3>1
  <2>17. CASE EditBaseline
    <3>1. deployed # None /\ db.metadata # None
        BY <2>17, NoneAssumption DEF EditBaseline, StageInv
    <3>2. rows = files /\ pc = "serving"
        BY <2>17 DEF EditBaseline, MemoryInv
    <3>3. Ledger!Edit \/ UNCHANGED Ledger!vars
        BY <2>17, <3>1, <3>2
        DEF EditBaseline, ClientCalculation, Ledger!Edit, Tables
    <3> QED  BY <3>3
  <2>13. CASE Stop
    <3>1. CASE pc = "serving"  BY <2>13, <3>1 DEF Stop, Ledger!Close
    <3>2. CASE pc # "serving"  BY <2>13, <3>2 DEF Stop
    <3> QED  BY <3>1, <3>2
  <2>14. CASE ReplaceWorkbooks
      BY <2>14 DEF ReplaceWorkbooks, NotHot, Ledger!Change
  <2>15. CASE DeployRules  BY <2>15 DEF DeployRules, Ledger!Change
  <2>16. CASE UNCHANGED vars  BY <2>16 DEF vars
  <2> QED
      BY <2>1, <2>2, <2>3, <2>4, <2>5, <2>6, <2>7, <2>8, <2>9, <2>10, <2>11,
         <2>12, <2>17, <2>13, <2>14, <2>15, <2>16 DEF Next, Startup
<1> QED
    BY <1>1, <1>2, InvHolds, ResetOnlyWhenDue, PTL
    DEF Spec, ImplementsLedger, Ledger!Spec
=============================================================================
