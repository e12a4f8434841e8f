------------------------ MODULE ScenarioServiceProofs ------------------------
(***************************************************************************)
(* Proofs about ScenarioService for any number of threads, scenarios,      *)
(* drafts, requests and restarts, every kind of request and any            *)
(* combination of faults: types, that an undisturbed save leaves its       *)
(* scenario whole, who can write BASELINE, where rows can be left without  *)
(* their scenario, and when a scenario is computed from nothing.           *)
(***************************************************************************)
EXTENDS ScenarioService, FiniteSetTheorems, TLAPS

USE DEF observed

\* A request that works on a draft names one.
TypeInv ==
    /\ TypeOK
    /\ \A w \in Workers :
          worker[w].pc = "read_draft" => worker[w].draft \in Drafts

LEMMA RecordTypes ==
    /\ Idle \in WorkerRecords
    /\ NoDraft \in DraftRecords
    /\ BaselineOnly \in Tables
    /\ BASELINE \in Ids
BY BoundsAssumption
DEF Idle, WorkerRecords, NoDraft, DraftRecords, BaselineOnly, Tables, Ids,
    BASELINE, Steps, WritingSteps, Kinds, Tags, Built, Absent

LEMMA InitType == Init => TypeInv
BY RecordTypes DEF Init, TypeInv, TypeOK, Idle

LEMMA CommitType ==
    ASSUME TypeOK, NEW ps, NEW i \in Ids, NEW t \in Tags, Commit(ps, i, t)
    PROVE  db' \in Tables /\ disk' \in Tables
BY DEF TypeOK, Commit, Tables

LEMMA BeginType ==
    ASSUME TypeInv, NEW w \in Workers, NEW op, NEW rec \in WorkerRecords,
           rec.pc = "read_draft" => rec.draft \in Drafts,
           Begin(w, op, rec)
    PROVE  TypeInv'
BY DEF TypeInv, TypeOK, Begin

LEMMA RequestType ==
    ASSUME TypeInv, NEW w \in Workers, Request(w)
    PROVE  TypeInv'
<1>0. NextTag \in Tags /\ BASELINE \in Ids
    BY RecordTypes DEF TypeInv, TypeOK, NextTag, Tags
<1> USE <1>0
    DEF WorkerRecords, Steps, WritingSteps, Kinds, FirstStep, Idle, Tags,
        Absent, Built
<1>1. CASE RequestCreate(w)
    BY <1>1, BeginType DEF RequestCreate
<1>2. CASE RequestUpdate(w)
    BY <1>2, BeginType DEF RequestUpdate
<1>3. CASE RequestUpdateBaseline(w)
    BY <1>3, BeginType DEF RequestUpdateBaseline
<1>4. CASE RequestDelete(w)
    BY <1>4, BeginType DEF RequestDelete
<1>5. CASE RequestDraft(w)
    BY <1>5, BeginType DEF RequestDraft
<1>6. CASE RequestConfirm(w)
    BY <1>6, BeginType DEF RequestConfirm, Known
<1>7. CASE RequestCancel(w)
    BY <1>7, BeginType DEF RequestCancel, Known
<1> QED
    BY <1>1, <1>2, <1>3, <1>4, <1>5, <1>6, <1>7 DEF Request

LEMMA NumberType ==
    Cardinality({i \in Ids \ {BASELINE} : Exists(i)}) \in Nat
<1>1. IsFiniteSet(Ids)
    BY BoundsAssumption, FS_Interval DEF Ids
<1>2. IsFiniteSet({i \in Ids \ {BASELINE} : Exists(i)})
    BY <1>1, FS_Subset
<1> QED
    BY <1>2, FS_CardinalityType

LEMMA StepType ==
    ASSUME TypeInv, NEW w \in Workers,
           NEW pc \in Steps \ {"read_draft"}, Step(w, pc) \/ Answer(w),
           disk' \in {disk, db},
           UNCHANGED <<db, drafts, requests, restarts, observed>>
    PROVE  TypeInv'
<1>1. [worker[w] EXCEPT !.pc = pc] \in WorkerRecords
    BY DEF TypeInv, TypeOK, WorkerRecords
<1>2. CASE Step(w, pc)
    BY <1>1, <1>2 DEF Step, TypeInv, TypeOK, WorkerRecords
<1>3. CASE Answer(w)
    BY <1>3, RecordTypes DEF Answer, TypeInv, TypeOK, Idle
<1> QED
    BY <1>2, <1>3

LEMMA HandleType ==
    ASSUME TypeInv, NEW w \in Workers, Handle(w)
    PROVE  TypeInv'
<1>0. /\ worker[w] \in WorkerRecords
      /\ worker[w].id \in Ids /\ worker[w].tag \in Tags
    BY DEF TypeInv, TypeOK, WorkerRecords
<1>1. CASE Check(w)
  <2>1. Step(w, "inherit") \/ Answer(w)
      BY <1>1 DEF Check
  <2> QED
      BY <1>1, <2>1, StepType DEF Check, Steps
<1>2. CASE Refresh(w)
  <2>1. Step(w, "detail") \/ Answer(w)
      BY <1>2 DEF Refresh, CommitOnly
  <2> QED
      BY <1>2, <2>1, StepType DEF Refresh, CommitOnly, Steps
<1>3. CASE Detail(w)
  <2>1. Step(w, "mark") \/ Answer(w)
      BY <1>3 DEF Detail
  <2> QED
      BY <1>3, <2>1, StepType DEF Detail, Steps
<1> USE RecordTypes, <1>0 DEF TypeInv, TypeOK, Step, Answer
<1>4. CASE Inherit(w)
  <2>1. db["assumptions"][worker[w].base] \in Tags
      BY DEF Tables, Parts, WorkerRecords
  <2>2. worker' \in [Workers -> WorkerRecords]
      BY <1>4, <2>1 DEF Inherit, WorkerRecords, Steps, WritingSteps
  <2>3. worker'[w].pc # "read_draft"
      BY <1>4 DEF Inherit, WorkerRecords
  <2> QED
      BY <1>4, <2>2, <2>3 DEF Inherit
<1>5. CASE Allocate(w)
    BY <1>5, NumberType, BoundsAssumption
    DEF Allocate, WorkerRecords, Steps, WritingSteps, Ids
<1>6. CASE Refuse(w)
    BY <1>6 DEF Refuse, Idle
<1>7. CASE SaveScenario(w)
  <2>1. db' \in Tables /\ disk' \in Tables
      BY <1>7, CommitType DEF SaveScenario
  <2>2. \A v \in Workers : worker'[v] \in WorkerRecords
      BY <1>7 DEF SaveScenario, WorkerRecords, Steps, WritingSteps, Contended
  <2>3. \A v \in Workers : worker'[v].pc = "read_draft" =>
            worker'[v].draft \in Drafts
      BY <1>7 DEF SaveScenario, WorkerRecords
  <2>4. made' \in [Drafts -> Nat]
      BY <1>7 DEF SaveScenario
  <2>5. worker' = [v \in Workers |-> worker'[v]]
      BY <1>7 DEF SaveScenario
  <2> QED
      BY <1>7, <2>1, <2>2, <2>3, <2>4, <2>5 DEF SaveScenario
<1>8. CASE SaveScenarioMetadata(w)
  <2>1. db' \in Tables /\ disk' \in Tables
      BY <1>8, CommitType DEF SaveScenarioMetadata
  <2> QED
      BY <1>8, <2>1
      DEF SaveScenarioMetadata, WorkerRecords, Steps, WritingSteps
<1>9. CASE FailScenarioMetadata(w)
  <2>1. db' \in Tables
      BY <1>9 DEF FailScenarioMetadata, Tables, Tags, Partial
  <2> QED
      BY <1>9, <2>1 DEF FailScenarioMetadata, Idle
<1>10. CASE ReplaceScenarioResults(w)
  <2>1. db' \in Tables /\ disk' \in Tables
      BY <1>10, CommitType DEF ReplaceScenarioResults
  <2> QED
      BY <1>10, <2>1
      DEF ReplaceScenarioResults, WorkerRecords, Steps, WritingSteps
<1>11. CASE SaveRuleExecutions(w)
  <2>1. db' \in Tables /\ disk' \in Tables
      BY <1>11, CommitType DEF SaveRuleExecutions
  <2> QED
      BY <1>11, <2>1
      DEF SaveRuleExecutions, WorkerRecords, Steps, WritingSteps
<1>12. CASE SaveWhatIf(w)
  <2>1. db' \in Tables /\ disk' \in Tables
      BY <1>12, CommitType DEF SaveWhatIf
  <2> QED
      BY <1>12, <2>1 DEF SaveWhatIf, WorkerRecords, Steps, WritingSteps
<1>13. CASE Delete(w)
  <2>1. db' \in Tables /\ disk' \in Tables
      BY <1>13, CommitType DEF Delete, DeleteFrom, Absent, Tags
  <2>2. \A v \in Workers : worker'[v] \in WorkerRecords
    <3>1. ASSUME NEW v \in Workers \ {w}
          PROVE  \E a, b \in BOOLEAN :
                    worker'[v] = [worker[v] EXCEPT !.alone = a, !.shaky = b]
      <4> DEFINE a == worker[v].alone /\ worker[v].id # worker[w].id
                 b == worker[v].shaky \/ (worker[v].pc = "inherit"
                                            /\ worker[v].base = worker[w].id)
      <4>1. a \in BOOLEAN /\ b \in BOOLEAN
          BY DEF WorkerRecords
      <4>2. worker'[v] = [worker[v] EXCEPT !.alone = a, !.shaky = b]
          BY <1>13 DEF Delete, DeleteFrom, WorkerRecords
      <4> QED
          BY <4>1, <4>2
    <3>3. worker'[w] \in WorkerRecords
        BY <1>13 DEF Delete, DeleteFrom, WorkerRecords, Steps
    <3>4. ASSUME NEW v \in Workers \ {w} PROVE worker'[v] \in WorkerRecords
      <4>1. worker[v] \in WorkerRecords
          OBVIOUS
      <4> QED
          BY <3>1, <4>1 DEF WorkerRecords
    <3> QED
        BY <3>3, <3>4
  <2>3. \A v \in Workers : worker'[v].pc = "read_draft" =>
            worker'[v].draft \in Drafts
      BY <1>13 DEF Delete, DeleteFrom, WorkerRecords
  <2>4. worker' = [v \in Workers |-> worker'[v]]
      BY <1>13 DEF Delete, DeleteFrom
  <2> QED
      BY <1>13, <2>1, <2>2, <2>3, <2>4 DEF Delete, DeleteFrom
<1>14. CASE RefuseDelete(w)
    BY <1>14 DEF RefuseDelete, Idle
<1>15. CASE FailRefresh(w)
    BY <1>15 DEF FailRefresh, CommitOnly, Idle
<1>16. CASE ReadDraft(w)
  <2>1. worker[w].draft \in Drafts /\ drafts[worker[w].draft].base \in Ids
      BY <1>16 DEF ReadDraft, DraftRecords
  <2>2. worker' \in [Workers -> WorkerRecords]
      BY <1>16, <2>1
      DEF ReadDraft, WorkerRecords, Steps, WritingSteps, FirstStep
  <2>3. \A v \in Workers : worker'[v].pc = "read_draft" =>
            worker'[v].draft \in Drafts
      BY <1>16, <2>1 DEF ReadDraft, FirstStep, WorkerRecords, Idle
  <2> QED
      BY <1>16, <2>2, <2>3 DEF ReadDraft
<1>17. ASSUME NEW status \in {"CONFIRMED", "EXPIRED", "CANCELLED"},
              UpdateDraft(w, status)
       PROVE  TypeInv'
    BY <1>17 DEF UpdateDraft, CommitOnly, DraftRecords, Idle
<1>18. CASE SaveDraft(w)
  <2>1. [NoDraft EXCEPT !.status = "PENDING", !.base = worker[w].base]
           \in DraftRecords
      BY DEF NoDraft, DraftRecords, WorkerRecords
  <2> QED
      BY <1>18, <2>1 DEF SaveDraft, CommitOnly, Idle
<1>19. CASE FailReceipt(w)
    BY <1>19 DEF FailReceipt, Idle
<1> QED
    BY <1>1, <1>2, <1>3, <1>4, <1>5, <1>6, <1>7, <1>8, <1>9, <1>10, <1>11,
       <1>12, <1>13, <1>14, <1>15, <1>16, <1>17, <1>18, <1>19
    DEF Handle, Mark, Expire, Cancel

LEMMA NextType == TypeInv /\ [Next]_vars => TypeInv'
<1> SUFFICES ASSUME TypeInv, [Next]_vars PROVE TypeInv'
    OBVIOUS
<1>1. ASSUME NEW w \in Workers, Request(w) \/ Handle(w) PROVE TypeInv'
    BY <1>1, RequestType, HandleType
<1>2. ASSUME NEW d \in Drafts, TimePasses(d) PROVE TypeInv'
    BY <1>2 DEF TimePasses, TypeInv, TypeOK, DraftRecords
<1>3. CASE Restart
    BY <1>3, RecordTypes DEF Restart, TypeInv, TypeOK, WorkerRecords, Idle
<1>4. CASE RestartWithRebuild
    BY <1>4, RecordTypes DEF RestartWithRebuild, TypeInv, TypeOK
<1>5. CASE UNCHANGED vars
    BY <1>5 DEF vars, TypeInv, TypeOK
<1> QED
    BY <1>1, <1>2, <1>3, <1>4, <1>5 DEF Next, Quiet

\* Every variable keeps its shape (the tables of business_store.py and the
\* locals of the handlers in demo_server.py).
THEOREM TypeCorrect == Spec => []TypeOK
<1>1. TypeInv => TypeOK
    BY DEF TypeInv
<1> QED
    BY <1>1, InitType, NextType, PTL DEF Spec

-----------------------------------------------------------------------------
(* Steps that neither save nor delete *)

\* Thread w goes from one step that saves nothing to another one.
Calm(w) ==
    /\ db' = db
    /\ disk' \in {disk, db}
    /\ UNCHANGED observed
    /\ ~Writing(w)
    /\ ~Writing(w)'
    /\ \A v \in Workers \ {w} : worker'[v] = worker[v]

Saves(w) ==
    \/ SaveScenario(w)
    \/ SaveScenarioMetadata(w)
    \/ FailScenarioMetadata(w)
    \/ ReplaceScenarioResults(w)
    \/ SaveRuleExecutions(w)
    \/ SaveWhatIf(w)

LEMMA RequestIsCalm ==
    ASSUME TypeOK, NEW w \in Workers, Request(w)
    PROVE  Calm(w)
<1>1. ASSUME NEW op, NEW rec, rec.pc \notin WritingSteps, Begin(w, op, rec)
      PROVE  Calm(w)
    BY <1>1 DEF Begin, TypeOK, Calm, Writing, WritingSteps
<1> USE DEF FirstStep, WritingSteps, Idle
<1>2. CASE RequestCreate(w)  BY <1>1, <1>2 DEF RequestCreate
<1>3. CASE RequestUpdate(w)  BY <1>1, <1>3 DEF RequestUpdate
<1>4. CASE RequestUpdateBaseline(w)  BY <1>1, <1>4 DEF RequestUpdateBaseline
<1>5. CASE RequestDelete(w)  BY <1>1, <1>5 DEF RequestDelete
<1>6. CASE RequestDraft(w)  BY <1>1, <1>6 DEF RequestDraft
<1>7. CASE RequestConfirm(w)  BY <1>1, <1>7 DEF RequestConfirm
<1>8. CASE RequestCancel(w)  BY <1>1, <1>8 DEF RequestCancel
<1> QED
    BY <1>2, <1>3, <1>4, <1>5, <1>6, <1>7, <1>8 DEF Request

LEMMA HandleIsCalm ==
    ASSUME TypeOK, NEW w \in Workers, Handle(w), ~Saves(w), ~Delete(w)
    PROVE  Calm(w)
<1> USE DEF TypeOK, WorkerRecords, Calm, Writing, WritingSteps, Step, Answer,
            Idle
<1>1. CASE Check(w)  BY <1>1 DEF Check
<1>2. CASE Inherit(w)  BY <1>2 DEF Inherit
<1>3. CASE Allocate(w)  BY <1>3 DEF Allocate
<1>4. CASE Refuse(w)  BY <1>4 DEF Refuse
<1>5. CASE RefuseDelete(w)  BY <1>5 DEF RefuseDelete
<1>6. CASE Refresh(w)  BY <1>6 DEF Refresh, CommitOnly
<1>7. CASE FailRefresh(w)  BY <1>7 DEF FailRefresh, CommitOnly
<1>8. CASE Detail(w)  BY <1>8 DEF Detail
<1>9. CASE ReadDraft(w)  BY <1>9 DEF ReadDraft, FirstStep
<1>10. CASE Mark(w)  BY <1>10 DEF Mark, UpdateDraft, CommitOnly
<1>11. CASE Expire(w)  BY <1>11 DEF Expire, UpdateDraft, CommitOnly
<1>12. CASE Cancel(w)  BY <1>12 DEF Cancel, UpdateDraft, CommitOnly
<1>13. CASE SaveDraft(w)  BY <1>13 DEF SaveDraft, CommitOnly
<1>14. CASE FailReceipt(w)  BY <1>14 DEF FailReceipt
<1> QED
    BY <1>1, <1>2, <1>3, <1>4, <1>5, <1>6, <1>7, <1>8, <1>9, <1>10, <1>11,
       <1>12, <1>13, <1>14 DEF Handle, Saves

-----------------------------------------------------------------------------
(* Whole scenarios *)

\* The tables a save has written when it is at step pc.
Written(pc) ==
    CASE pc = "save_metadata" -> {"scenarios"}
      [] pc = "save_results" -> {"scenarios", "metadata", "assumptions"}
      [] pc = "save_rules" ->
           {"scenarios", "metadata", "assumptions", "results"}
      [] pc = "save_whatif" -> Parts \ {"whatif"}

\* A save marked alone shares its scenario with no other save.
AloneIsAlone ==
    \A v, w \in Workers :
        v # w /\ Writing(v) /\ Writing(w) /\ worker[v].alone
            => worker[v].id # worker[w].id

\* What it has written so far is still there, and committed.
WrittenSoFar ==
    \A w \in Workers :
        Writing(w) /\ worker[w].alone =>
            \A p \in Written(worker[w].pc) :
                /\ db[p][worker[w].id] = worker[w].tag
                /\ disk[p][worker[w].id] = worker[w].tag

WholeInv ==
    /\ TypeInv
    /\ AloneIsAlone
    /\ WrittenSoFar
    /\ LeftOpenIsConfined
    /\ StoredWhole

LEMMA InitWhole == Init => WholeInv
BY InitType
DEF Init, WholeInv, AloneIsAlone, WrittenSoFar, LeftOpenIsConfined, StoredWhole,
    Writing, WritingSteps, Idle, BaselineOnly, Parts

LEMMA CalmKeepsWhole ==
    ASSUME WholeInv, TypeInv', NEW w \in Workers, Calm(w)
    PROVE  WholeInv'
<1>1. \A v \in Workers :
         Writing(v)' => v # w /\ Writing(v) /\ worker'[v] = worker[v]
    BY DEF Calm, Writing
<1>2. \A v \in Workers : Writing(v) => Writing(v)' /\ worker'[v] = worker[v]
    BY DEF Calm, Writing
<1>3. AloneIsAlone'
    BY <1>1 DEF WholeInv, AloneIsAlone
<1>4. WrittenSoFar'
    BY <1>1 DEF WholeInv, WrittenSoFar, Calm
<1>5. LeftOpenIsConfined'
    BY DEF WholeInv, LeftOpenIsConfined, Calm
<1>6. \A i \in Ids : Saving(i) => Saving(i)'
    BY <1>2 DEF Saving
<1>7. StoredWhole'
    BY <1>6 DEF WholeInv, StoredWhole, Calm
<1> QED
    BY <1>3, <1>4, <1>5, <1>7 DEF WholeInv

\* One committing save of tables ps by thread w, which goes on with its save.
LEMMA SaveKeepsWhole ==
    ASSUME WholeInv, TypeInv', NEW w \in Workers, NEW ps,
           Writing(w), Writing(w)',
           Commit(ps, worker[w].id, worker[w].tag),
           \A v \in Workers \ {w} : worker'[v] = worker[v],
           worker'[w].id = worker[w].id,
           worker'[w].tag = worker[w].tag,
           worker'[w].alone = worker[w].alone,
           Written(worker'[w].pc) \subseteq Written(worker[w].pc) \cup ps,
           Written(worker'[w].pc) \subseteq Parts,
           torn' = torn
    PROVE  WholeInv'
<1> DEFINE i == worker[w].id
<1>0. /\ disk' = db'
      /\ \A p \in Parts, j \in Ids : j # i => db'[p][j] = db[p][j]
      /\ \A p \in Parts :
            db'[p][i] = IF p \in ps THEN worker[w].tag ELSE db[p][i]
    BY DEF Commit, WholeInv, TypeInv, TypeOK, Tables, WorkerRecords
<1>1. \A v \in Workers : Writing(v)' <=> Writing(v)
    BY DEF Writing
<1>2. \A v \in Workers : /\ worker'[v].id = worker[v].id
                         /\ worker'[v].alone = worker[v].alone
                         /\ worker'[v].tag = worker[v].tag
    OBVIOUS
<1>3. AloneIsAlone'
    BY <1>1, <1>2 DEF WholeInv, AloneIsAlone
<1>4. WrittenSoFar'
  <2> SUFFICES ASSUME NEW v \in Workers, Writing(v), worker[v].alone,
                      NEW p \in Written(worker'[v].pc)
               PROVE  db'[p][worker[v].id] = worker[v].tag
      BY <1>0, <1>1, <1>2 DEF WrittenSoFar
  <2>1. CASE v = w
      BY <2>1, <1>0 DEF WholeInv, WrittenSoFar
  <2>2. CASE v # w
    <3>1. worker[v].id # i /\ worker[v].id \in Ids
        BY <2>2 DEF WholeInv, AloneIsAlone, TypeInv, TypeOK, WorkerRecords
    <3>2. p \in Parts /\ p \in Written(worker[v].pc)
        BY <2>2 DEF Writing, WritingSteps, Written, Parts
    <3> QED
        BY <3>1, <3>2, <1>0 DEF WholeInv, WrittenSoFar
  <2> QED
      BY <2>1, <2>2
<1>5. LeftOpenIsConfined'
    BY <1>0 DEF LeftOpenIsConfined
<1>6. \A j \in Ids : Saving(j)' <=> Saving(j)
    BY <1>1, <1>2 DEF Saving
<1>7. Saving(i)
    BY DEF Saving
<1>8. StoredWhole'
    BY <1>0, <1>6, <1>7 DEF WholeInv, StoredWhole, Parts
<1> QED
    BY <1>3, <1>4, <1>5, <1>8 DEF WholeInv

LEMMA FirstSaveKeepsWhole ==
    ASSUME WholeInv, TypeInv', NEW w \in Workers, SaveScenario(w)
    PROVE  WholeInv'
<1> DEFINE i == worker[w].id
<1>0. /\ TypeOK /\ i \in Ids
      /\ \A v \in Workers : worker[v].id \in Ids
    BY DEF WholeInv, TypeInv, TypeOK, WorkerRecords
<1>1. /\ disk' = db' /\ torn' = torn
      /\ \A p \in Parts, j \in Ids : j # i => db'[p][j] = db[p][j]
      /\ db'["scenarios"][i] = worker[w].tag
  <2>1. Commit({"scenarios"}, i, worker[w].tag) /\ torn' = torn
      BY DEF SaveScenario
  <2> QED
      BY <2>1, <1>0 DEF Commit, TypeOK, Tables, Parts
<1>2. /\ worker'[w].pc = "save_metadata" /\ worker'[w].id = i
      /\ worker'[w].tag = worker[w].tag
      /\ worker'[w].alone => ~Contended(w, i)
      /\ worker[w].pc = "save_scenario"
    BY <1>0 DEF SaveScenario, TypeOK, WorkerRecords
<1>3. \A v \in Workers \ {w} :
         /\ worker'[v].pc = worker[v].pc /\ worker'[v].id = worker[v].id
         /\ worker'[v].tag = worker[v].tag
         /\ worker'[v].alone => worker[v].alone /\ worker[v].id # i
    BY <1>0 DEF SaveScenario, TypeOK, WorkerRecords
<1>4. /\ Writing(w)' /\ ~Writing(w)
      /\ \A v \in Workers \ {w} : Writing(v)' <=> Writing(v)
    BY <1>2, <1>3 DEF Writing, WritingSteps
<1>5. AloneIsAlone'
    BY <1>2, <1>3, <1>4 DEF WholeInv, AloneIsAlone, Contended
<1>6. WrittenSoFar'
  <2> SUFFICES ASSUME NEW v \in Workers, Writing(v)', worker'[v].alone,
                      NEW p \in Written(worker'[v].pc)
               PROVE  db'[p][worker'[v].id] = worker'[v].tag
      BY <1>1 DEF WrittenSoFar
  <2>1. CASE v = w
      BY <2>1, <1>1, <1>2 DEF Written
  <2>2. CASE v # w
    <3>1. p \in Parts
        BY DEF Writing, WritingSteps, Written, Parts
    <3> QED
        BY <2>2, <3>1, <1>0, <1>1, <1>3, <1>4 DEF WholeInv, WrittenSoFar
  <2> QED
      BY <2>1, <2>2
<1>7. LeftOpenIsConfined'
    BY <1>1 DEF LeftOpenIsConfined
<1>8. \A j \in Ids : Saving(j) => Saving(j)'
    BY <1>3, <1>4 DEF Saving
<1>9. Saving(i)'
    BY <1>2, <1>4 DEF Saving
<1>10. StoredWhole'
  <2> SUFFICES ASSUME NEW j \in Ids \ torn, ~Saving(j)', NEW p \in Parts
               PROVE  db'[p][j] = db'["scenarios"][j]
      BY <1>1 DEF StoredWhole
  <2>1. ~Saving(j)
      BY <1>8
  <2>2. j # i
      BY <1>2, <1>4 DEF Saving
  <2> QED
      BY <2>1, <2>2, <1>1 DEF WholeInv, StoredWhole, Parts
<1> QED
    BY <1>5, <1>6, <1>7, <1>10 DEF WholeInv

LEMMA FailedSaveKeepsWhole ==
    ASSUME WholeInv, TypeInv', NEW w \in Workers, FailScenarioMetadata(w)
    PROVE  WholeInv'
<1> DEFINE i == worker[w].id
<1>0. /\ TypeOK /\ i \in Ids
      /\ \A v \in Workers : worker[v].id \in Ids
    BY DEF WholeInv, TypeInv, TypeOK, WorkerRecords
<1>1. /\ disk' = disk /\ torn' = torn \cup {i}
      /\ \A p \in Parts, j \in Ids : j # i => db'[p][j] = db[p][j]
    BY <1>0 DEF FailScenarioMetadata, TypeOK, Tables
<1>2. /\ Writing(w) /\ ~Writing(w)'
      /\ \A v \in Workers \ {w} : worker'[v] = worker[v]
    BY <1>0 DEF FailScenarioMetadata, Answer, TypeOK, Writing, WritingSteps,
                Idle
<1>3. \A v \in Workers \ {w} : Writing(v)' <=> Writing(v)
    BY <1>2 DEF Writing
<1>4. AloneIsAlone'
    BY <1>2, <1>3 DEF WholeInv, AloneIsAlone
<1>5. WrittenSoFar'
  <2> SUFFICES ASSUME NEW v \in Workers, Writing(v)', worker'[v].alone,
                      NEW p \in Written(worker'[v].pc)
               PROVE  /\ db'[p][worker'[v].id] = worker'[v].tag
                      /\ disk'[p][worker'[v].id] = worker'[v].tag
      BY DEF WrittenSoFar
  <2>1. v # w /\ worker'[v] = worker[v] /\ Writing(v)
      BY <1>2, <1>3
  <2>2. worker[v].id # i
      BY <2>1, <1>2 DEF WholeInv, AloneIsAlone
  <2>3. p \in Parts
      BY DEF Writing, WritingSteps, Written, Parts
  <2> QED
      BY <2>1, <2>2, <2>3, <1>0, <1>1 DEF WholeInv, WrittenSoFar
<1>6. LeftOpenIsConfined'
    BY <1>1 DEF WholeInv, LeftOpenIsConfined
<1>7. \A j \in Ids \ {i} : Saving(j) => Saving(j)'
    BY <1>2, <1>3 DEF Saving
<1>8. StoredWhole'
    BY <1>1, <1>7 DEF WholeInv, StoredWhole, Parts
<1> QED
    BY <1>4, <1>5, <1>6, <1>8 DEF WholeInv

LEMMA LastSaveKeepsWhole ==
    ASSUME WholeInv, TypeInv', NEW w \in Workers, SaveWhatIf(w)
    PROVE  WholeInv'
<1> DEFINE i == worker[w].id
<1>0. /\ TypeOK /\ i \in Ids
      /\ \A v \in Workers : worker[v].id \in Ids
    BY DEF WholeInv, TypeInv, TypeOK, WorkerRecords
<1>1. /\ disk' = db'
      /\ \A p \in Parts, j \in Ids : j # i => db'[p][j] = db[p][j]
      /\ db'["whatif"][i] = worker[w].tag
      /\ \A p \in Parts \ {"whatif"} : db'[p][i] = db[p][i]
  <2>1. Commit({"whatif"}, i, worker[w].tag)
      BY DEF SaveWhatIf
  <2> QED
      BY <2>1, <1>0 DEF Commit, TypeOK, Tables, Parts
<1>2. /\ Writing(w) /\ ~Writing(w)'
      /\ \A v \in Workers \ {w} : worker'[v] = worker[v]
      /\ Written(worker[w].pc) = Parts \ {"whatif"}
    BY <1>0 DEF SaveWhatIf, TypeOK, WorkerRecords, Writing, WritingSteps,
                Written
<1>3. \A v \in Workers \ {w} : Writing(v)' <=> Writing(v)
    BY <1>2 DEF Writing
<1>4. AloneIsAlone'
    BY <1>2, <1>3 DEF WholeInv, AloneIsAlone
<1>5. WrittenSoFar'
  <2> SUFFICES ASSUME NEW v \in Workers, Writing(v)', worker'[v].alone,
                      NEW p \in Written(worker'[v].pc)
               PROVE  db'[p][worker'[v].id] = worker'[v].tag
      BY <1>1 DEF WrittenSoFar
  <2>1. v # w /\ worker'[v] = worker[v] /\ Writing(v)
      BY <1>2, <1>3
  <2>2. worker[v].id # i
      BY <2>1, <1>2 DEF WholeInv, AloneIsAlone
  <2>3. p \in Parts
      BY DEF Writing, WritingSteps, Written, Parts
  <2> QED
      BY <2>1, <2>2, <2>3, <1>0, <1>1 DEF WholeInv, WrittenSoFar
<1>6. LeftOpenIsConfined'
    BY <1>1 DEF LeftOpenIsConfined
<1>7. \A j \in Ids \ {i} : Saving(j) => Saving(j)'
    BY <1>2, <1>3 DEF Saving
<1>8. i \notin torn' => \A p \in Parts : db'[p][i] = worker[w].tag
    BY <1>1, <1>2 DEF SaveWhatIf, WholeInv, WrittenSoFar
<1>9. \A j \in Ids \ {i} : j \notin torn' => j \notin torn
    BY DEF SaveWhatIf
<1>10. StoredWhole'
    BY <1>1, <1>7, <1>8, <1>9 DEF WholeInv, StoredWhole, Parts
<1> QED
    BY <1>4, <1>5, <1>6, <1>10 DEF WholeInv

LEMMA DeleteKeepsWhole ==
    ASSUME WholeInv, TypeInv', NEW w \in Workers, Delete(w)
    PROVE  WholeInv'
<1> DEFINE i == worker[w].id
<1>0. /\ TypeOK /\ i \in Ids
      /\ \A v \in Workers : worker[v].id \in Ids
    BY DEF WholeInv, TypeInv, TypeOK, WorkerRecords
<1>1. /\ disk' = db'
      /\ \A p \in Parts, j \in Ids : j # i => db'[p][j] = db[p][j]
      /\ \A p \in Parts : db'[p][i] = Absent
  <2>1. Commit(Parts, i, Absent)
      BY DEF Delete, DeleteFrom
  <2> QED
      BY <2>1, <1>0 DEF Commit, TypeOK, Tables
<1>2. /\ ~Writing(w) /\ ~Writing(w)'
      /\ \A v \in Workers \ {w} :
            /\ worker'[v].pc = worker[v].pc /\ worker'[v].id = worker[v].id
            /\ worker'[v].tag = worker[v].tag
            /\ worker'[v].alone => worker[v].alone /\ worker[v].id # i
    BY <1>0 DEF Delete, DeleteFrom, TypeOK, WorkerRecords, Writing, WritingSteps
<1>3. \A v \in Workers \ {w} : Writing(v)' <=> Writing(v)
    BY <1>2 DEF Writing
<1>4. AloneIsAlone'
    BY <1>2, <1>3 DEF WholeInv, AloneIsAlone
<1>5. WrittenSoFar'
  <2> SUFFICES ASSUME NEW v \in Workers, Writing(v)', worker'[v].alone,
                      NEW p \in Written(worker'[v].pc)
               PROVE  db'[p][worker'[v].id] = worker'[v].tag
      BY <1>1 DEF WrittenSoFar
  <2>1. p \in Parts
      BY DEF Writing, WritingSteps, Written, Parts
  <2> QED
      BY <2>1, <1>0, <1>1, <1>2, <1>3 DEF WholeInv, WrittenSoFar
<1>6. LeftOpenIsConfined'
    BY <1>1 DEF LeftOpenIsConfined
<1>7. \A j \in Ids : Saving(j) => Saving(j)'
    BY <1>2, <1>3 DEF Saving
<1>8. \A j \in Ids \ {i} : j \notin torn' => j \notin torn
    BY DEF Delete, DeleteFrom
<1>9. StoredWhole'
  <2> SUFFICES ASSUME NEW j \in Ids \ torn', ~Saving(j)', NEW p \in Parts
               PROVE  db'[p][j] = db'["scenarios"][j]
      BY <1>1 DEF StoredWhole
  <2>1. CASE j = i
      BY <2>1, <1>1 DEF Parts
  <2>2. CASE j # i
    <3>1. ~Saving(j) /\ j \notin torn
        BY <2>2, <1>7, <1>8
    <3> QED
        BY <3>1, <2>2, <1>1 DEF WholeInv, StoredWhole, Parts
  <2> QED
      BY <2>1, <2>2
<1> QED
    BY <1>4, <1>5, <1>6, <1>9 DEF WholeInv

LEMMA RestartKeepsWhole ==
    ASSUME WholeInv, TypeInv', Restart
    PROVE  WholeInv'
<1>1. /\ db' = disk /\ disk' = disk
      /\ torn' = torn \cup {worker[w].id : w \in {v \in Workers : Writing(v)}}
      /\ \A w \in Workers : ~Writing(w)'
    BY DEF Restart, Writing, WritingSteps, Idle
<1>2. \A i \in Ids \ torn' : ~Saving(i)
    BY <1>1 DEF Saving
<1> QED
    BY <1>1, <1>2
    DEF WholeInv, AloneIsAlone, WrittenSoFar, LeftOpenIsConfined, StoredWhole,
        Parts

LEMMA RebuildKeepsWhole ==
    ASSUME WholeInv, TypeInv', RestartWithRebuild
    PROVE  WholeInv'
<1>1. /\ db' = BaselineOnly /\ disk' = BaselineOnly
      /\ \A w \in Workers : ~Writing(w)'
    BY DEF RestartWithRebuild, Writing, WritingSteps
<1> QED
    BY <1>1
    DEF WholeInv, AloneIsAlone, WrittenSoFar, LeftOpenIsConfined, StoredWhole,
        BaselineOnly, Parts

LEMMA NextWhole == WholeInv /\ [Next]_vars => WholeInv'
<1> SUFFICES ASSUME WholeInv, [Next]_vars PROVE WholeInv'
    OBVIOUS
<1>0. TypeInv' /\ TypeOK
    BY NextType DEF WholeInv, TypeInv
<1>1. ASSUME NEW w \in Workers, Request(w) PROVE WholeInv'
    BY <1>0, <1>1, RequestIsCalm, CalmKeepsWhole
<1>2. ASSUME NEW w \in Workers, Handle(w), ~Saves(w), ~Delete(w)
      PROVE  WholeInv'
    BY <1>0, <1>2, HandleIsCalm, CalmKeepsWhole
<1>3. ASSUME NEW w \in Workers, SaveScenario(w) PROVE WholeInv'
    BY <1>0, <1>3, FirstSaveKeepsWhole
<1>4. ASSUME NEW w \in Workers, SaveScenarioMetadata(w) PROVE WholeInv'
  <2>1. /\ Commit({"metadata", "assumptions"}, worker[w].id, worker[w].tag)
        /\ torn' = torn
      BY <1>4 DEF SaveScenarioMetadata
  <2>2. /\ \A v \in Workers \ {w} : worker'[v] = worker[v]
        /\ worker'[w] = [worker[w] EXCEPT !.pc = worker'[w].pc]
        /\ Writing(w) /\ Writing(w)'
        /\ Written(worker'[w].pc) =
              Written(worker[w].pc) \cup {"metadata", "assumptions"}
        /\ Written(worker'[w].pc) \subseteq Parts
      BY <1>0, <1>4
      DEF SaveScenarioMetadata, Step, TypeOK, WorkerRecords, Writing,
          WritingSteps, Written, Parts
  <2>3. /\ worker'[w].id = worker[w].id /\ worker'[w].tag = worker[w].tag
        /\ worker'[w].alone = worker[w].alone
      BY <1>0, <2>2 DEF TypeOK, WorkerRecords
  <2> QED
      BY <1>0, <2>1, <2>2, <2>3, SaveKeepsWhole
<1>5. ASSUME NEW w \in Workers, ReplaceScenarioResults(w) PROVE WholeInv'
  <2>1. /\ Commit({"results"}, worker[w].id, worker[w].tag)
        /\ torn' = torn
      BY <1>5 DEF ReplaceScenarioResults
  <2>2. /\ \A v \in Workers \ {w} : worker'[v] = worker[v]
        /\ worker'[w] = [worker[w] EXCEPT !.pc = worker'[w].pc]
        /\ Writing(w) /\ Writing(w)'
        /\ Written(worker'[w].pc) = Written(worker[w].pc) \cup {"results"}
        /\ Written(worker'[w].pc) \subseteq Parts
      BY <1>0, <1>5
      DEF ReplaceScenarioResults, Step, TypeOK, WorkerRecords, Writing,
          WritingSteps, Written, Parts
  <2>3. /\ worker'[w].id = worker[w].id /\ worker'[w].tag = worker[w].tag
        /\ worker'[w].alone = worker[w].alone
      BY <1>0, <2>2 DEF TypeOK, WorkerRecords
  <2> QED
      BY <1>0, <2>1, <2>2, <2>3, SaveKeepsWhole
<1>6. ASSUME NEW w \in Workers, SaveRuleExecutions(w) PROVE WholeInv'
  <2>1. /\ Commit({"rules"}, worker[w].id, worker[w].tag)
        /\ torn' = torn
      BY <1>6 DEF SaveRuleExecutions
  <2>2. /\ \A v \in Workers \ {w} : worker'[v] = worker[v]
        /\ worker'[w] = [worker[w] EXCEPT !.pc = worker'[w].pc]
        /\ Writing(w) /\ Writing(w)'
        /\ Written(worker'[w].pc) = Written(worker[w].pc) \cup {"rules"}
        /\ Written(worker'[w].pc) \subseteq Parts
      BY <1>0, <1>6
      DEF SaveRuleExecutions, Step, TypeOK, WorkerRecords, Writing,
          WritingSteps, Written, Parts
  <2>3. /\ worker'[w].id = worker[w].id /\ worker'[w].tag = worker[w].tag
        /\ worker'[w].alone = worker[w].alone
      BY <1>0, <2>2 DEF TypeOK, WorkerRecords
  <2> QED
      BY <1>0, <2>1, <2>2, <2>3, SaveKeepsWhole
<1>7. ASSUME NEW w \in Workers, FailScenarioMetadata(w) PROVE WholeInv'
    BY <1>0, <1>7, FailedSaveKeepsWhole
<1>8. ASSUME NEW w \in Workers, SaveWhatIf(w) PROVE WholeInv'
    BY <1>0, <1>8, LastSaveKeepsWhole
<1>9. ASSUME NEW w \in Workers, Delete(w) PROVE WholeInv'
    BY <1>0, <1>9, DeleteKeepsWhole
<1>10. CASE Restart
    BY <1>0, <1>10, RestartKeepsWhole
<1>11. CASE RestartWithRebuild
    BY <1>0, <1>11, RebuildKeepsWhole
<1>12. CASE UNCHANGED vars \/ \E d \in Drafts : TimePasses(d)
  <2>1. UNCHANGED <<db, disk, worker, torn>>
      BY <1>12 DEF vars, TimePasses
  <2> QED
      BY <1>0, <2>1
      DEF WholeInv, AloneIsAlone, WrittenSoFar, LeftOpenIsConfined,
          StoredWhole, Saving, Writing
<1> QED
    BY <1>1, <1>2, <1>3, <1>4, <1>5, <1>6, <1>7, <1>8, <1>9, <1>10, <1>11,
       <1>12 DEF Next, Quiet, Saves

\* The strengthened invariant holds throughout every behaviour.
THEOREM WholeHolds == Spec => []WholeInv
BY InitWhole, NextWhole, PTL DEF Spec

\* A scenario whose last save was not disturbed is whole in every table, read
\* and committed, under any interleaving, failures and restarts of the others.
THEOREM UndisturbedIsWhole == Spec => []StoredWhole
<1>1. WholeInv => StoredWhole
    BY DEF WholeInv
<1> QED
    BY <1>1, WholeHolds, PTL

\* What a failed call leaves open can only damage that call's own scenario.
THEOREM LeftOpenConfined == Spec => []LeftOpenIsConfined
<1>1. WholeInv => LeftOpenIsConfined
    BY DEF WholeInv
<1> QED
    BY <1>1, WholeHolds, PTL

-----------------------------------------------------------------------------
(* The baseline *)

\* A handler saves under BASELINE only when its request was to edit BASELINE,
\* and is counted among the edits once it has begun to.
WorkerIds(rec) ==
    /\ rec.pc \in WritingSteps \cup {"save_scenario"} =>
          rec.id # BASELINE \/ rec.op = "update_baseline"
    /\ rec.pc \in WritingSteps /\ rec.id = BASELINE => rec.tag \in edits
    /\ rec.pc \in {"check", "inherit"} =>
          \/ rec.op \in {"create", "confirm", "draft", "update_baseline"}
          \/ rec.id # BASELINE
    /\ rec.pc = "read_draft" => rec.op \in {"confirm", "cancel"}

BaselineInv ==
    /\ WholeInv
    /\ \A w \in Workers : WorkerIds(worker[w])
    /\ BaselineIntact

LEMMA InitBaseline == Init => BaselineInv
BY InitWhole, RecordTypes
DEF Init, BaselineInv, WorkerIds, BaselineIntact, BaselineRows, BaselineOnly,
    Idle, WritingSteps

LEMMA RequestIds ==
    ASSUME BaselineInv, NEW w \in Workers, Request(w)
    PROVE  \A v \in Workers : WorkerIds(worker[v])'
<1> USE DEF BaselineInv, WholeInv, TypeInv, TypeOK, WorkerIds, WritingSteps,
            Idle, FirstStep, Begin
<1>1. CASE RequestCreate(w)  BY <1>1 DEF RequestCreate
<1>2. CASE RequestUpdate(w)  BY <1>2 DEF RequestUpdate
<1>3. CASE RequestUpdateBaseline(w)  BY <1>3 DEF RequestUpdateBaseline
<1>4. CASE RequestDelete(w)  BY <1>4 DEF RequestDelete
<1>5. CASE RequestDraft(w)  BY <1>5 DEF RequestDraft
<1>6. CASE RequestConfirm(w)  BY <1>6 DEF RequestConfirm
<1>7. CASE RequestCancel(w)  BY <1>7 DEF RequestCancel
<1> QED
    BY <1>1, <1>2, <1>3, <1>4, <1>5, <1>6, <1>7 DEF Request

LEMMA HandleIds ==
    ASSUME BaselineInv, NEW w \in Workers, Handle(w)
    PROVE  \A v \in Workers : WorkerIds(worker[v])'
<1> USE DEF BaselineInv, WholeInv, TypeInv, TypeOK, WorkerRecords, WorkerIds,
            WritingSteps, Idle, FirstStep, Step, Answer
<1>1. CASE Check(w)  BY <1>1 DEF Check
<1>2. CASE Inherit(w)  BY <1>2 DEF Inherit
<1>3. CASE Allocate(w)
    BY <1>3, NumberType DEF Allocate, BASELINE
<1>4. CASE Refuse(w)  BY <1>4 DEF Refuse
<1>5. CASE SaveScenario(w)  BY <1>5 DEF SaveScenario
<1>6. CASE SaveScenarioMetadata(w)  BY <1>6 DEF SaveScenarioMetadata
<1>7. CASE FailScenarioMetadata(w)  BY <1>7 DEF FailScenarioMetadata
<1>8. CASE ReplaceScenarioResults(w)  BY <1>8 DEF ReplaceScenarioResults
<1>9. CASE SaveRuleExecutions(w)  BY <1>9 DEF SaveRuleExecutions
<1>10. CASE SaveWhatIf(w)  BY <1>10 DEF SaveWhatIf
<1>11. CASE Delete(w)  BY <1>11 DEF Delete, DeleteFrom
<1>12. CASE RefuseDelete(w)  BY <1>12 DEF RefuseDelete
<1>13. CASE Refresh(w)  BY <1>13 DEF Refresh
<1>14. CASE FailRefresh(w)  BY <1>14 DEF FailRefresh
<1>15. CASE Detail(w)  BY <1>15 DEF Detail
<1>16. CASE ReadDraft(w)  BY <1>16 DEF ReadDraft
<1>17. CASE Mark(w) \/ Expire(w) \/ Cancel(w)
    BY <1>17 DEF Mark, Expire, Cancel, UpdateDraft
<1>18. CASE SaveDraft(w)  BY <1>18 DEF SaveDraft
<1>19. CASE FailReceipt(w)  BY <1>19 DEF FailReceipt
<1> QED
    BY <1>1, <1>2, <1>3, <1>4, <1>5, <1>6, <1>7, <1>8, <1>9, <1>10, <1>11,
       <1>12, <1>13, <1>14, <1>15, <1>16, <1>17, <1>18, <1>19 DEF Handle

LEMMA HandleKeepsBaseline ==
    ASSUME BaselineInv, NEW w \in Workers, Handle(w)
    PROVE  BaselineIntact'
<1> DEFINE i == worker[w].id
<1>0. /\ TypeOK /\ i \in Ids /\ BASELINE \in Ids
      /\ WorkerIds(worker[w]) /\ WholeInv
    BY RecordTypes DEF BaselineInv, WholeInv, TypeInv, TypeOK, WorkerRecords
<1>1. ASSUME NEW ps, NEW t, Commit(ps, i, t),
             i = BASELINE => t \in edits',
             edits \subseteq edits', torn \subseteq torn'
      PROVE  BaselineIntact'
  <2> SUFFICES ASSUME NEW p \in Parts
               PROVE  /\ db'[p][BASELINE] \in BaselineRows(p)'
                      /\ disk'[p][BASELINE] \in BaselineRows(p)'
      BY DEF BaselineIntact
  <2>1. BaselineRows(p) \subseteq BaselineRows(p)'
      BY <1>1 DEF BaselineRows
  <2>2. db[p][BASELINE] \in BaselineRows(p)
      BY DEF BaselineInv, BaselineIntact
  <2>3. disk' = db' /\ db'[p] = [db[p] EXCEPT ![i] = IF p \in ps THEN t ELSE @]
      BY <1>1 DEF Commit
  <2>4. db[p] \in [Ids -> Tags]
      BY <1>0 DEF TypeOK, Tables
  <2>5. \/ db'[p][BASELINE] = db[p][BASELINE]
        \/ i = BASELINE /\ db'[p][BASELINE] = t
      BY <1>0, <2>3, <2>4
  <2> QED
      BY <1>1, <2>1, <2>2, <2>3, <2>5 DEF BaselineRows
<1>2. CASE SaveScenario(w)
    BY <1>0, <1>1, <1>2 DEF SaveScenario, WorkerIds
<1>3. CASE SaveScenarioMetadata(w) \/ ReplaceScenarioResults(w)
             \/ SaveRuleExecutions(w)
  <2>1. i = BASELINE => worker[w].tag \in edits
      BY <1>0, <1>3
      DEF WorkerIds, WritingSteps, SaveScenarioMetadata,
          ReplaceScenarioResults, SaveRuleExecutions
  <2> QED
      BY <1>1, <1>3, <2>1
      DEF SaveScenarioMetadata, ReplaceScenarioResults, SaveRuleExecutions
<1>4. CASE FailScenarioMetadata(w)
  <2>1. i = BASELINE => worker[w].tag \in edits
      BY <1>0, <1>4 DEF WorkerIds, WritingSteps, FailScenarioMetadata
  <2>2. /\ disk' = disk /\ torn' = torn \cup {i} /\ edits' = edits
        /\ db' = [db EXCEPT !["metadata"][i] = worker[w].tag,
                            !["assumptions"][i] = Partial]
      BY <1>4 DEF FailScenarioMetadata
  <2> SUFFICES ASSUME NEW p \in Parts
               PROVE  /\ db'[p][BASELINE] \in BaselineRows(p)'
                      /\ disk'[p][BASELINE] \in BaselineRows(p)'
      BY DEF BaselineIntact
  <2>3. BaselineRows(p) \subseteq BaselineRows(p)'
      BY <2>2 DEF BaselineRows
  <2>4. \/ db'[p][BASELINE] = db[p][BASELINE]
        \/ i = BASELINE /\ p = "metadata" /\ db'[p][BASELINE] = worker[w].tag
        \/ i = BASELINE /\ p = "assumptions" /\ db'[p][BASELINE] = Partial
      BY <1>0, <2>2 DEF TypeOK, Tables, Parts
  <2>5. {db[p][BASELINE], disk[p][BASELINE]} \subseteq BaselineRows(p)
      BY DEF BaselineInv, BaselineIntact
  <2>6. i = BASELINE => BASELINE \in torn'
      BY <2>2
  <2> QED
      BY <2>1, <2>2, <2>3, <2>4, <2>5, <2>6 DEF BaselineRows
<1>5. CASE SaveWhatIf(w)
  <2>1. Commit({"whatif"}, i, worker[w].tag) /\ edits' = edits
      BY <1>5 DEF SaveWhatIf
  <2>2. i = BASELINE => worker[w].tag \in edits
      BY <1>0, <1>5 DEF WorkerIds, WritingSteps, SaveWhatIf
  <2>3. CASE torn \subseteq torn'
      BY <1>1, <2>1, <2>2, <2>3
  <2>4. CASE torn' = torn \ {i} /\ worker[w].alone
    <3>1. \A p \in Parts \ {"whatif"} : db[p][i] = worker[w].tag
        BY <1>0, <1>5, <2>4
        DEF SaveWhatIf, WholeInv, WrittenSoFar, Writing, WritingSteps, Written
    <3>2. /\ disk' = db'
          /\ \A p \in Parts : db'[p][i] = worker[w].tag
          /\ \A p \in Parts : i # BASELINE => db'[p][BASELINE] = db[p][BASELINE]
        BY <1>0, <2>1, <3>1 DEF Commit, TypeOK, Tables
    <3>3. i # BASELINE => \A p \in Parts : BaselineRows(p)' = BaselineRows(p)
        BY <2>1, <2>4 DEF BaselineRows
    <3> QED
        BY <2>1, <2>2, <3>2, <3>3 DEF BaselineInv, BaselineIntact, BaselineRows
  <2> QED
      BY <1>5, <2>3, <2>4 DEF SaveWhatIf
<1>6. CASE Delete(w)
  <2>1. i # BASELINE /\ Commit(Parts, i, Absent) /\ edits' = edits
        /\ (BASELINE \in torn <=> BASELINE \in torn')
      BY <1>6 DEF Delete, DeleteFrom
  <2>2. \A p \in Parts : disk' = db' /\ db'[p][BASELINE] = db[p][BASELINE]
      BY <1>0, <2>1 DEF Commit, TypeOK, Tables
  <2> QED
      BY <2>1, <2>2 DEF BaselineInv, BaselineIntact, BaselineRows
<1>7. CASE ~Saves(w) /\ ~Delete(w)
  <2>1. /\ db' = db /\ disk' \in {disk, db}
        /\ torn' = torn /\ edits' = edits
      BY <1>0, <1>7, HandleIsCalm DEF Calm
  <2> QED
      BY <2>1 DEF BaselineInv, BaselineIntact, BaselineRows
<1> QED
    BY <1>2, <1>3, <1>4, <1>5, <1>6, <1>7 DEF Saves

\* Whatever clients send, edits of BASELINE included, every row of BASELINE is
\* the one initialize stored or one of such an edit, read and committed, under
\* any interleaving, failures and restarts.
THEOREM BaselineStaysIntact == Spec => []BaselineIntact
<1>1. BaselineInv /\ [Next]_vars => BaselineInv'
  <2> SUFFICES ASSUME BaselineInv, [Next]_vars PROVE BaselineInv'
      OBVIOUS
  <2>0. WholeInv' /\ TypeOK
      BY NextWhole DEF BaselineInv, WholeInv, TypeInv
  <2>1. ASSUME NEW w \in Workers, Request(w) PROVE BaselineInv'
    <3>1. BaselineIntact'
        BY <2>0, <2>1, RequestIsCalm
        DEF Calm, BaselineInv, BaselineIntact, BaselineRows
    <3>2. \A v \in Workers : WorkerIds(worker[v])'
        BY <2>1, RequestIds
    <3> QED
        BY <2>0, <3>1, <3>2 DEF BaselineInv
  <2>2. ASSUME NEW w \in Workers, Handle(w) PROVE BaselineInv'
      BY <2>0, <2>2, HandleIds, HandleKeepsBaseline DEF BaselineInv
  <2>3. CASE Restart
    <3>1. \A p \in Parts : BaselineRows(p) \subseteq BaselineRows(p)'
        BY <2>3 DEF Restart, BaselineRows
    <3>2. BaselineIntact'
        BY <2>3, <3>1 DEF Restart, BaselineInv, BaselineIntact
    <3> QED
        BY <2>0, <2>3, <3>2
        DEF Restart, BaselineInv, WorkerIds, Idle, WritingSteps
  <2>4. CASE RestartWithRebuild
      BY <2>0, <2>4, RecordTypes
      DEF RestartWithRebuild, BaselineInv, BaselineIntact, BaselineRows,
          BaselineOnly, WorkerIds, WritingSteps
  <2>5. CASE UNCHANGED vars \/ \E d \in Drafts : TimePasses(d)
    <3>1. UNCHANGED <<db, disk, worker, torn, edits>>
        BY <2>5 DEF vars, TimePasses
    <3> QED
        BY <2>0, <3>1 DEF BaselineInv, BaselineIntact, BaselineRows, WorkerIds
  <2> QED
      BY <2>1, <2>2, <2>3, <2>4, <2>5 DEF Next, Quiet
<1>2. BaselineInv => BaselineIntact
    BY DEF BaselineInv
<1> QED
    BY <1>1, <1>2, InitBaseline, PTL DEF Spec

-----------------------------------------------------------------------------
(* Orphans and inheritance *)

\* Requests that store a scenario.
Storing == {"create", "update", "update_baseline", "confirm"}

\* What a thread knows of the stores at each step of its request, whatever the
\* other threads do: a base looked up is there unless it was deleted since, a
\* scenario being saved has its row unless it was deleted meanwhile.
ThreadKnows(w) ==
    /\ worker[w].pc = "read_draft" =>
          worker[w].op \in {"confirm", "cancel"} /\ worker[w].inherits = Built
    /\ worker[w].pc \in {"check", "inherit"} =>
          worker[w].op \in Storing \cup {"draft"}
    /\ worker[w].pc \in {"allocate", "save_scenario"} \cup WritingSteps =>
          worker[w].op \in Storing
    /\ worker[w].op \in Storing => worker[w].tag # Absent
    /\ worker[w].pc = "inherit" /\ ~worker[w].shaky => Exists(worker[w].base)
    /\ Computed(w) /\ ~worker[w].shaky => worker[w].inherits # Absent
    /\ Writing(w) /\ worker[w].id \notin undercut =>
          Exists(worker[w].id) /\ disk["scenarios"][worker[w].id] # Absent

\* The same of the committed tables, which a restart reads again.
NoOrphansOnDisk ==
    \A i \in Ids \ undercut :
        disk["scenarios"][i] = Absent => \A p \in Parts : disk[p][i] = Absent

\* A settled scenario has assumptions.
SettledHaveAssumptions ==
    \A i \in Ids : Exists(i) /\ ~Unsettled(i) => db["assumptions"][i] # Absent

StoreInv ==
    /\ WholeInv
    /\ NoOrphans
    /\ NoOrphansOnDisk
    /\ SettledHaveAssumptions
    /\ \A w \in Workers : ThreadKnows(w)

LEMMA InitStore == Init => StoreInv
BY InitWhole, RecordTypes
DEF Init, StoreInv, NoOrphans, NoOrphansOnDisk, SettledHaveAssumptions,
    ThreadKnows, BaselineOnly, Parts, Exists, Idle, Storing, Computed, Writing,
    WritingSteps, Absent, Built, BASELINE

\* Another thread knows what it knew if its request is where it was, the rows
\* it relies on are there, and it has been told of a deletion.
LEMMA OtherKnows ==
    ASSUME NEW v \in Workers, ThreadKnows(v),
           worker'[v].pc = worker[v].pc, worker'[v].op = worker[v].op,
           worker'[v].id = worker[v].id, worker'[v].base = worker[v].base,
           worker'[v].tag = worker[v].tag,
           worker'[v].inherits = worker[v].inherits,
           worker[v].shaky => worker'[v].shaky,
           worker[v].pc = "inherit" /\ ~worker'[v].shaky /\ Exists(worker[v].base)
               => db'["scenarios"][worker[v].base] # Absent,
           Writing(v) /\ worker[v].id \notin undercut' =>
               /\ db'["scenarios"][worker[v].id] # Absent
               /\ disk'["scenarios"][worker[v].id] # Absent
    PROVE  ThreadKnows(v)'
BY DEF ThreadKnows, Computed, Writing, Exists

LEMMA RequestKnows ==
    ASSUME StoreInv, NEW w \in Workers, Request(w)
    PROVE  \A v \in Workers : ThreadKnows(v)'
<1>1. NextTag # Absent
    BY DEF StoreInv, WholeInv, TypeInv, TypeOK, NextTag, Absent
<1>2. ThreadKnows(w)'
  <2> USE <1>1
      DEF StoreInv, WholeInv, TypeInv, TypeOK, ThreadKnows, Storing, Writing,
          WritingSteps, Computed, FirstStep, Idle, Begin, Built, Absent
  <2>2. CASE RequestCreate(w)  BY <2>2 DEF RequestCreate
  <2>3. CASE RequestUpdate(w)  BY <2>3 DEF RequestUpdate
  <2>4. CASE RequestUpdateBaseline(w)  BY <2>4 DEF RequestUpdateBaseline
  <2>5. CASE RequestDelete(w)  BY <2>5 DEF RequestDelete
  <2>6. CASE RequestDraft(w)  BY <2>6 DEF RequestDraft
  <2>7. CASE RequestConfirm(w)  BY <2>7 DEF RequestConfirm
  <2>8. CASE RequestCancel(w)  BY <2>8 DEF RequestCancel
  <2> QED
      BY <2>2, <2>3, <2>4, <2>5, <2>6, <2>7, <2>8 DEF Request
<1>3. ASSUME NEW v \in Workers \ {w} PROVE ThreadKnows(v)'
  <2>1. /\ worker'[v] = worker[v] /\ db' = db /\ disk' \in {disk, db}
        /\ undercut' = undercut /\ ThreadKnows(v)
      BY RequestIsCalm DEF Calm, StoreInv, WholeInv, TypeInv
  <2> QED
      BY <2>1, OtherKnows DEF ThreadKnows, Exists
<1> QED
    BY <1>2, <1>3

\* Parts ps of scenario i, and no other rows, are now those of t, and committed.
Replaced(ps, i, t) ==
    /\ disk' = db'
    /\ \A p \in ps \cap Parts : db'[p][i] = t
    /\ \A p \in Parts, j \in Ids : p \notin ps \/ j # i => db'[p][j] = db[p][j]

LEMMA CommitReplaces ==
    ASSUME TypeOK, NEW ps, NEW i \in Ids, NEW t, Commit(ps, i, t)
    PROVE  Replaced(ps, i, t)
BY DEF TypeOK, Commit, Tables, Replaced

\* The steps that save, seen from the tables: what they replace, and where the
\* thread is afterwards.
LEMMA SaveReplaces ==
    ASSUME StoreInv, NEW w \in Workers, Saves(w), ~FailScenarioMetadata(w)
    PROVE  \E ps \in SUBSET Parts :
              /\ Replaced(ps, worker[w].id, worker[w].tag)
              /\ worker[w].tag # Absent
              /\ \/ SaveScenario(w) /\ ps = {"scenarios"}
                 \/ SaveScenarioMetadata(w) /\ ps = {"metadata", "assumptions"}
                 \/ ReplaceScenarioResults(w) /\ ps = {"results"}
                 \/ SaveRuleExecutions(w) /\ ps = {"rules"}
                 \/ SaveWhatIf(w) /\ ps = {"whatif"}
<1>0. TypeOK /\ worker[w].id \in Ids
    BY DEF StoreInv, WholeInv, TypeInv, TypeOK, WorkerRecords
<1>1. worker[w].tag # Absent
    BY DEF StoreInv, ThreadKnows, Saves, SaveScenario, SaveScenarioMetadata,
           FailScenarioMetadata, ReplaceScenarioResults, SaveRuleExecutions,
           SaveWhatIf, WritingSteps
<1>2. ASSUME NEW ps \in SUBSET Parts, Commit(ps, worker[w].id, worker[w].tag)
      PROVE  Replaced(ps, worker[w].id, worker[w].tag)
    BY <1>0, <1>2, CommitReplaces
<1>3. CASE SaveScenario(w)
    BY <1>1, <1>2, <1>3 DEF SaveScenario, Parts
<1>4. CASE SaveScenarioMetadata(w)
    BY <1>1, <1>2, <1>4 DEF SaveScenarioMetadata, Parts
<1>5. CASE ReplaceScenarioResults(w)
    BY <1>1, <1>2, <1>5 DEF ReplaceScenarioResults, Parts
<1>6. CASE SaveRuleExecutions(w)
    BY <1>1, <1>2, <1>6 DEF SaveRuleExecutions, Parts
<1>7. CASE SaveWhatIf(w)
    BY <1>1, <1>2, <1>7 DEF SaveWhatIf, Parts
<1> QED
    BY <1>3, <1>4, <1>5, <1>6, <1>7 DEF Saves

\* What a save leaves: its thread's place, the observed sets, and the rows.
LEMMA SaveEffect ==
    ASSUME StoreInv, NEW w \in Workers, Saves(w), ~FailScenarioMetadata(w)
    PROVE  LET i == worker[w].id IN
           /\ i \in Ids
           /\ disk' = db'
           /\ \A p \in Parts, j \in Ids : j # i => db'[p][j] = db[p][j]
           /\ \A p \in Parts : db'[p][i] = db[p][i] \/ db'[p][i] # Absent
           /\ i \notin undercut' => db'["scenarios"][i] # Absent
           /\ undercut' = IF SaveScenario(w) THEN undercut \ {i} ELSE undercut
<1> DEFINE i == worker[w].id
<1>0. i \in Ids /\ "scenarios" \in Parts
    BY DEF StoreInv, WholeInv, TypeInv, TypeOK, WorkerRecords, Parts
<1>1. PICK ps \in SUBSET Parts :
          /\ Replaced(ps, i, worker[w].tag)
          /\ worker[w].tag # Absent
          /\ \/ SaveScenario(w) /\ ps = {"scenarios"}
             \/ SaveScenarioMetadata(w) /\ ps = {"metadata", "assumptions"}
             \/ ReplaceScenarioResults(w) /\ ps = {"results"}
             \/ SaveRuleExecutions(w) /\ ps = {"rules"}
             \/ SaveWhatIf(w) /\ ps = {"whatif"}
    BY SaveReplaces
<1>2. undercut' = IF SaveScenario(w) THEN undercut \ {i} ELSE undercut
    BY <1>1
    DEF SaveScenario, SaveScenarioMetadata, ReplaceScenarioResults,
        SaveRuleExecutions, SaveWhatIf
<1>3. CASE SaveScenario(w)
  <2>1. db'["scenarios"][i] = worker[w].tag
      BY <1>0, <1>1, <1>3
      DEF Replaced, SaveScenario, SaveScenarioMetadata, ReplaceScenarioResults,
          SaveRuleExecutions, SaveWhatIf
  <2> QED
      BY <1>0, <1>1, <1>2, <2>1 DEF Replaced
<1>4. CASE ~SaveScenario(w)
  <2>1. db'["scenarios"][i] = db["scenarios"][i]
      BY <1>0, <1>1, <1>4 DEF Replaced
  <2>2. Writing(w)
      BY <1>1, <1>4
      DEF SaveScenarioMetadata, ReplaceScenarioResults, SaveRuleExecutions,
          SaveWhatIf, Writing, WritingSteps
  <2>3. i \notin undercut' => db["scenarios"][i] # Absent
      BY <1>2, <1>4, <2>2 DEF StoreInv, ThreadKnows, Exists
  <2> QED
      BY <1>0, <1>1, <1>2, <2>1, <2>3 DEF Replaced
<1> QED
    BY <1>3, <1>4

\* What the thread that takes a step knows after it.
LEMMA SelfKnows ==
    ASSUME StoreInv, NEW w \in Workers, Handle(w)
    PROVE  ThreadKnows(w)'
<1>0. /\ worker[w] \in WorkerRecords /\ worker \in [Workers -> WorkerRecords]
      /\ ThreadKnows(w)
    BY DEF StoreInv, WholeInv, TypeInv, TypeOK, WorkerRecords
<1> USE DEF ThreadKnows, Storing, Computed, Writing, WritingSteps, Idle, Step,
            Answer
<1>1. CASE Check(w)  BY <1>0, <1>1 DEF Check, WorkerRecords, Exists
<1>2. CASE Inherit(w)
  <2>1. /\ worker[w].base \in Ids
        /\ ~worker'[w].shaky => ~worker[w].shaky /\ ~Unsettled(worker[w].base)
      BY <1>0, <1>2 DEF Inherit, WorkerRecords
  <2>2. ~worker'[w].shaky => db["assumptions"][worker[w].base] # Absent
      BY <1>0, <1>2, <2>1 DEF Inherit, StoreInv, SettledHaveAssumptions
  <2> QED
      BY <1>0, <1>2, <2>2 DEF Inherit, WorkerRecords
<1>3. CASE Allocate(w)  BY <1>0, <1>3 DEF Allocate, WorkerRecords
<1>4. CASE Refuse(w)  BY <1>0, <1>4 DEF Refuse
<1>5. CASE SaveScenario(w)
  <2>1. /\ worker'[w].pc = "save_metadata" /\ worker'[w].op = worker[w].op
        /\ worker'[w].id = worker[w].id /\ worker'[w].tag = worker[w].tag
      BY <1>0, <1>5 DEF SaveScenario, WorkerRecords
  <2>2. worker[w].id \notin undercut' =>
            /\ db'["scenarios"][worker[w].id] # Absent
            /\ disk'["scenarios"][worker[w].id] # Absent
    <3>1. Saves(w) /\ ~FailScenarioMetadata(w)
        BY <1>5 DEF Saves, SaveScenario, FailScenarioMetadata
    <3> QED
        BY <3>1, SaveEffect
  <2> QED
      BY <1>0, <1>5, <2>1, <2>2 DEF SaveScenario, Exists
<1>6. CASE SaveScenarioMetadata(w) \/ ReplaceScenarioResults(w)
             \/ SaveRuleExecutions(w)
  <2>1. /\ worker'[w].pc \in {"save_results", "save_rules", "save_whatif"}
        /\ worker'[w].op = worker[w].op
        /\ worker'[w].id = worker[w].id /\ worker'[w].tag = worker[w].tag
      BY <1>0, <1>6
      DEF SaveScenarioMetadata, ReplaceScenarioResults, SaveRuleExecutions,
          WorkerRecords
  <2>2. worker[w].id \notin undercut' =>
            /\ db'["scenarios"][worker[w].id] # Absent
            /\ disk'["scenarios"][worker[w].id] # Absent
    <3>1. Saves(w) /\ ~FailScenarioMetadata(w)
        BY <1>0, <1>6
        DEF Saves, SaveScenarioMetadata, FailScenarioMetadata,
            ReplaceScenarioResults, SaveRuleExecutions, WorkerRecords
    <3> QED
        BY <3>1, SaveEffect
  <2>3. worker[w].op \in Storing /\ worker[w].tag # Absent
      BY <1>0, <1>6
      DEF SaveScenarioMetadata, ReplaceScenarioResults, SaveRuleExecutions
  <2> QED
      BY <2>1, <2>2, <2>3 DEF Exists
<1>7. CASE FailScenarioMetadata(w)  BY <1>0, <1>7 DEF FailScenarioMetadata
<1>10. CASE SaveWhatIf(w)
    BY <1>0, <1>10 DEF SaveWhatIf, WorkerRecords
<1>11. CASE Delete(w)  BY <1>0, <1>11 DEF Delete, DeleteFrom, WorkerRecords
<1>12. CASE RefuseDelete(w)  BY <1>0, <1>12 DEF RefuseDelete
<1>13. CASE Refresh(w)  BY <1>0, <1>13 DEF Refresh, WorkerRecords
<1>14. CASE FailRefresh(w)  BY <1>0, <1>14 DEF FailRefresh
<1>15. CASE Detail(w)  BY <1>0, <1>15 DEF Detail, WorkerRecords
<1>16. CASE ReadDraft(w)
    BY <1>0, <1>16 DEF ReadDraft, WorkerRecords, FirstStep, Built, Absent
<1>17. CASE Mark(w) \/ Expire(w) \/ Cancel(w)
    BY <1>0, <1>17 DEF Mark, Expire, Cancel, UpdateDraft
<1>18. CASE SaveDraft(w)  BY <1>0, <1>18 DEF SaveDraft
<1>19. CASE FailReceipt(w)  BY <1>0, <1>19 DEF FailReceipt
<1> QED
    BY <1>1, <1>2, <1>3, <1>4, <1>5, <1>6, <1>7, <1>10, <1>11, <1>12, <1>13,
       <1>14, <1>15, <1>16, <1>17, <1>18, <1>19 DEF Handle

\* What a failed save leaves of the tables.
LEMMA FailEffect ==
    ASSUME StoreInv, NEW w \in Workers, FailScenarioMetadata(w)
    PROVE  LET i == worker[w].id IN
           /\ i \in Ids /\ Writing(w)
           /\ disk' = disk /\ undercut' = undercut
           /\ torn' = torn \cup {i}
           /\ db'["scenarios"] = db["scenarios"]
           /\ \A p \in Parts, j \in Ids : j # i => db'[p][j] = db[p][j]
           /\ \A v \in Workers \ {w} : worker'[v] = worker[v]
           /\ worker'[w] = Idle
<1>0. TypeOK /\ worker[w].id \in Ids
    BY DEF StoreInv, WholeInv, TypeInv, TypeOK, WorkerRecords
<1>1. db' = [db EXCEPT !["metadata"][worker[w].id] = worker[w].tag,
                       !["assumptions"][worker[w].id] = Partial]
    BY DEF FailScenarioMetadata
<1>2. db'["scenarios"] = db["scenarios"]
    BY <1>0, <1>1 DEF TypeOK, Tables, Parts
<1>3. \A p \in Parts, j \in Ids : j # worker[w].id => db'[p][j] = db[p][j]
    BY <1>0, <1>1 DEF TypeOK, Tables, Parts
<1> QED
    BY <1>0, <1>2, <1>3
    DEF FailScenarioMetadata, Answer, TypeOK, Writing, WritingSteps

\* What a deletion leaves: nothing of its scenario, all of the others, and
\* every thread it concerns told.
LEMMA DeleteEffect ==
    ASSUME StoreInv, NEW w \in Workers, Delete(w)
    PROVE  LET i == worker[w].id IN
           /\ i \in Ids
           /\ disk' = db'
           /\ \A p \in Parts, j \in Ids : j # i => db'[p][j] = db[p][j]
           /\ \A p \in Parts : db'[p][i] = Absent
           /\ undercut \subseteq undercut'
           /\ undercut' \subseteq undercut \cup {i}
           /\ Contended(w, i) => i \in undercut'
           /\ worker[w].pc = "delete" /\ worker'[w].pc = "refresh"
           /\ \A j \in Ids \ {i} : j \in torn <=> j \in torn'
           /\ \A v \in Workers \ {w} :
                 /\ worker'[v].pc = worker[v].pc
                 /\ worker'[v].op = worker[v].op
                 /\ worker'[v].id = worker[v].id
                 /\ worker'[v].base = worker[v].base
                 /\ worker'[v].tag = worker[v].tag
                 /\ worker'[v].inherits = worker[v].inherits
                 /\ worker[v].shaky => worker'[v].shaky
                 /\ worker[v].pc = "inherit" /\ worker[v].base = i
                       => worker'[v].shaky
<1> DEFINE i == worker[w].id
<1>0. TypeOK /\ i \in Ids
    BY DEF StoreInv, WholeInv, TypeInv, TypeOK, WorkerRecords
<1>1. Commit(Parts, i, Absent)
    BY DEF Delete, DeleteFrom
<1>2. Replaced(Parts, i, Absent)
    BY <1>0, <1>1, CommitReplaces
<1>3. /\ undercut' = IF Contended(w, i) THEN undercut \cup {i} ELSE undercut
      /\ torn' \in {torn, torn \ {i}}
      /\ worker[w].pc = "delete"
    BY DEF Delete, DeleteFrom
<1>4. worker'[w].pc = "refresh"
    BY <1>0 DEF Delete, DeleteFrom, TypeOK, WorkerRecords
<1>5. ASSUME NEW v \in Workers \ {w}
      PROVE  /\ worker'[v].pc = worker[v].pc
             /\ worker'[v].op = worker[v].op
             /\ worker'[v].id = worker[v].id
             /\ worker'[v].base = worker[v].base
             /\ worker'[v].tag = worker[v].tag
             /\ worker'[v].inherits = worker[v].inherits
             /\ worker[v].shaky => worker'[v].shaky
             /\ worker[v].pc = "inherit" /\ worker[v].base = i
                   => worker'[v].shaky
    BY <1>0, <1>5 DEF Delete, DeleteFrom, TypeOK, WorkerRecords
<1> QED
    BY <1>0, <1>2, <1>3, <1>4, <1>5 DEF Replaced

\* The places of the other threads after a save that does not fail.
LEMMA SaveLeavesOthers ==
    ASSUME StoreInv, NEW w \in Workers, Saves(w), NEW v \in Workers \ {w}
    PROVE  /\ worker'[v].pc = worker[v].pc
           /\ worker'[v].op = worker[v].op
           /\ worker'[v].id = worker[v].id
           /\ worker'[v].base = worker[v].base
           /\ worker'[v].tag = worker[v].tag
           /\ worker'[v].inherits = worker[v].inherits
           /\ worker'[v].shaky = worker[v].shaky
<1>0. worker \in [Workers -> WorkerRecords] /\ worker[v] \in WorkerRecords
    BY DEF StoreInv, WholeInv, TypeInv, TypeOK
<1>1. CASE SaveScenario(w)
    BY <1>0, <1>1 DEF SaveScenario, WorkerRecords
<1>2. CASE ~SaveScenario(w)
    BY <1>0, <1>2
    DEF Saves, SaveScenarioMetadata, FailScenarioMetadata,
        ReplaceScenarioResults, SaveRuleExecutions, SaveWhatIf, Step, Answer
<1> QED
    BY <1>1, <1>2

\* What the other threads know after a step of one.
LEMMA OthersKnow ==
    ASSUME StoreInv, NEW w \in Workers, Handle(w), NEW v \in Workers \ {w}
    PROVE  ThreadKnows(v)'
<1> DEFINE i == worker[w].id
<1>0. /\ ThreadKnows(v) /\ "scenarios" \in Parts
      /\ worker[v].id \in Ids /\ worker[v].base \in Ids
    BY DEF StoreInv, WholeInv, TypeInv, TypeOK, WorkerRecords, Parts
<1>1. CASE FailScenarioMetadata(w)
  <2>1. /\ worker'[v] = worker[v] /\ db'["scenarios"] = db["scenarios"]
        /\ disk' = disk /\ undercut' = undercut
      BY <1>1, FailEffect
  <2> QED
      BY <1>0, <2>1, OtherKnows DEF ThreadKnows, Exists
<1>2. CASE Saves(w) /\ ~FailScenarioMetadata(w)
  <2>1. /\ worker'[v].pc = worker[v].pc /\ worker'[v].op = worker[v].op
        /\ worker'[v].id = worker[v].id /\ worker'[v].base = worker[v].base
        /\ worker'[v].tag = worker[v].tag
        /\ worker'[v].inherits = worker[v].inherits
        /\ worker'[v].shaky = worker[v].shaky
      BY <1>2, SaveLeavesOthers
  <2>2. /\ i \in Ids /\ disk' = db'
        /\ \A j \in Ids : j # i => db'["scenarios"][j] = db["scenarios"][j]
        /\ db'["scenarios"][i] = db["scenarios"][i]
              \/ db'["scenarios"][i] # Absent
        /\ i \notin undercut' => db'["scenarios"][i] # Absent
        /\ \A j \in Ids \ {i} : j \notin undercut' => j \notin undercut
      BY <1>0, <1>2, SaveEffect
  <2>3. Writing(v) /\ worker[v].id \notin undercut' =>
            db'["scenarios"][worker[v].id] # Absent
      BY <1>0, <2>2 DEF ThreadKnows, Exists
  <2>4. Exists(worker[v].base) => db'["scenarios"][worker[v].base] # Absent
      BY <1>0, <2>2 DEF Exists
  <2> HIDE DEF i
  <2> QED
      BY <1>0, <2>1, <2>2, <2>3, <2>4, OtherKnows
<1>3. CASE Delete(w)
  <2>1. /\ worker'[v].pc = worker[v].pc /\ worker'[v].op = worker[v].op
        /\ worker'[v].id = worker[v].id /\ worker'[v].base = worker[v].base
        /\ worker'[v].tag = worker[v].tag
        /\ worker'[v].inherits = worker[v].inherits
        /\ worker[v].shaky => worker'[v].shaky
        /\ worker[v].pc = "inherit" /\ worker[v].base = i => worker'[v].shaky
      BY <1>3, DeleteEffect
  <2>2. /\ i \in Ids /\ disk' = db' /\ undercut \subseteq undercut'
        /\ \A j \in Ids : j # i => db'["scenarios"][j] = db["scenarios"][j]
        /\ Contended(w, i) => i \in undercut'
      BY <1>0, <1>3, DeleteEffect
  <2>3. Writing(v) /\ worker[v].id \notin undercut' =>
            db'["scenarios"][worker[v].id] # Absent
      BY <1>0, <2>2 DEF ThreadKnows, Exists, Contended
  <2>4. worker[v].pc = "inherit" /\ ~worker'[v].shaky /\ Exists(worker[v].base)
            => db'["scenarios"][worker[v].base] # Absent
      BY <1>0, <2>1, <2>2 DEF Exists
  <2> HIDE DEF i
  <2> QED
      BY <1>0, <2>1, <2>2, <2>3, <2>4, OtherKnows
<1>4. CASE ~Saves(w) /\ ~Delete(w)
  <2>1. /\ worker'[v] = worker[v] /\ db' = db /\ disk' \in {disk, db}
        /\ undercut' = undercut
      BY <1>4, HandleIsCalm DEF Calm, StoreInv, WholeInv, TypeInv
  <2> QED
      BY <1>0, <2>1, OtherKnows DEF ThreadKnows, Exists
<1> QED
    BY <1>1, <1>2, <1>3, <1>4

\* No step of a handler leaves rows without their scenario, read or committed.
LEMMA HandleLeavesNoOrphans ==
    ASSUME StoreInv, NEW w \in Workers, Handle(w)
    PROVE  NoOrphans' /\ NoOrphansOnDisk'
<1> DEFINE i == worker[w].id
<1>0. "scenarios" \in Parts /\ NoOrphans /\ NoOrphansOnDisk /\ ThreadKnows(w)
    BY DEF StoreInv, Parts
<1>1. CASE FailScenarioMetadata(w)
  <2>1. /\ i \in Ids /\ Writing(w) /\ disk' = disk /\ undercut' = undercut
        /\ db'["scenarios"] = db["scenarios"]
        /\ \A p \in Parts, j \in Ids : j # i => db'[p][j] = db[p][j]
      BY <1>1, FailEffect
  <2>2. i \notin undercut' => db'["scenarios"][i] # Absent
      BY <1>0, <2>1 DEF ThreadKnows, Exists
  <2> QED
      BY <1>0, <2>1, <2>2 DEF NoOrphans, NoOrphansOnDisk, Exists
<1>2. CASE Saves(w) /\ ~FailScenarioMetadata(w)
  <2>1. /\ i \in Ids /\ disk' = db'
        /\ \A p \in Parts, j \in Ids : j # i => db'[p][j] = db[p][j]
        /\ i \notin undercut' => db'["scenarios"][i] # Absent
        /\ \A j \in Ids \ {i} : j \notin undercut' => j \notin undercut
      BY <1>2, SaveEffect
  <2>2. ASSUME NEW j \in Ids \ undercut', ~Exists(j)', NEW p \in Parts
        PROVE  db'[p][j] = Absent
      BY <1>0, <2>1, <2>2 DEF NoOrphans, Exists
  <2> QED
      BY <2>1, <2>2 DEF NoOrphans, NoOrphansOnDisk, Exists
<1>3. CASE Delete(w)
  <2>1. /\ i \in Ids /\ disk' = db' /\ undercut \subseteq undercut'
        /\ \A p \in Parts, j \in Ids : j # i => db'[p][j] = db[p][j]
        /\ \A p \in Parts : db'[p][i] = Absent
      BY <1>3, DeleteEffect
  <2>2. ASSUME NEW j \in Ids \ undercut', ~Exists(j)', NEW p \in Parts
        PROVE  db'[p][j] = Absent
      BY <1>0, <2>1, <2>2 DEF NoOrphans, Exists
  <2> QED
      BY <2>1, <2>2 DEF NoOrphans, NoOrphansOnDisk, Exists
<1>4. CASE ~Saves(w) /\ ~Delete(w)
  <2>1. db' = db /\ disk' \in {disk, db} /\ undercut' = undercut
      BY <1>4, HandleIsCalm DEF Calm, StoreInv, WholeInv, TypeInv
  <2> QED
      BY <1>0, <2>1 DEF NoOrphans, NoOrphansOnDisk, Exists
<1> QED
    BY <1>1, <1>2, <1>3, <1>4

\* A scenario that was settled and is not the one a step works on keeps its
\* assumptions.
LEMMA OthersStaySettled ==
    ASSUME StoreInv, NEW w \in Workers, NEW j \in Ids,
           ~(worker[w].pc = "save_metadata" /\ worker[w].id = j),
           \A v \in Workers \ {w} :
              worker'[v].pc = worker[v].pc /\ worker'[v].id = worker[v].id,
           j \in torn => j \in torn',
           \A p \in Parts : db'[p][j] = db[p][j],
           Exists(j)', ~Unsettled(j)'
    PROVE  db'["assumptions"][j] # Absent
<1>1. {"scenarios", "assumptions"} \subseteq Parts
    BY DEF Parts
<1>2. ~Unsettled(j)
    BY DEF Unsettled
<1>3. Exists(j)
    BY <1>1 DEF Exists
<1> QED
    BY <1>1, <1>2, <1>3 DEF StoreInv, SettledHaveAssumptions

LEMMA HandleKeepsAssumptions ==
    ASSUME StoreInv, NEW w \in Workers, Handle(w)
    PROVE  SettledHaveAssumptions'
<1> DEFINE i == worker[w].id
<1>0. /\ {"scenarios", "assumptions"} \subseteq Parts
      /\ worker \in [Workers -> WorkerRecords] /\ worker[w] \in WorkerRecords
      /\ TypeOK /\ i \in Ids
    BY DEF StoreInv, WholeInv, TypeInv, TypeOK, WorkerRecords, Parts
<1> SUFFICES ASSUME NEW j \in Ids, Exists(j)', ~Unsettled(j)'
             PROVE  db'["assumptions"][j] # Absent
    BY DEF SettledHaveAssumptions
<1>1. CASE FailScenarioMetadata(w)
  <2>1. /\ torn' = torn \cup {i}
        /\ \A p \in Parts, k \in Ids : k # i => db'[p][k] = db[p][k]
        /\ \A v \in Workers \ {w} : worker'[v] = worker[v]
      BY <1>1, FailEffect
  <2>2. j # i /\ (j \in torn => j \in torn')
      BY <2>1 DEF Unsettled
  <2> QED
      BY <2>1, <2>2, OthersStaySettled
<1>2. CASE SaveScenario(w)
  <2>1. worker'[w].pc = "save_metadata" /\ worker'[w].id = i /\ torn' = torn
      BY <1>0, <1>2 DEF SaveScenario, WorkerRecords
  <2>2. j # i
      BY <2>1 DEF Unsettled
  <2>3. Saves(w) /\ ~FailScenarioMetadata(w)
      BY <1>2 DEF Saves, SaveScenario, FailScenarioMetadata
  <2>4. \A p \in Parts : db'[p][j] = db[p][j]
      BY <2>2, <2>3, SaveEffect
  <2>5. \A v \in Workers \ {w} :
            worker'[v].pc = worker[v].pc /\ worker'[v].id = worker[v].id
      BY <2>3, SaveLeavesOthers
  <2> QED
      BY <2>1, <2>2, <2>4, <2>5, OthersStaySettled
<1>3. CASE Saves(w) /\ ~FailScenarioMetadata(w) /\ ~SaveScenario(w)
  <2>0. \A v \in Workers \ {w} :
            worker'[v].pc = worker[v].pc /\ worker'[v].id = worker[v].id
      BY <1>3, SaveLeavesOthers
  <2>1. CASE j # i
    <3>1. \A p \in Parts : db'[p][j] = db[p][j]
        BY <1>3, <2>1, SaveEffect
    <3>2. j \in torn => j \in torn'
        BY <1>3, <2>1
        DEF Saves, SaveScenarioMetadata, ReplaceScenarioResults,
            SaveRuleExecutions, SaveWhatIf
    <3> QED
        BY <2>0, <2>1, <3>1, <3>2, OthersStaySettled
  <2>2. CASE j = i /\ SaveScenarioMetadata(w)
    <3>1. Commit({"metadata", "assumptions"}, i, worker[w].tag)
        BY <2>2 DEF SaveScenarioMetadata
    <3>2. db'["assumptions"][i] = worker[w].tag
        BY <1>0, <3>1, CommitReplaces DEF Replaced
    <3>3. worker[w].tag # Absent
        BY <2>2
        DEF StoreInv, ThreadKnows, SaveScenarioMetadata, WritingSteps
    <3> QED
        BY <2>2, <3>2, <3>3
  <2>3. CASE j = i /\ SaveWhatIf(w)
    <3>1. worker[w].alone
        BY <2>3 DEF SaveWhatIf, Unsettled
    <3>2. /\ worker[w].pc = "save_whatif"
          /\ Commit({"whatif"}, i, worker[w].tag)
        BY <2>3 DEF SaveWhatIf
    <3>3. db["assumptions"][i] = worker[w].tag
        BY <3>1, <3>2
        DEF StoreInv, WholeInv, WrittenSoFar, Writing, WritingSteps, Written,
            Parts
    <3>6. Replaced({"whatif"}, i, worker[w].tag)
        BY <1>0, <3>2, CommitReplaces DEF WorkerRecords
    <3>4. db'["assumptions"][i] = db["assumptions"][i]
        BY <1>0, <3>6 DEF Replaced
    <3>5. worker[w].tag # Absent
        BY <3>2 DEF StoreInv, ThreadKnows, WritingSteps
    <3> QED
        BY <2>3, <3>3, <3>4, <3>5
  <2>4. CASE j = i /\ (ReplaceScenarioResults(w) \/ SaveRuleExecutions(w))
    <3>1. PICK t \in {"results", "rules"} : Commit({t}, i, worker[w].tag)
        BY <2>4 DEF ReplaceScenarioResults, SaveRuleExecutions
    <3>5. Replaced({t}, i, worker[w].tag)
        BY <1>0, <3>1, CommitReplaces DEF WorkerRecords
    <3>2. /\ db'["assumptions"][i] = db["assumptions"][i]
          /\ db'["scenarios"][i] = db["scenarios"][i]
        BY <1>0, <3>5 DEF Replaced
    <3>3. torn' = torn /\ worker[w].pc # "save_metadata"
        BY <2>4 DEF ReplaceScenarioResults, SaveRuleExecutions
    <3>4. ~Unsettled(i)
        BY <2>0, <2>4, <3>3 DEF Unsettled
    <3> QED
        BY <1>0, <2>4, <3>2, <3>4
        DEF StoreInv, SettledHaveAssumptions, Exists
  <2> QED
      BY <1>3, <2>1, <2>2, <2>3, <2>4 DEF Saves
<1>4. CASE Delete(w)
  <2>1. /\ \A p \in Parts, k \in Ids : k # i => db'[p][k] = db[p][k]
        /\ \A p \in Parts : db'[p][i] = Absent
        /\ worker[w].pc = "delete"
        /\ \A k \in Ids \ {i} : k \in torn <=> k \in torn'
        /\ \A v \in Workers \ {w} :
              worker'[v].pc = worker[v].pc /\ worker'[v].id = worker[v].id
      BY <1>4, DeleteEffect
  <2>2. j # i
      BY <1>0, <2>1 DEF Exists
  <2> QED
      BY <2>1, <2>2, OthersStaySettled
<1>5. CASE ~Saves(w) /\ ~Delete(w)
  <2>1. Calm(w)
      BY <1>0, <1>5, HandleIsCalm
  <2>2. /\ worker[w].pc # "save_metadata" /\ torn' = torn /\ db' = db
        /\ \A v \in Workers \ {w} : worker'[v] = worker[v]
      BY <2>1 DEF Calm, Writing, WritingSteps
  <2> QED
      BY <2>2, OthersStaySettled
<1> QED
    BY <1>1, <1>2, <1>3, <1>4, <1>5

LEMMA NextStore == StoreInv /\ [Next]_vars => StoreInv'
<1> SUFFICES ASSUME StoreInv, [Next]_vars PROVE StoreInv'
    OBVIOUS
<1>0. WholeInv' /\ TypeOK /\ WholeInv
    BY NextWhole DEF StoreInv, WholeInv, TypeInv
<1>1. ASSUME NEW w \in Workers, Request(w) PROVE StoreInv'
  <2>1. Calm(w)
      BY <1>0, <1>1, RequestIsCalm
  <2>2. /\ worker[w].pc # "save_metadata" /\ torn' = torn /\ db' = db
        /\ disk' \in {disk, db} /\ undercut' = undercut
        /\ \A v \in Workers \ {w} : worker'[v] = worker[v]
      BY <2>1 DEF Calm, Writing, WritingSteps
  <2>3. \A v \in Workers : ThreadKnows(v)'
      BY <1>1, RequestKnows
  <2>4. NoOrphans' /\ NoOrphansOnDisk'
      BY <2>2 DEF StoreInv, NoOrphans, NoOrphansOnDisk, Exists
  <2>5. SettledHaveAssumptions'
      BY <2>2, OthersStaySettled DEF SettledHaveAssumptions
  <2> QED
      BY <1>0, <2>3, <2>4, <2>5 DEF StoreInv
<1>2. ASSUME NEW w \in Workers, Handle(w) PROVE StoreInv'
    BY <1>0, <1>2, SelfKnows, OthersKnow, HandleLeavesNoOrphans,
       HandleKeepsAssumptions
    DEF StoreInv
<1>3. CASE Restart
  <2>1. /\ db' = disk /\ disk' = disk /\ undercut' = undercut
        /\ worker' = [w \in Workers |-> Idle]
        /\ torn' = torn \cup {worker[w].id : w \in {v \in Workers : Writing(v)}}
      BY <1>3 DEF Restart
  <2>2. \A w \in Workers : ThreadKnows(w)'
      BY <2>1
      DEF ThreadKnows, Idle, Storing, Computed, Writing, WritingSteps
  <2>3. NoOrphans' /\ NoOrphansOnDisk'
      BY <2>1 DEF StoreInv, NoOrphans, NoOrphansOnDisk, Exists
  <2>4. ASSUME NEW j \in Ids, Exists(j)', ~Unsettled(j)'
        PROVE  db'["assumptions"][j] # Absent
    <3>1. ~Unsettled(j) /\ j \notin torn
        BY <2>1, <2>4 DEF Unsettled, Writing, WritingSteps
    <3>2. \A p \in Parts : db[p][j] = disk[p][j]
        BY <1>0, <3>1 DEF WholeInv, LeftOpenIsConfined
    <3>3. {"scenarios", "assumptions"} \subseteq Parts
        BY DEF Parts
    <3> QED
        BY <2>1, <2>4, <3>1, <3>2, <3>3
        DEF StoreInv, SettledHaveAssumptions, Exists
  <2> QED
      BY <1>0, <2>2, <2>3, <2>4 DEF StoreInv, SettledHaveAssumptions
<1>4. CASE RestartWithRebuild
  <2>1. /\ db' = BaselineOnly /\ disk' = BaselineOnly
        /\ \A w \in Workers : worker[w].pc = "idle"
        /\ worker' = worker
      BY <1>4 DEF RestartWithRebuild
  <2>2. \A w \in Workers : ThreadKnows(w)'
      BY <2>1 DEF StoreInv, ThreadKnows, Computed, Writing, WritingSteps
  <2>3. NoOrphans' /\ NoOrphansOnDisk' /\ SettledHaveAssumptions'
      BY <2>1
      DEF NoOrphans, NoOrphansOnDisk, SettledHaveAssumptions, Exists,
          BaselineOnly, Parts, Built, Absent
  <2> QED
      BY <1>0, <2>2, <2>3 DEF StoreInv
<1>5. CASE UNCHANGED vars \/ \E d \in Drafts : TimePasses(d)
  <2>1. UNCHANGED <<db, disk, worker, torn, undercut>>
      BY <1>5 DEF vars, TimePasses
  <2> QED
      BY <1>0, <2>1
      DEF StoreInv, NoOrphans, NoOrphansOnDisk, SettledHaveAssumptions,
          ThreadKnows, Exists, Unsettled, Computed, Writing
<1> QED
    BY <1>1, <1>2, <1>3, <1>4, <1>5 DEF Next, Quiet

\* What the threads know of the stores, and what the stores hold, for any
\* number of threads and whatever they do meanwhile.
THEOREM StoreHolds == Spec => []StoreInv
BY InitStore, NextStore, PTL DEF Spec

\* Rows are left without their row in scenarios only where a deletion came in
\* between the saves of a request for the same scenario: not by overlapping
\* saves, a failed save or a crash at any step.
THEOREM NoOrphansStored == Spec => []NoOrphans
<1>1. StoreInv => NoOrphans
    BY DEF StoreInv
<1> QED
    BY <1>1, StoreHolds, PTL

\* No scenario or draft is computed from missing assumptions unless its base
\* was no settled scenario when it was read, or was deleted between the
\* look-up and the reading.
THEOREM ComputedFromStored == Spec => []DerivesFromStored
<1>1. StoreInv => DerivesFromStored
    BY DEF StoreInv, ThreadKnows, DerivesFromStored
<1> QED
    BY <1>1, StoreHolds, PTL
=============================================================================
