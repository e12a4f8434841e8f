--------------------------- MODULE ScenarioService ---------------------------
(***************************************************************************)
(* The requests that change scenarios and drafts, as the threads of the    *)
(* ThreadingHTTPServer run them: every store call is one step, because the *)
(* RLock of BusinessResultStore covers one call, never a whole handler.    *)
(*                                                                         *)
(* All threads share one SQLite connection.  db is what it reads, disk     *)
(* what is committed.  A call that fails leaves its statements open, no    *)
(* code rolls them back, and the next commit of any thread keeps them.     *)
(*                                                                         *)
(* A row is represented by the request that wrote it (a tag).              *)
(***************************************************************************)
EXTENDS Naturals, FiniteSets

CONSTANTS
    Workers,      \* threads of the server
    Drafts,       \* identifiers of chat action drafts
    Ops,          \* kinds of request the clients send
    Faults,       \* what may go wrong: "duplicate", "neo4j", "crash", "rebuild"
    MaxId,        \* bound: scenario numbers SCN-001, SCN-002, ...
    MaxRequests,  \* bound: requests
    MaxRestarts   \* bound: restarts of the service

ASSUME BoundsAssumption ==
    MaxId \in Nat /\ MaxRequests \in Nat /\ MaxRestarts \in Nat

VARIABLES
    db,         \* tables as the connection reads them
    disk,       \* tables as committed
    drafts,     \* chat_action_drafts
    worker,     \* the request each thread is handling
    requests,   \* requests so far
    restarts,   \* restarts so far
    torn,       \* observed: scenarios whose last save was disturbed
    undercut,   \* observed: scenarios deleted while a request was saving
                \* them, and not stored anew since
    edits,      \* observed: tags of the requests that stored BASELINE anew
    made        \* observed: scenarios each draft was turned into

observed == <<torn, undercut, edits, made>>

vars == <<db, disk, drafts, worker, requests, restarts, observed>>

-----------------------------------------------------------------------------
(* Data *)

BASELINE == 0
Ids == 0..MaxId

Absent == 0                    \* no row
Built == 1                     \* written by DemoState.initialize
Partial == 2                   \* a part of the rows a request wanted to write
Tags == Nat
NextTag == requests + 3        \* requests write their own tag, from 3 on

\* The tables of business_store.py; "results" are forecast_lines,
\* summary_lines and anomalies, "whatif" what_if_changes and attribution_lines.
Parts == {"scenarios", "metadata", "assumptions", "results", "rules", "whatif"}

Tables == [Parts -> [Ids -> Tags]]

BaselineOnly ==
    [p \in Parts |-> [i \in Ids |-> IF i = BASELINE THEN Built ELSE Absent]]

\* base is the scenario a draft builds on, late that it is past expires_at.
NoDraft == [status |-> "none", base |-> BASELINE, late |-> FALSE]

DraftRecords ==
    [status : {"none", "PENDING", "CONFIRMED", "CANCELLED", "EXPIRED"},
     base : Ids, late : BOOLEAN]

\* The store calls of SaveScenario's handler that follow the first one.
WritingSteps == {"save_metadata", "save_results", "save_rules", "save_whatif"}

Steps ==
    {"idle", "read_draft", "check", "inherit", "allocate", "save_scenario",
     "refresh", "detail", "mark", "delete", "save_draft", "expire", "cancel"}
      \cup WritingSteps

Idle ==
    [pc |-> "idle", op |-> "none", id |-> BASELINE, base |-> BASELINE,
     tag |-> Absent, draft |-> "none", inherits |-> Built, shaky |-> FALSE,
     alone |-> FALSE]

Kinds == {"create", "update", "update_baseline", "delete", "draft", "confirm",
          "cancel", "none"}

\* shaky and alone are observed: that the base was no settled scenario when
\* it was read, and that no other request works on the scenario being saved.
WorkerRecords ==
    [pc : Steps, op : Kinds, id : Ids, base : Ids, tag : Tags,
     draft : Drafts \cup {"none"}, inherits : Tags, shaky : BOOLEAN,
     alone : BOOLEAN]

Exists(i) == db["scenarios"][i] # Absent

\* One store call: it writes parts ps of scenario i and commits, with them,
\* whatever a failed call has left open.
Commit(ps, i, t) ==
    /\ db' = [p \in Parts |->
                 [db[p] EXCEPT ![i] = IF p \in ps THEN t ELSE @]]
    /\ disk' = db'

\* A call on another table commits what was left open as well.
CommitOnly == db' = db /\ disk' = db

Step(w, pc) == worker' = [worker EXCEPT ![w].pc = pc]

Answer(w) == worker' = [worker EXCEPT ![w] = Idle]

Writing(w) == worker[w].pc \in WritingSteps

\* Another request is in the middle of saving scenario i.
Contended(w, i) == \E v \in Workers \ {w} : Writing(v) /\ worker[v].id = i

-----------------------------------------------------------------------------
Init ==
    /\ db = BaselineOnly
    /\ disk = BaselineOnly
    /\ drafts = [d \in Drafts |-> NoDraft]
    /\ worker = [w \in Workers |-> Idle]
    /\ requests = 0
    /\ restarts = 0
    /\ torn = {}
    /\ undercut = {}
    /\ edits = {}
    /\ made = [d \in Drafts |-> 0]

-----------------------------------------------------------------------------
(* Requests arrive *)

\* The first step of a handler that works on scenario base: BASELINE needs
\* no reading, any other is looked up.
FirstStep(base) == IF base = BASELINE THEN "allocate" ELSE "check"

Begin(w, op, rec) ==
    /\ worker[w].pc = "idle"
    /\ op \in Ops
    /\ requests < MaxRequests
    /\ requests' = requests + 1
    /\ worker' = [worker EXCEPT ![w] = rec]
    /\ UNCHANGED <<db, disk, drafts, restarts, observed>>

\* POST /api/scenarios
RequestCreate(w) ==
    \E b \in Ids :
        Begin(w, "create",
              [Idle EXCEPT !.pc = FirstStep(b), !.op = "create", !.base = b,
                           !.tag = NextTag])

\* POST /api/scenarios/<id>/assumptions
RequestUpdate(w) ==
    \E i \in Ids \ {BASELINE} :
        Begin(w, "update",
              [Idle EXCEPT !.pc = "check", !.op = "update", !.id = i,
                           !.base = i, !.tag = NextTag])

\* POST /api/scenarios/BASELINE/assumptions with replace_existing
RequestUpdateBaseline(w) ==
    Begin(w, "update_baseline",
          [Idle EXCEPT !.pc = "check", !.op = "update_baseline",
                       !.tag = NextTag])

\* DELETE /api/scenarios/<id>
RequestDelete(w) ==
    \E i \in Ids :
        Begin(w, "delete",
              [Idle EXCEPT !.pc = "delete", !.op = "delete", !.id = i])

\* A knowledge-chat tool call, or a chosen recommendation, drafts a scenario.
RequestDraft(w) ==
    \E b \in Ids, d \in Drafts :
        /\ drafts[d].status = "none"
        /\ \A v \in Workers : worker[v].draft # d
        /\ Begin(w, "draft",
                 [Idle EXCEPT !.pc = "check", !.op = "draft", !.base = b,
                              !.draft = d])

\* Drafts a client has been told of.
Known == {d \in Drafts : drafts[d].status # "none"}

\* POST /api/knowledge-chat/actions/<draft>/confirm
RequestConfirm(w) ==
    \E d \in Known :
        Begin(w, "confirm",
              [Idle EXCEPT !.pc = "read_draft", !.op = "confirm", !.draft = d,
                           !.tag = NextTag])

\* POST /api/knowledge-chat/actions/<draft>/cancel
RequestCancel(w) ==
    \E d \in Known :
        Begin(w, "cancel",
              [Idle EXCEPT !.pc = "read_draft", !.op = "cancel", !.draft = d])

-----------------------------------------------------------------------------
(* Steps of the handlers *)

\* MUTANT: the scenario to build on is not looked up.
CheckNothing(w) ==
    /\ worker[w].pc = "check"
    /\ Step(w, "inherit")
    /\ UNCHANGED <<db, disk, drafts, requests, restarts, observed>>

\* The scenario to build on is looked up; without it the request is refused.
Check(w) ==
    /\ worker[w].pc = "check"
    /\ IF Exists(worker[w].base) THEN Step(w, "inherit") ELSE Answer(w)
    /\ UNCHANGED <<db, disk, drafts, requests, restarts, observed>>

\* The last save of scenario i was disturbed, or the scenario has its row but
\* does not have its assumptions yet.
Unsettled(i) ==
    \/ i \in torn
    \/ \E v \in Workers : worker[v].pc = "save_metadata" /\ worker[v].id = i

\* In a second call its assumptions are read, to be computed with the new ones.
Inherit(w) ==
    /\ worker[w].pc = "inherit"
    /\ worker' = [worker EXCEPT
          ![w].inherits = db["assumptions"][worker[w].base],
          ![w].shaky = @ \/ Unsettled(worker[w].base),
          ![w].pc = CASE worker[w].op \in {"create", "confirm"} -> "allocate"
                      [] worker[w].op = "draft" -> "save_draft"
                      [] OTHER -> "save_scenario"]
    /\ UNCHANGED <<db, disk, drafts, requests, restarts, observed>>

\* The identifier is the number of What-if scenarios plus one.
Allocate(w) ==
    LET number == Cardinality({i \in Ids \ {BASELINE} : Exists(i)}) + 1 IN
    /\ worker[w].pc = "allocate"
    /\ number <= MaxId
    /\ worker' = [worker EXCEPT ![w].id = number, ![w].pc = "save_scenario"]
    /\ UNCHANGED <<db, disk, drafts, requests, restarts, observed>>

\* An assumption cannot be applied, or the graph does not confirm the draft's
\* anchors: nothing has been stored yet.
Refuse(w) ==
    /\ worker[w].pc \in {"save_scenario", "save_draft"}
    /\ Answer(w)
    /\ UNCHANGED <<db, disk, drafts, requests, restarts, observed>>

\* The forecast is computed in memory and the scenario's row stored.
SaveScenario(w) ==
    LET i == worker[w].id IN
    /\ worker[w].pc = "save_scenario"
    /\ Commit({"scenarios"}, i, worker[w].tag)
    /\ worker' = [v \in Workers |->
          IF v = w
          THEN [worker[w] EXCEPT !.pc = "save_metadata",
                                 !.alone = ~Contended(w, i)]
          ELSE [worker[v] EXCEPT !.alone = @ /\ worker[v].id # i]]
    /\ made' = [d \in Drafts |->
          IF worker[w].op = "confirm" /\ worker[w].draft = d
          THEN made[d] + 1
          ELSE made[d]]
    /\ undercut' = undercut \ {i}
    /\ edits' = IF worker[w].op = "update_baseline"
                THEN edits \cup {worker[w].tag}
                ELSE edits
    /\ UNCHANGED <<drafts, requests, restarts, torn>>

SaveScenarioMetadata(w) ==
    /\ worker[w].pc = "save_metadata"
    /\ Commit({"metadata", "assumptions"}, worker[w].id, worker[w].tag)
    /\ Step(w, "save_results")
    /\ UNCHANGED <<drafts, requests, restarts, observed>>

\* Two assumptions carry the same assumption_id: the second insert fails after
\* the other statements, which stay open on the connection.
FailScenarioMetadata(w) ==
    LET i == worker[w].id IN
    /\ "duplicate" \in Faults
    /\ worker[w].pc = "save_metadata"
    /\ db' = [db EXCEPT !["metadata"][i] = worker[w].tag,
                        !["assumptions"][i] = Partial]
    /\ torn' = torn \cup {i}
    /\ Answer(w)
    /\ UNCHANGED <<disk, drafts, requests, restarts, undercut, edits, made>>

ReplaceScenarioResults(w) ==
    /\ worker[w].pc = "save_results"
    /\ Commit({"results"}, worker[w].id, worker[w].tag)
    /\ Step(w, "save_rules")
    /\ UNCHANGED <<drafts, requests, restarts, observed>>

SaveRuleExecutions(w) ==
    /\ worker[w].pc = "save_rules"
    /\ Commit({"rules"}, worker[w].id, worker[w].tag)
    /\ Step(w, "save_whatif")
    /\ UNCHANGED <<drafts, requests, restarts, observed>>

\* MUTANT: the last save does not commit.
SaveWhatIfUncommitted(w) ==
    LET i == worker[w].id IN
    /\ worker[w].pc = "save_whatif"
    /\ db' = [db EXCEPT !["whatif"][i] = worker[w].tag]
    /\ worker' = [worker EXCEPT ![w].pc = "refresh", ![w].alone = FALSE]
    /\ torn' = IF worker[w].alone THEN torn \ {i} ELSE torn \cup {i}
    /\ UNCHANGED <<disk, drafts, requests, restarts, undercut, edits, made>>

\* The last of the saves.
SaveWhatIf(w) ==
    LET i == worker[w].id IN
    /\ worker[w].pc = "save_whatif"
    /\ Commit({"whatif"}, i, worker[w].tag)
    /\ worker' = [worker EXCEPT ![w].pc = "refresh", ![w].alone = FALSE]
    /\ torn' = IF worker[w].alone THEN torn \ {i} ELSE torn \cup {i}
    /\ UNCHANGED <<drafts, requests, restarts, undercut, edits, made>>

\* Tables ps lose scenario i, which the delete may touch if allowed.
DeleteFrom(w, ps, allowed) ==
    LET i == worker[w].id IN
    /\ worker[w].pc = "delete"
    /\ allowed
    /\ Exists(i)
    /\ Commit(ps, i, Absent)
    /\ worker' = [v \in Workers |->
          IF v = w THEN [worker[w] EXCEPT !.pc = "refresh"]
          ELSE [worker[v] EXCEPT
                   !.alone = @ /\ worker[v].id # i,
                   !.shaky = @ \/ (worker[v].pc = "inherit"
                                     /\ worker[v].base = i)]]
    /\ torn' = IF Contended(w, i) THEN torn ELSE torn \ {i}
    /\ undercut' = IF Contended(w, i) THEN undercut \cup {i} ELSE undercut
    /\ UNCHANGED <<drafts, requests, restarts, edits, made>>

\* MUTANT: BASELINE is not exempt.
DeleteAnything(w) == DeleteFrom(w, Parts, TRUE)

\* MUTANT: rule_executions is missing from the list of tables.
DeleteButRules(w) ==
    DeleteFrom(w, Parts \ {"rules"}, worker[w].id # BASELINE)

\* MUTANT: the statements are not committed.
DeleteUncommitted(w) ==
    LET i == worker[w].id IN
    /\ worker[w].pc = "delete"
    /\ i # BASELINE
    /\ Exists(i)
    /\ db' = [p \in Parts |-> [db[p] EXCEPT ![i] = Absent]]
    /\ Step(w, "refresh")
    /\ torn' = IF Contended(w, i) THEN torn ELSE torn \ {i}
    /\ UNCHANGED <<disk, drafts, requests, restarts, undercut, edits, made>>

\* All tables lose the scenario in one commit.
Delete(w) == DeleteFrom(w, Parts, worker[w].id # BASELINE)

\* BASELINE cannot be deleted, nor what is not there.
RefuseDelete(w) ==
    /\ worker[w].pc = "delete"
    /\ worker[w].id = BASELINE \/ ~Exists(worker[w].id)
    /\ Answer(w)
    /\ UNCHANGED <<db, disk, drafts, requests, restarts, observed>>

\* The graph is rebuilt, for which clear_ontology_data empties some unused
\* tables and commits.  A delete is then answered; a create reads back what it
\* has stored.
Refresh(w) ==
    /\ worker[w].pc = "refresh"
    /\ CommitOnly
    /\ IF worker[w].op = "delete" THEN Answer(w) ELSE Step(w, "detail")
    /\ UNCHANGED <<drafts, requests, restarts, observed>>

\* Neo4j cannot be reached: the request ends with an error, its saves stay.
FailRefresh(w) ==
    /\ "neo4j" \in Faults
    /\ worker[w].pc = "refresh"
    /\ CommitOnly
    /\ Answer(w)
    /\ UNCHANGED <<drafts, requests, restarts, observed>>

\* scenario_detail fails when the scenario is gone; a confirmation goes on to
\* mark its draft.
Detail(w) ==
    /\ worker[w].pc = "detail"
    /\ IF worker[w].op = "confirm" /\ Exists(worker[w].id)
       THEN Step(w, "mark")
       ELSE Answer(w)
    /\ UNCHANGED <<db, disk, drafts, requests, restarts, observed>>

-----------------------------------------------------------------------------
(* Drafts *)

\* Confirming and cancelling start with reading the draft, and look at what
\* they have read only.
ReadDraft(w) ==
    LET d == drafts[worker[w].draft] IN
    /\ worker[w].pc = "read_draft"
    /\ CASE d.status # "PENDING" -> Answer(w)
         [] d.status = "PENDING" /\ worker[w].op = "cancel" -> Step(w, "cancel")
         [] d.status = "PENDING" /\ worker[w].op # "cancel" /\ d.late ->
              Step(w, "expire")
         [] OTHER ->
              worker' = [worker EXCEPT ![w].base = d.base,
                                       ![w].pc = FirstStep(d.base)]
    /\ UNCHANGED <<db, disk, drafts, requests, restarts, observed>>

\* update_chat_action_draft sets the status whatever it is by now.
UpdateDraft(w, status) ==
    /\ drafts' = [drafts EXCEPT ![worker[w].draft].status = status]
    /\ CommitOnly
    /\ Answer(w)
    /\ UNCHANGED <<requests, restarts, observed>>

\* MUTANT: the status is none the store knows.
MarkDone(w) == worker[w].pc = "mark" /\ UpdateDraft(w, "DONE")

Mark(w) == worker[w].pc = "mark" /\ UpdateDraft(w, "CONFIRMED")

\* Before that a confirmation asks the graph for a receipt; without Neo4j it
\* ends there, with the scenario stored.
FailReceipt(w) ==
    /\ "neo4j" \in Faults
    /\ worker[w].pc = "mark"
    /\ Answer(w)
    /\ UNCHANGED <<db, disk, drafts, requests, restarts, observed>>

Expire(w) == worker[w].pc = "expire" /\ UpdateDraft(w, "EXPIRED")

Cancel(w) == worker[w].pc = "cancel" /\ UpdateDraft(w, "CANCELLED")

SaveDraft(w) ==
    /\ worker[w].pc = "save_draft"
    /\ drafts' = [drafts EXCEPT ![worker[w].draft] =
                     [NoDraft EXCEPT !.status = "PENDING",
                                     !.base = worker[w].base]]
    /\ CommitOnly
    /\ Answer(w)
    /\ UNCHANGED <<requests, restarts, observed>>

\* Thirty minutes go by.
TimePasses(d) ==
    /\ drafts[d].status = "PENDING"
    /\ ~drafts[d].late
    /\ drafts' = [drafts EXCEPT ![d].late = TRUE]
    /\ UNCHANGED <<db, disk, worker, requests, restarts, observed>>

-----------------------------------------------------------------------------
(* The process *)

\* The service is stopped, between requests or in the middle of some, and
\* started again: SQLite drops what was not committed, the baseline is reopened.
Restart ==
    /\ restarts < MaxRestarts
    /\ "crash" \in Faults \/ \A w \in Workers : worker[w].pc = "idle"
    /\ db' = disk
    /\ torn' = torn \cup {worker[w].id : w \in {v \in Workers : Writing(v)}}
    /\ worker' = [w \in Workers |-> Idle]
    /\ restarts' = restarts + 1
    /\ UNCHANGED <<disk, drafts, requests, undercut, edits, made>>

\* The same with new workbooks or rules: reset_business_data empties every
\* table but chat_action_drafts and the baseline is built again.
RestartWithRebuild ==
    /\ restarts < MaxRestarts
    /\ "rebuild" \in Faults
    /\ \A w \in Workers : worker[w].pc = "idle"
    /\ db' = BaselineOnly
    /\ disk' = BaselineOnly
    /\ torn' = {}
    /\ undercut' = {}
    /\ edits' = {}
    /\ restarts' = restarts + 1
    /\ UNCHANGED <<drafts, worker, requests, made>>

\* No client asks for anything more.
Quiet ==
    /\ requests = MaxRequests
    /\ \A w \in Workers : worker[w].pc = "idle"
    /\ UNCHANGED vars

-----------------------------------------------------------------------------
Request(w) ==
    \/ RequestCreate(w)
    \/ RequestUpdate(w)
    \/ RequestUpdateBaseline(w)
    \/ RequestDelete(w)
    \/ RequestDraft(w)
    \/ RequestConfirm(w)
    \/ RequestCancel(w)

Handle(w) ==
    \/ Check(w)
    \/ Inherit(w)
    \/ Allocate(w)
    \/ Refuse(w)
    \/ SaveScenario(w)
    \/ SaveScenarioMetadata(w)
    \/ FailScenarioMetadata(w)
    \/ ReplaceScenarioResults(w)
    \/ SaveRuleExecutions(w)
    \/ SaveWhatIf(w)
    \/ Delete(w)
    \/ RefuseDelete(w)
    \/ Refresh(w)
    \/ FailRefresh(w)
    \/ Detail(w)
    \/ ReadDraft(w)
    \/ FailReceipt(w)
    \/ Mark(w)
    \/ Expire(w)
    \/ Cancel(w)
    \/ SaveDraft(w)

Next ==
    \/ \E w \in Workers : Request(w) \/ Handle(w)
    \/ \E d \in Drafts : TimePasses(d)
    \/ Restart
    \/ RestartWithRebuild
    \/ Quiet

Spec == Init /\ [][Next]_vars

-----------------------------------------------------------------------------
(* Properties *)

\* Every variable keeps its shape (the tables of business_store.py and the
\* locals of the handlers in demo_server.py).
TypeOK ==
    /\ db \in Tables
    /\ disk \in Tables
    /\ drafts \in [Drafts -> DraftRecords]
    /\ worker \in [Workers -> WorkerRecords]
    /\ requests \in Nat
    /\ restarts \in Nat
    /\ torn \in SUBSET Ids
    /\ undercut \in SUBSET Ids
    /\ edits \in SUBSET Tags
    /\ made \in [Drafts -> Nat]

\* Every row of BASELINE, read or committed, is the one initialize stored or
\* one of a request that was sent to edit BASELINE itself (a part of its
\* assumptions when that request failed among them), and none is ever missing:
\* no other request reaches one in any interleaving, after any deletion, reuse
\* of an identifier, failed save or restart (delete_scenario refuses BASELINE,
\* count-plus-one starts at SCN-001, the edit's route names it).
BaselineRows(p) ==
    {Built} \cup edits
        \cup (IF p = "assumptions" /\ BASELINE \in torn THEN {Partial} ELSE {})

BaselineIntact ==
    \A p \in Parts : {db[p][BASELINE], disk[p][BASELINE]} \subseteq BaselineRows(p)

\* A scenario whose last save was neither overlapped by another save or delete
\* of the same scenario nor cut short is whole, in what is read and in what is
\* committed: every table holds the rows of one and the same request, or none
\* does; whatever other requests, failed calls and crashes did meanwhile.
Saving(i) == \E w \in Workers : Writing(w) /\ worker[w].id = i

StoredWhole ==
    \A i \in Ids \ torn :
        ~Saving(i) => \A p \in Parts :
                          /\ db[p][i] = db["scenarios"][i]
                          /\ disk[p][i] = db["scenarios"][i]

\* What a failed call leaves open on the shared connection belongs to the
\* scenario of the failed call, so that the next commit, of any thread, can
\* only damage that one (save_scenario_metadata without a rollback).
LeftOpenIsConfined ==
    \A i \in Ids \ torn : \A p \in Parts : db[p][i] = disk[p][i]

\* Rows are left without their row in scenarios, which every list and look-up
\* starts from, only where a deletion came in between the saves of a request
\* for the same scenario; neither saves that overlap, nor a save that fails,
\* nor a crash at any step leaves such rows, and storing the scenario anew or
\* deleting it again ends them (delete_scenario names every table, the row in
\* scenarios is stored first).
NoOrphans ==
    \A i \in Ids \ undercut :
        ~Exists(i) => \A p \in Parts : db[p][i] = Absent

\* A new scenario never replaces a stored one: scenarios are durable records
\* (demo_server.py:195-197), identifiers a count plus one.
Creating(w) ==
    worker[w].op \in {"create", "confirm"} /\ worker[w].pc = "save_scenario"

CreateIsFresh ==
    [][\A w \in Workers :
          Creating(w) /\ worker'[w].pc = "save_metadata"
              => ~Exists(worker[w].id)]_vars

\* A draft becomes at most one scenario (demo_server.py:1518: a confirmed
\* draft "cannot be executed again").
ConfirmOnce == \A d \in Drafts : made[d] <= 1

\* demo_server.py:1542: "the draft is cancelled, no scenario was created" (the
\* status is read at the start of a request and written at its end).
CancelledMadeNothing ==
    \A d \in Drafts : drafts[d].status = "CANCELLED" => made[d] = 0

\* A scenario or a draft that builds on another one is computed from stored
\* assumptions.  It is computed from none only if the base's last save was
\* disturbed, if the base was being stored for the first time and had its row
\* but not yet its assumptions, or if it was deleted between the handler's two
\* calls; overlapping updates of the base, and its deletion before or after
\* those calls, never cause it (scenario() and scenario_assumptions() are two
\* calls, save_scenario and save_scenario_metadata two commits).
Computed(w) == worker[w].pc \in {"allocate", "save_scenario", "save_draft"}

DerivesFromStored ==
    \A w \in Workers :
        Computed(w) /\ ~worker[w].shaky => worker[w].inherits # Absent
=============================================================================
