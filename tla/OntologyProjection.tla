-------------------------- MODULE OntologyProjection --------------------------
(***************************************************************************)
(* DemoState._refresh_ontology_model: the Neo4j graph is a copy of the     *)
(* SQLite results, thrown away and created again after every change of a   *)
(* scenario and at every start.  A refresh reads SQLite in many calls and  *)
(* writes Neo4j in many auto-commit statements; nothing keeps two threads  *)
(* from refreshing at once, a statement may fail, the process may stop     *)
(* between any two, and the questions of the knowledge chat are answered   *)
(* from the graph meanwhile.                                               *)
(*                                                                         *)
(* The results of a scenario are one version number; fixed assets, rules   *)
(* and the other objects that never change go with BASELINE.               *)
(***************************************************************************)
EXTENDS Naturals, FiniteSets, Sequences

CONSTANTS
    Workers,     \* threads that change scenarios
    Readers,     \* threads that answer questions
    MaxId,       \* bound: scenarios next to BASELINE
    MaxChanges,  \* bound: scenarios saved or deleted
    MaxFaults    \* bound: failing statements and stops of the process

ASSUME BoundsAssumption ==
    MaxId \in Nat /\ MaxChanges \in Nat /\ MaxFaults \in Nat

ASSUME WorkersAssumption == IsFiniteSet(Workers) /\ Workers # {}

VARIABLES
    store,    \* SQLite: the version of each scenario's results, 0 if none
    graph,    \* Neo4j
    worker,   \* the refresh each thread is in
    serving,  \* TRUE once the refresh of start-up is done
    reader,   \* the question each reader is answering
    changes,  \* changes so far
    faults,   \* faults so far
    settled   \* observed: the last refresh met no other thread and no change

vars ==
    <<store, graph, worker, serving, reader, changes, faults, settled>>

-----------------------------------------------------------------------------
(* Data *)

BASELINE == 0
Ids == 0..MaxId

\* The record nodes of sync_business_results, in its order.
RecordKinds ==
    <<"ForecastRecord", "ForecastSummary", "RuleExecution", "ScenarioChange",
      "AttributionRecord">>

KindNumbers == DOMAIN RecordKinds
Last == Len(RecordKinds)

\* Their unique property is built from the row number of SQLite, which no two
\* versions share; that of the others from scenario, asset and period.
KeyedByRow(k) == RecordKinds[k] \in {"RuleExecution", "AttributionRecord"}

\* Objects: a pair <<i, v>> stands for the nodes of scenario i with its
\* assumptions, forecast summaries and anomalies in version v, or, v being 0,
\* for the scenario's node alone.
ObjectSets == SUBSET (Ids \X Nat)

IdsOf(objects) == {o[1] : o \in objects}

\* linked: the records have relations to the scenario and its assets.
Records == [kind : KindNumbers, id : Ids, version : Nat, linked : BOOLEAN]

\* schema counts OntologySchema nodes, links how often the relations among a
\* scenario's objects were created.
Graphs ==
    [schema : Nat, nodes : ObjectSets, links : [Ids -> Nat],
     records : SUBSET Records]

EmptyGraph ==
    [schema |-> 0, nodes |-> {}, links |-> [i \in Ids |-> 0], records |-> {}]

\* What the graph should be for store s.
Stored(s) == {i \in Ids : s[i] # 0}

Projection(s) ==
    [schema  |-> 1,
     nodes   |-> {<<i, s[i]>> : i \in Stored(s)},
     links   |-> [i \in Ids |-> IF i \in Stored(s) THEN 1 ELSE 0],
     records |-> {[kind |-> k, id |-> i, version |-> s[i], linked |-> TRUE] :
                     k \in KindNumbers, i \in Stored(s)}]

NoRows == [k \in KindNumbers |-> [i \in Ids |-> 0]]

Idle ==
    [pc |-> "idle", todo |-> {}, objects |-> {}, rows |-> NoRows, kind |-> 1,
     alone |-> FALSE]

WorkerRecords ==
    [pc : {"idle", "list", "detail", "clear_schema", "create_schema",
           "clear_nodes", "create_nodes", "create_links", "read_rows",
           "clear_records", "create_records"},
     todo : SUBSET Ids, objects : ObjectSets,
     rows : [KindNumbers -> [Ids -> Nat]], kind : KindNumbers,
     alone : BOOLEAN]

NoQuestion ==
    [pc |-> "idle", id |-> BASELINE, found |-> FALSE, status |-> "none",
     calm |-> FALSE, absent |-> FALSE]

ReaderRecords ==
    [pc : {"idle", "confirm"}, id : Ids, found : BOOLEAN,
     status : {"none", "verified", "missing_after_query", "unverified"},
     calm : BOOLEAN, absent : BOOLEAN]

Refreshing(w) == worker[w].pc # "idle"

\* The step to the next kind of record, or after the last one to pc.
NextKind(w, pc) ==
    IF worker[w].kind = Last
    THEN worker' = [worker EXCEPT ![w].pc = pc, ![w].kind = 1]
    ELSE worker' = [worker EXCEPT ![w].kind = @ + 1]

Step(w, pc) == worker' = [worker EXCEPT ![w].pc = pc]

-----------------------------------------------------------------------------
\* A new installation: the baseline is stored, the graph was never written.
Init ==
    /\ store = [i \in Ids |-> IF i = BASELINE THEN 1 ELSE 0]
    /\ graph = EmptyGraph
    /\ worker = [w \in Workers |-> Idle]
    /\ serving = FALSE
    /\ reader = [r \in Readers |-> NoQuestion]
    /\ changes = 0
    /\ faults = 0
    /\ settled = FALSE

-----------------------------------------------------------------------------
(* What makes a refresh necessary *)

\* A refresh starts: it is alone if no other one is in progress, and no other
\* one is alone any more.
BeginRefresh(w) ==
    worker' = [v \in Workers |->
        IF v = w
        THEN [Idle EXCEPT
                 !.pc = "list",
                 !.alone = \A u \in Workers \ {w} : ~Refreshing(u)]
        ELSE [worker[v] EXCEPT !.alone = FALSE]]

\* The last step of initialize(), on a new or a reopened baseline.
StartUp(w) ==
    /\ ~serving
    /\ \A v \in Workers : ~Refreshing(v)
    /\ BeginRefresh(w)
    /\ settled' = FALSE
    /\ UNCHANGED <<store, graph, serving, reader, changes, faults>>

\* A question asked meanwhile may find scenario i absent.
ReadersSee(s) ==
    reader' = [r \in Readers |->
        [reader[r] EXCEPT !.calm = FALSE,
                          !.absent = @ \/ s[reader[r].id] = 0]]

\* A scenario is created or computed again, and stored.
Save(w, i) ==
    /\ serving
    /\ ~Refreshing(w)
    /\ changes < MaxChanges
    /\ i # BASELINE
    /\ store' = [store EXCEPT ![i] = changes + 2]
    /\ changes' = changes + 1
    /\ BeginRefresh(w)
    /\ ReadersSee(store')
    /\ settled' = FALSE
    /\ UNCHANGED <<graph, serving, faults>>

Delete(w, i) ==
    /\ serving
    /\ ~Refreshing(w)
    /\ changes < MaxChanges
    /\ i # BASELINE
    /\ store[i] # 0
    /\ store' = [store EXCEPT ![i] = 0]
    /\ changes' = changes + 1
    /\ BeginRefresh(w)
    /\ ReadersSee(store')
    /\ settled' = FALSE
    /\ UNCHANGED <<graph, serving, faults>>

-----------------------------------------------------------------------------
(* Reading SQLite *)

\* The list of scenarios is read first ...
ListScenarios(w) ==
    /\ worker[w].pc = "list"
    /\ worker' = [worker EXCEPT ![w].pc = "detail",
                                ![w].todo = Stored(store)]
    /\ UNCHANGED <<store, graph, serving, reader, changes, faults, settled>>

\* ... then, scenario by scenario, what it consists of; one that is deleted by
\* now is left with a node of its own only.
ReadDetail(w) ==
    /\ worker[w].pc = "detail"
    /\ \E i \in worker[w].todo :
          worker' = [worker EXCEPT
              ![w].objects = @ \cup {<<i, store[i]>>},
              ![w].todo = @ \ {i},
              ![w].pc = IF worker[w].todo = {i} THEN "clear_schema" ELSE @]
    /\ UNCHANGED <<store, graph, serving, reader, changes, faults, settled>>

\* MUTANT: the position is not set back after the last table.
ReadRowsPastLast(w) ==
    /\ worker[w].pc = "read_rows"
    /\ worker' = [worker EXCEPT
          ![w].rows[worker[w].kind] = store,
          ![w].kind = @ + 1,
          ![w].pc = IF worker[w].kind = Last THEN "clear_records" ELSE @]
    /\ UNCHANGED <<store, graph, serving, reader, changes, faults, settled>>

\* The rows of the records, which are the arguments of sync_business_results,
\* are read only when the objects are in the graph, table by table.
ReadRows(w) ==
    /\ worker[w].pc = "read_rows"
    /\ worker' = [worker EXCEPT
          ![w].rows[worker[w].kind] = store,
          ![w].kind = IF @ = Last THEN 1 ELSE @ + 1,
          ![w].pc = IF worker[w].kind = Last THEN "clear_records" ELSE @]
    /\ UNCHANGED <<store, graph, serving, reader, changes, faults, settled>>

-----------------------------------------------------------------------------
(* Writing Neo4j *)

\* MUTANT: the schema of an earlier refresh is not deleted.
KeepSchema(w) ==
    /\ worker[w].pc = "clear_schema"
    /\ Step(w, "create_schema")
    /\ UNCHANGED <<store, graph, serving, reader, changes, faults, settled>>

ClearSchema(w) ==
    /\ worker[w].pc = "clear_schema"
    /\ graph' = [graph EXCEPT !.schema = 0]
    /\ Step(w, "create_schema")
    /\ UNCHANGED <<store, serving, reader, changes, faults, settled>>

CreateSchema(w) ==
    /\ worker[w].pc = "create_schema"
    /\ graph' = [graph EXCEPT !.schema = @ + 1]
    /\ Step(w, "clear_nodes")
    /\ UNCHANGED <<store, serving, reader, changes, faults, settled>>

\* MUTANT: only objects without relations are deleted.
ClearUnlinkedNodes(w) ==
    /\ worker[w].pc = "clear_nodes"
    /\ graph' = [graph EXCEPT !.nodes = {o \in @ : graph.links[o[1]] > 0}]
    /\ Step(w, "create_nodes")
    /\ UNCHANGED <<store, serving, reader, changes, faults, settled>>

\* The objects go with all their relations, those to records included.
ClearNodes(w) ==
    /\ worker[w].pc = "clear_nodes"
    /\ graph' = [graph EXCEPT
          !.nodes = {},
          !.links = [i \in Ids |-> 0],
          !.records = {[r EXCEPT !.linked = FALSE] : r \in @}]
    /\ Step(w, "create_nodes")
    /\ UNCHANGED <<store, serving, reader, changes, faults, settled>>

\* A statement fails and the request with it; what was written stays.
Abort(w) ==
    /\ worker' = [worker EXCEPT ![w] = Idle]
    /\ UNCHANGED graph

\* Objects are created in one statement, which the constraint on object_id
\* refuses as a whole.
CreateNodes(w) ==
    /\ worker[w].pc = "create_nodes"
    /\ IF IdsOf(graph.nodes) \cap IdsOf(worker[w].objects) # {}
       THEN Abort(w)
       ELSE /\ graph' = [graph EXCEPT !.nodes = @ \cup worker[w].objects]
            /\ Step(w, "create_links")
    /\ UNCHANGED <<store, serving, reader, changes, faults, settled>>

\* Relations are created between the objects that are found.
CreateLinks(w) ==
    LET found == IdsOf(graph.nodes) \cap IdsOf(worker[w].objects) IN
    /\ worker[w].pc = "create_links"
    /\ graph' = [graph EXCEPT
          !.links = [i \in Ids |-> IF i \in found THEN @[i] + 1 ELSE @[i]]]
    /\ Step(w, "read_rows")
    /\ UNCHANGED <<store, serving, reader, changes, faults, settled>>

ClearRecords(w) ==
    /\ worker[w].pc = "clear_records"
    /\ graph' = [graph EXCEPT
          !.records = {r \in @ : r.kind # worker[w].kind}]
    /\ NextKind(w, "create_records")
    /\ UNCHANGED <<store, serving, reader, changes, faults, settled>>

\* The records a refresh has read, related to the scenarios it finds.
NewRecords(w) ==
    LET k == worker[w].kind
        rows == worker[w].rows[k]
    IN  {[kind |-> k, id |-> i, version |-> rows[i],
          linked |-> i \in IdsOf(graph.nodes)] : i \in Stored(rows)}

\* Two records the unique constraint of their kind does not allow together.
Clash(r, s) ==
    /\ r.kind = s.kind
    /\ r.id = s.id
    /\ KeyedByRow(r.kind) => r.version = s.version

\* Records of one kind are created in one statement; after the last kind the
\* refresh is done.
CreateRecords(w) ==
    /\ worker[w].pc = "create_records"
    /\ IF \E r \in graph.records, s \in NewRecords(w) : Clash(r, s)
       THEN /\ Abort(w)
            /\ UNCHANGED <<serving, settled>>
       ELSE /\ graph' = [graph EXCEPT !.records = @ \cup NewRecords(w)]
            /\ IF worker[w].kind = Last
               THEN /\ worker' = [worker EXCEPT ![w] = Idle]
                    /\ serving' = TRUE
                    /\ settled' = worker[w].alone
               ELSE /\ worker' = [worker EXCEPT ![w].kind = @ + 1]
                    /\ UNCHANGED <<serving, settled>>
    /\ UNCHANGED <<store, reader, changes, faults>>

\* Neo4j cannot be reached.
FailStatement(w) ==
    /\ Refreshing(w)
    /\ worker[w].pc \notin {"list", "detail", "read_rows"}
    /\ faults < MaxFaults
    /\ Abort(w)
    /\ faults' = faults + 1
    /\ UNCHANGED <<store, serving, reader, changes, settled>>

\* The process stops; SQLite and Neo4j keep what they hold.
Stop ==
    /\ faults < MaxFaults
    /\ serving \/ \E w \in Workers : Refreshing(w)
    /\ worker' = [w \in Workers |-> Idle]
    /\ reader' = [r \in Readers |-> NoQuestion]
    /\ serving' = FALSE
    /\ faults' = faults + 1
    /\ UNCHANGED <<store, graph, changes, settled>>

-----------------------------------------------------------------------------
(* Questions *)

\* A tool of the knowledge chat looks up the forecast of scenario i.
Query(r, i) ==
    /\ serving
    /\ reader[r].pc = "idle"
    /\ reader' = [reader EXCEPT ![r] =
          [pc |-> "confirm", id |-> i,
           found |-> \E x \in graph.records : x.kind = 1 /\ x.id = i,
           status |-> "none", calm |-> settled, absent |-> store[i] = 0]]
    /\ UNCHANGED <<store, graph, worker, serving, changes, faults, settled>>

\* MUTANT: the receipt looks at the anchor only.
ConfirmByAnchor(r) ==
    /\ reader[r].pc = "confirm"
    /\ reader' = [reader EXCEPT
          ![r].pc = "idle",
          ![r].status = IF reader[r].id \in IdsOf(graph.nodes)
                        THEN "verified" ELSE "unverified"]
    /\ UNCHANGED <<store, graph, worker, serving, changes, faults, settled>>

\* The gateway looks for the scenario's node and issues the receipt.
Confirm(r) ==
    /\ reader[r].pc = "confirm"
    /\ reader' = [reader EXCEPT
          ![r].pc = "idle",
          ![r].status =
              CASE ~reader[r].found -> "missing_after_query"
                [] reader[r].found /\ reader[r].id \in IdsOf(graph.nodes) ->
                     "verified"
                [] OTHER -> "unverified"]
    /\ UNCHANGED <<store, graph, worker, serving, changes, faults, settled>>

-----------------------------------------------------------------------------
Refresh(w) ==
    \/ ListScenarios(w)
    \/ ReadDetail(w)
    \/ ClearSchema(w)
    \/ CreateSchema(w)
    \/ ClearNodes(w)
    \/ CreateNodes(w)
    \/ CreateLinks(w)
    \/ ReadRows(w)
    \/ ClearRecords(w)
    \/ CreateRecords(w)

\* No client asks for a change any more.
Quiet ==
    /\ serving
    /\ changes = MaxChanges
    /\ \A w \in Workers : ~Refreshing(w)
    /\ UNCHANGED vars

Next ==
    \/ \E w \in Workers :
          \/ StartUp(w)
          \/ \E i \in Ids : Save(w, i) \/ Delete(w, i)
          \/ Refresh(w)
          \/ FailStatement(w)
    \/ Stop
    \/ Quiet
    \/ \E r \in Readers : Confirm(r) \/ \E i \in Ids : Query(r, i)

Spec == Init /\ [][Next]_vars

\* A stopped service is started again and a refresh runs to its end: a thread
\* in a refresh waits for no other one.
FairSpec ==
    Spec /\ WF_vars(\E w \in Workers : StartUp(w) \/ Refresh(w))

-----------------------------------------------------------------------------
(* Properties *)

\* Every variable keeps its shape (the locals of _refresh_ontology_model and
\* the node labels of neo4j_graph_store.py).
TypeOK ==
    /\ store \in [Ids -> Nat]
    /\ graph \in Graphs
    /\ worker \in [Workers -> WorkerRecords]
    /\ serving \in BOOLEAN
    /\ reader \in [Readers -> ReaderRecords]
    /\ changes \in Nat
    /\ faults \in Nat
    /\ settled \in BOOLEAN

\* After a refresh that no other refresh and no change of a scenario has
\* overlapped, the graph is exactly the copy of SQLite: one schema, every
\* object, relation and record once, in its stored version; whatever failed
\* statements, stopped processes and overlapping refreshes had left in it.
RefreshRepairs == settled => graph = Projection(store)

\* A question answered while the graph is settled gets the receipt the stored
\* results justify (OntologyEvidenceGateway.confirm_tool_result).
CalmReceiptsAreRight ==
    \A r \in Readers :
        LET q == reader[r] IN
        q.calm /\ q.status # "none" =>
            q.status = IF store[q.id] # 0 THEN "verified"
                       ELSE "missing_after_query"

\* The service comes back after every stop: the refresh of a start is never
\* refused by the unique constraints, whatever the graph holds.
ComesBack == ~serving ~> serving

\* README.md:42: all business objects are stored in Neo4j; once the requests
\* have ended, its objects are those of the stored scenarios (when no statement
\* has failed for want of Neo4j, MaxFaults = 0).
AtRest == serving /\ \A w \in Workers : ~Refreshing(w)

ObjectsFollowStore == AtRest => graph.nodes = Projection(store).nodes

\* qa/ontology_evidence_gateway.py:7-9: a no-match result is a confirmed
\* absence; the scenario would then have been absent at some moment of the
\* question.
NoMatchIsAbsence ==
    \A r \in Readers :
        reader[r].status = "missing_after_query" => reader[r].absent
=============================================================================
