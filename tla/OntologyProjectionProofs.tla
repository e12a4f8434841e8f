---------------------- MODULE OntologyProjectionProofs ----------------------
(***************************************************************************)
(* Proofs about OntologyProjection for any number of threads, scenarios,   *)
(* changes and faults: a refresh that met no other thread and no change    *)
(* leaves the graph an exact copy of the store.  The invariant Inv says,   *)
(* step by step of such a refresh, which part of the graph is already      *)
(* the copy, and which is known to be empty.                               *)
(***************************************************************************)
EXTENDS OntologyProjection, TLAPS

StoredObjects == {<<i, store[i]>> : i \in Stored(store)}

StoredRecord(k, i) ==
    [kind |-> k, id |-> i, version |-> store[i], linked |-> TRUE]

StoredRecords ==
    {StoredRecord(k, i) : k \in KindNumbers, i \in Stored(store)}

StoredLinks == [i \in Ids |-> IF i \in Stored(store) THEN 1 ELSE 0]

NoLinks == [i \in Ids |-> 0]

\* What a refresh that is alone has read.
HasRead(w) ==
    LET r == worker[w] IN
    /\ r.pc \notin {"read_rows", "clear_records", "create_records"} =>
          r.kind = 1
    /\ r.pc = "list" => r.objects = {}
    /\ r.pc = "detail" =>
          /\ r.todo \subseteq Stored(store)
          /\ r.objects = {o \in StoredObjects : o[1] \notin r.todo}
    /\ r.pc \notin {"list", "detail"} => r.objects = StoredObjects
    /\ r.pc = "read_rows" => \A k \in 1..(r.kind - 1) : r.rows[k] = store
    /\ r.pc \in {"clear_records", "create_records"} =>
          \A k \in KindNumbers : r.rows[k] = store

\* What it has written.
HasWritten(w) ==
    LET r == worker[w] IN
    /\ r.pc = "create_schema" => graph.schema = 0
    /\ r.pc \in {"clear_nodes", "create_nodes", "create_links", "read_rows",
                 "clear_records", "create_records"} => graph.schema = 1
    /\ r.pc = "create_nodes" => graph.nodes = {}
    /\ r.pc \in {"create_nodes", "create_links"} => graph.links = NoLinks
    /\ r.pc \in {"create_links", "read_rows", "clear_records",
                 "create_records"} => graph.nodes = StoredObjects
    /\ r.pc \in {"read_rows", "clear_records", "create_records"} =>
          graph.links = StoredLinks
    /\ r.pc = "clear_records" => \A x \in graph.records : x.kind >= r.kind
    /\ r.pc = "create_records" =>
          graph.records = {x \in StoredRecords : x.kind < r.kind}

\* A refresh that is alone is the only one, and as far as it has come the
\* graph is the copy; the graph is settled only while nobody refreshes.
Inv ==
    /\ TypeOK
    /\ \A v, w \in Workers :
          worker[v].alone /\ Refreshing(w) => v = w
    /\ \A w \in Workers : worker[w].alone => Refreshing(w)
    /\ \A w \in Workers : worker[w].alone => HasRead(w) /\ HasWritten(w)
    /\ settled => \A w \in Workers : ~Refreshing(w)
    /\ RefreshRepairs

-----------------------------------------------------------------------------
(* Type correctness *)

LEMMA Constants ==
    /\ KindNumbers = 1..5
    /\ Last = 5
    /\ BASELINE \in Ids
    /\ Ids \subseteq Nat
BY BoundsAssumption DEF KindNumbers, Last, RecordKinds, BASELINE, Ids

LEMMA RecordTypes ==
    /\ Idle \in WorkerRecords
    /\ NoQuestion \in ReaderRecords
    /\ EmptyGraph \in Graphs
BY Constants
DEF Idle, WorkerRecords, NoRows, ObjectSets, NoQuestion, ReaderRecords,
    EmptyGraph, Graphs

LEMMA InitType == Init => TypeOK
<1> SUFFICES ASSUME Init PROVE TypeOK
    OBVIOUS
<1>1. store \in [Ids -> Nat]
    BY Constants DEF Init
<1>2. worker \in [Workers -> WorkerRecords]
    BY RecordTypes DEF Init
<1>3. reader \in [Readers -> ReaderRecords]
    BY RecordTypes DEF Init
<1> QED
    BY <1>1, <1>2, <1>3, RecordTypes DEF Init, TypeOK

Locations ==
    {"idle", "list", "detail", "clear_schema", "create_schema", "clear_nodes",
     "create_nodes", "create_links", "read_rows", "clear_records",
     "create_records"}

\* Thread w goes to another step, the step of another kind, or ends.
LEMMA StepType ==
    ASSUME TypeOK, NEW w \in Workers, NEW pc \in Locations,
           \/ Step(w, pc)
           \/ NextKind(w, pc)
           \/ worker' = [worker EXCEPT ![w].kind = @ + 1]
                 /\ worker[w].kind # Last
           \/ worker' = [worker EXCEPT ![w] = Idle]
    PROVE  worker' \in [Workers -> WorkerRecords]
<1>0. /\ worker \in [Workers -> WorkerRecords]
      /\ worker[w] \in WorkerRecords
    BY DEF TypeOK
<1>1. /\ [worker[w] EXCEPT !.pc = pc] \in WorkerRecords
      /\ [worker[w] EXCEPT !.pc = pc, !.kind = 1] \in WorkerRecords
      /\ worker[w].kind # Last =>
            [worker[w] EXCEPT !.kind = worker[w].kind + 1] \in WorkerRecords
  <2>1. [worker[w] EXCEPT !.pc = pc] \in WorkerRecords
      BY <1>0 DEF WorkerRecords, Locations
  <2>2. 1 \in KindNumbers
        /\ (worker[w].kind # Last => worker[w].kind + 1 \in KindNumbers)
      BY <1>0, Constants DEF WorkerRecords
  <2>3. ASSUME NEW k \in KindNumbers
        PROVE  /\ [worker[w] EXCEPT !.pc = pc, !.kind = k] \in WorkerRecords
               /\ [worker[w] EXCEPT !.kind = k] \in WorkerRecords
      BY <1>0 DEF WorkerRecords, Locations
  <2> QED
      BY <2>1, <2>2, <2>3
<1>2. CASE Step(w, pc)
    BY <1>0, <1>1, <1>2 DEF Step
<1>3. CASE worker' = [worker EXCEPT ![w].kind = @ + 1] /\ worker[w].kind # Last
    BY <1>0, <1>1, <1>3
<1>4. CASE worker' = [worker EXCEPT ![w].pc = pc, ![w].kind = 1]
    BY <1>0, <1>1, <1>4
<1>5. CASE worker' = [worker EXCEPT ![w] = Idle]
    BY <1>0, <1>5, RecordTypes
<1> QED
    BY <1>2, <1>3, <1>4, <1>5 DEF NextKind

LEMMA BeginType ==
    ASSUME TypeOK, NEW w \in Workers, BeginRefresh(w)
    PROVE  worker' \in [Workers -> WorkerRecords]
BY RecordTypes DEF TypeOK, BeginRefresh, Idle, WorkerRecords, Refreshing

LEMMA ReadersType ==
    ASSUME TypeOK, NEW s \in [Ids -> Nat], ReadersSee(s)
    PROVE  reader' \in [Readers -> ReaderRecords]
BY DEF TypeOK, ReadersSee, ReaderRecords

LEMMA ReadType ==
    ASSUME TypeOK, NEW w \in Workers,
           ListScenarios(w) \/ ReadDetail(w) \/ ReadRows(w)
    PROVE  TypeOK'
<1>0. /\ worker[w] \in WorkerRecords /\ graph' \in Graphs
      /\ store \in [Ids -> Nat]
    BY DEF TypeOK, ListScenarios, ReadDetail, ReadRows
<1>1. CASE ListScenarios(w)
  <2>1. [worker[w] EXCEPT !.pc = "detail", !.todo = Stored(store)]
           \in WorkerRecords
      BY <1>0 DEF WorkerRecords, Stored
  <2> QED
      BY <1>0, <1>1, <2>1 DEF ListScenarios, TypeOK
<1>2. CASE ReadDetail(w)
  <2>1. PICK i \in worker[w].todo :
           worker' = [worker EXCEPT
               ![w].objects = @ \cup {<<i, store[i]>>},
               ![w].todo = @ \ {i},
               ![w].pc = IF worker[w].todo = {i} THEN "clear_schema" ELSE @]
      BY <1>2 DEF ReadDetail
  <2>2. worker[w].objects \cup {<<i, store[i]>>} \in ObjectSets
      BY <1>0 DEF WorkerRecords, ObjectSets
  <2>3. worker' \in [Workers -> WorkerRecords]
      BY <1>0, <2>1, <2>2 DEF TypeOK, WorkerRecords
  <2> QED
      BY <1>2, <2>3 DEF ReadDetail, TypeOK
<1>3. CASE ReadRows(w)
  <2>1. [worker[w].rows EXCEPT ![worker[w].kind] = store]
           \in [KindNumbers -> [Ids -> Nat]]
      BY <1>0 DEF WorkerRecords
  <2>2. (IF worker[w].kind = Last THEN 1 ELSE worker[w].kind + 1)
           \in KindNumbers
      BY <1>0, Constants DEF WorkerRecords
  <2>3. worker' \in [Workers -> WorkerRecords]
      BY <1>0, <1>3, <2>1, <2>2 DEF ReadRows, TypeOK, WorkerRecords
  <2> QED
      BY <1>3, <2>3 DEF ReadRows, TypeOK
<1> QED
    BY <1>1, <1>2, <1>3

LEMMA NewRecordsType ==
    ASSUME TypeOK, NEW w \in Workers
    PROVE  NewRecords(w) \subseteq Records
<1>1. worker[w].kind \in KindNumbers
      /\ worker[w].rows[worker[w].kind] \in [Ids -> Nat]
    BY DEF TypeOK, WorkerRecords
<1>2. \A i \in Ids :
         [kind |-> worker[w].kind, id |-> i,
          version |-> worker[w].rows[worker[w].kind][i],
          linked |-> i \in IdsOf(graph.nodes)] \in Records
    BY <1>1 DEF Records
<1> QED
    BY <1>2 DEF NewRecords, Stored

LEMMA WriteType ==
    ASSUME TypeOK, NEW w \in Workers,
           \/ ClearSchema(w) \/ CreateSchema(w)
           \/ ClearNodes(w) \/ CreateNodes(w) \/ CreateLinks(w)
           \/ ClearRecords(w) \/ CreateRecords(w) \/ FailStatement(w)
    PROVE  TypeOK'
<1>0. worker[w] \in WorkerRecords /\ graph \in Graphs
    BY DEF TypeOK
<1>1. worker' \in [Workers -> WorkerRecords]
  <2> USE StepType DEF Locations, Abort
  <2>1. CASE ClearSchema(w)  BY <2>1 DEF ClearSchema
  <2>2. CASE CreateSchema(w)  BY <2>2 DEF CreateSchema
  <2>3. CASE ClearNodes(w)  BY <2>3 DEF ClearNodes
  <2>4. CASE CreateNodes(w)  BY <2>4 DEF CreateNodes
  <2>5. CASE CreateLinks(w)  BY <2>5 DEF CreateLinks
  <2>6. CASE ClearRecords(w)  BY <2>6 DEF ClearRecords
  <2>7. CASE CreateRecords(w)  BY <2>7 DEF CreateRecords
  <2>8. CASE FailStatement(w)  BY <2>8 DEF FailStatement
  <2> QED
      BY <2>1, <2>2, <2>3, <2>4, <2>5, <2>6, <2>7, <2>8
<1>2. graph' \in Graphs
  <2>1. CASE ClearSchema(w)  BY <1>0, <2>1 DEF ClearSchema, Graphs
  <2>2. CASE CreateSchema(w)  BY <1>0, <2>2 DEF CreateSchema, Graphs
  <2>3. CASE ClearNodes(w)
    <3>1. \A r \in graph.records : [r EXCEPT !.linked = FALSE] \in Records
        BY <1>0 DEF Graphs, Records
    <3> QED
        BY <1>0, <2>3, <3>1 DEF ClearNodes, Graphs, ObjectSets
  <2>4. CASE CreateNodes(w)
    <3>1. graph.nodes \cup worker[w].objects \in ObjectSets
        BY <1>0 DEF Graphs, WorkerRecords, ObjectSets
    <3> QED
        BY <1>0, <2>4, <3>1 DEF CreateNodes, Abort, Graphs
  <2>5. CASE CreateLinks(w)  BY <1>0, <2>5 DEF CreateLinks, Graphs
  <2>6. CASE ClearRecords(w)  BY <1>0, <2>6 DEF ClearRecords, Graphs
  <2>7. CASE CreateRecords(w)
      BY <1>0, <2>7, NewRecordsType DEF CreateRecords, Abort, Graphs
  <2>8. CASE FailStatement(w)  BY <1>0, <2>8 DEF FailStatement, Abort
  <2> QED
      BY <2>1, <2>2, <2>3, <2>4, <2>5, <2>6, <2>7, <2>8
<1>3. settled' \in BOOLEAN /\ serving' \in BOOLEAN /\ faults' \in Nat
  <2>0. /\ settled \in BOOLEAN /\ serving \in BOOLEAN /\ faults \in Nat
        /\ worker[w].alone \in BOOLEAN
      BY <1>0 DEF TypeOK, WorkerRecords
  <2>1. CASE CreateRecords(w)  BY <2>0, <2>1 DEF CreateRecords
  <2>2. CASE FailStatement(w)  BY <2>0, <2>2 DEF FailStatement
  <2>3. CASE ClearSchema(w) \/ CreateSchema(w) \/ ClearNodes(w)
             \/ CreateNodes(w) \/ CreateLinks(w) \/ ClearRecords(w)
      BY <2>0, <2>3 DEF ClearSchema, CreateSchema, ClearNodes, CreateNodes,
                        CreateLinks, ClearRecords
  <2> QED
      BY <2>1, <2>2, <2>3
<1>4. UNCHANGED <<store, reader, changes>>
    BY DEF ClearSchema, CreateSchema, ClearNodes, CreateNodes, CreateLinks,
           ClearRecords, CreateRecords, FailStatement
<1>5. store' = store /\ reader' = reader /\ changes' = changes
    BY <1>4
<1> QED
    BY <1>1, <1>2, <1>3, <1>5 DEF TypeOK

LEMMA ReaderType ==
    ASSUME TypeOK, NEW r \in Readers,
           Confirm(r) \/ \E i \in Ids : Query(r, i)
    PROVE  TypeOK'
<1>1. CASE Confirm(r)
  <2>1. PICK status \in {"verified", "missing_after_query", "unverified"} :
           reader' = [reader EXCEPT ![r].pc = "idle", ![r].status = status]
    <3> DEFINE status == CASE ~reader[r].found -> "missing_after_query"
                [] reader[r].found /\ reader[r].id \in IdsOf(graph.nodes) ->
                     "verified"
                [] OTHER -> "unverified"
    <3>1. reader' = [reader EXCEPT ![r].pc = "idle", ![r].status = status]
        BY <1>1 DEF Confirm
    <3>2. status \in {"verified", "missing_after_query", "unverified"}
        OBVIOUS
    <3> QED
        BY <3>1, <3>2
  <2>2. [reader[r] EXCEPT !.pc = "idle", !.status = status] \in ReaderRecords
      BY DEF TypeOK, ReaderRecords
  <2>3. reader' \in [Readers -> ReaderRecords]
      BY <2>1, <2>2 DEF TypeOK
  <2> QED
      BY <1>1, <2>3 DEF Confirm, TypeOK
<1>2. ASSUME NEW i \in Ids, Query(r, i) PROVE TypeOK'
    BY <1>2 DEF Query, TypeOK, ReaderRecords
<1> QED
    BY <1>1, <1>2

LEMMA NextType == TypeOK /\ [Next]_vars => TypeOK'
<1> SUFFICES ASSUME TypeOK, [Next]_vars PROVE TypeOK'
    OBVIOUS
<1>1. ASSUME NEW w \in Workers, StartUp(w) PROVE TypeOK'
    BY <1>1, BeginType DEF StartUp, TypeOK
<1>2. ASSUME NEW w \in Workers, NEW i \in Ids, Save(w, i) \/ Delete(w, i)
      PROVE  TypeOK'
  <2>1. store' \in [Ids -> Nat] /\ changes' \in Nat
      BY <1>2 DEF Save, Delete, TypeOK
  <2>2. worker' \in [Workers -> WorkerRecords]
      BY <1>2, BeginType DEF Save, Delete
  <2>3. reader' \in [Readers -> ReaderRecords]
      BY <1>2, <2>1, ReadersType DEF Save, Delete
  <2> QED
      BY <1>2, <2>1, <2>2, <2>3 DEF Save, Delete, TypeOK
<1>3. ASSUME NEW w \in Workers, Refresh(w) \/ FailStatement(w) PROVE TypeOK'
    BY <1>3, ReadType, WriteType DEF Refresh
<1>4. CASE Stop
  <2>1. /\ worker' \in [Workers -> WorkerRecords]
        /\ reader' \in [Readers -> ReaderRecords]
      BY <1>4, RecordTypes DEF Stop
  <2>2. faults' \in Nat
    <3>1. faults \in Nat /\ faults' = faults + 1
        BY <1>4 DEF Stop, TypeOK
    <3> QED
        BY <3>1
  <2> QED
      BY <1>4, <2>1, <2>2 DEF Stop, TypeOK
<1>5. CASE \E r \in Readers : Confirm(r) \/ \E i \in Ids : Query(r, i)
    BY <1>5, ReaderType
<1>6. CASE UNCHANGED vars
    BY <1>6 DEF vars, TypeOK
<1> QED
    BY <1>1, <1>2, <1>3, <1>4, <1>5, <1>6 DEF Next, Quiet

\* Every variable keeps its shape (the locals of _refresh_ontology_model and
\* the node labels of neo4j_graph_store.py).
THEOREM TypeCorrect == Spec => []TypeOK
BY InitType, NextType, PTL DEF Spec

-----------------------------------------------------------------------------
(* The invariant *)

LEMMA StoredIds == IdsOf(StoredObjects) = Stored(store)
<1>1. \A i \in Stored(store) :
         <<i, store[i]>> \in StoredObjects /\ <<i, store[i]>>[1] = i
    BY DEF StoredObjects
<1>2. \A o \in StoredObjects : o[1] \in Stored(store)
    BY DEF StoredObjects
<1> QED
    BY <1>1, <1>2 DEF IdsOf

LEMMA InitInv == Init => Inv
<1> SUFFICES ASSUME Init PROVE Inv
    OBVIOUS
<1>1. \A w \in Workers : worker[w] = Idle
    BY DEF Init
<1>2. Idle.pc = "idle" /\ Idle.alone = FALSE
    BY DEF Idle
<1> QED
    BY <1>1, <1>2, InitType DEF Init, Inv, Refreshing, RefreshRepairs

\* What nobody refreshing can disturb stays.
LEMMA IdleInv ==
    ASSUME Inv, TypeOK', UNCHANGED <<store, graph, worker, settled>>
    PROVE  Inv'
<1>1. \A w \in Workers : Refreshing(w)' = Refreshing(w)
    BY DEF Refreshing
<1>2. /\ StoredObjects' = StoredObjects /\ StoredRecords' = StoredRecords
      /\ StoredLinks' = StoredLinks /\ Stored(store)' = Stored(store)
    BY DEF StoredObjects, StoredRecords, StoredRecord, StoredLinks, Stored
<1>3. ASSUME NEW w \in Workers, worker[w].alone
      PROVE  HasRead(w)' /\ HasWritten(w)'
  <2>1. HasRead(w) /\ HasWritten(w)
      BY <1>3 DEF Inv
  <2>2. HasRead(w)'
      BY <1>2, <2>1 DEF HasRead
  <2>3. HasWritten(w)'
      BY <1>2, <2>1 DEF HasWritten
  <2> QED
      BY <2>2, <2>3
<1>4. RefreshRepairs'
    BY DEF Inv, RefreshRepairs, Projection, Stored
<1> QED
    BY <1>1, <1>3, <1>4 DEF Inv

\* A new refresh has read and written nothing yet.
LEMMA BeginInv ==
    ASSUME Inv, TypeOK', NEW w \in Workers, BeginRefresh(w),
           settled' = FALSE
    PROVE  Inv'
<1>1. /\ worker'[w].pc = "list"
      /\ worker'[w].kind = 1
      /\ worker'[w].objects = {}
      /\ worker'[w].alone = \A u \in Workers \ {w} : ~Refreshing(u)
    BY DEF BeginRefresh, Idle
<1>2. ASSUME NEW v \in Workers \ {w}
      PROVE  worker'[v].alone = FALSE /\ worker'[v].pc = worker[v].pc
  <2>1. worker[v] \in WorkerRecords
      BY DEF Inv, TypeOK
  <2>2. worker'[v] = [worker[v] EXCEPT !.alone = FALSE]
      BY DEF BeginRefresh
  <2> QED
      BY <2>1, <2>2 DEF WorkerRecords
<1>3. HasRead(w)' /\ HasWritten(w)'
    BY <1>1 DEF HasRead, HasWritten
<1> QED
    BY <1>1, <1>2, <1>3 DEF Inv, Refreshing, RefreshRepairs

\* A step of a refresh that does not finish it: only what it has itself read
\* and written is to be shown, and only if it is alone.
LEMMA StepInv ==
    ASSUME Inv, TypeOK', NEW w \in Workers, Refreshing(w),
           NEW r, worker' = [worker EXCEPT ![w] = r],
           settled' = settled,
           r.alone => /\ worker[w].alone
                      /\ r.pc # "idle"
                      /\ HasRead(w)' /\ HasWritten(w)'
    PROVE  Inv'
<1>1. worker'[w] = r /\ \A v \in Workers \ {w} : worker'[v] = worker[v]
    BY DEF Inv, TypeOK
<1>2. ~settled /\ \A v \in Workers \ {w} : ~worker[v].alone
    BY DEF Inv
<1>3. \A v \in Workers : worker'[v].alone => v = w /\ worker[w].alone
    BY <1>1, <1>2
<1>4. \A v, u \in Workers : worker'[v].alone /\ Refreshing(u)' => v = u
  <2> SUFFICES ASSUME NEW v \in Workers, NEW u \in Workers,
                      worker'[v].alone, Refreshing(u)'
               PROVE  v = u
      OBVIOUS
  <2>1. v = w /\ worker[w].alone
      BY <1>3
  <2>2. CASE u # w
      BY <2>1, <2>2, <1>1 DEF Inv, Refreshing
  <2> QED
      BY <2>1, <2>2
<1>5. \A v \in Workers : worker'[v].alone => Refreshing(v)'
    BY <1>1, <1>3 DEF Refreshing
<1>6. \A v \in Workers : worker'[v].alone => HasRead(v)' /\ HasWritten(v)'
    BY <1>1, <1>3
<1> QED
    BY <1>2, <1>4, <1>5, <1>6 DEF Inv, RefreshRepairs

\* A refresh that ends, or fails, without the graph becoming settled.
LEMMA AbortInv ==
    ASSUME Inv, TypeOK', NEW w \in Workers, Refreshing(w),
           worker' = [worker EXCEPT ![w] = Idle], settled' = settled
    PROVE  Inv'
<1>1. ~Idle.alone
    BY DEF Idle
<1> QED
    BY <1>1, StepInv

LEMMA ReadInv ==
    ASSUME Inv, TypeOK', NEW w \in Workers,
           ListScenarios(w) \/ ReadDetail(w) \/ ReadRows(w)
    PROVE  Inv'
<1>0. /\ Refreshing(w) /\ settled' = settled
      /\ store' = store /\ graph' = graph
      /\ worker \in [Workers -> WorkerRecords]
      /\ worker[w] \in WorkerRecords
    BY DEF ListScenarios, ReadDetail, ReadRows, Refreshing, Inv, TypeOK
<1>1. CASE ListScenarios(w)
  <2> DEFINE r == [worker[w] EXCEPT !.pc = "detail", !.todo = Stored(store)]
  <2>1. worker' = [worker EXCEPT ![w] = r]
      BY <1>0, <1>1 DEF ListScenarios
  <2>2. /\ r.alone = worker[w].alone /\ r.pc = "detail"
        /\ r.todo = Stored(store) /\ r.kind = worker[w].kind
        /\ r.objects = worker[w].objects
      BY <1>0 DEF WorkerRecords
  <2>3. worker'[w] = r
      BY <1>0, <2>1
  <2>4. ASSUME worker[w].alone PROVE HasRead(w)' /\ HasWritten(w)'
    <3>1. worker[w].objects = {} /\ worker[w].kind = 1
        BY <1>1, <2>4 DEF Inv, HasRead, ListScenarios
    <3>2. {} = {o \in StoredObjects : o[1] \notin Stored(store)}
        BY DEF StoredObjects
    <3>3. Stored(store)' = Stored(store) /\ StoredObjects' = StoredObjects
        BY <1>0 DEF Stored, StoredObjects
    <3>4. HasRead(w)'
        BY <2>2, <2>3, <3>1, <3>2, <3>3 DEF HasRead
    <3>5. HasWritten(w)'
        BY <2>2, <2>3 DEF HasWritten
    <3> QED
        BY <3>4, <3>5
  <2> QED
      BY <1>0, <2>1, <2>2, <2>4, StepInv
<1>2. CASE ReadDetail(w)
  <2>1. PICK i \in worker[w].todo :
           worker' = [worker EXCEPT
               ![w].objects = @ \cup {<<i, store[i]>>},
               ![w].todo = @ \ {i},
               ![w].pc = IF worker[w].todo = {i} THEN "clear_schema" ELSE @]
      BY <1>2 DEF ReadDetail
  <2> DEFINE r == [worker[w] EXCEPT
               !.objects = worker[w].objects \cup {<<i, store[i]>>},
               !.todo = worker[w].todo \ {i},
               !.pc = IF worker[w].todo = {i} THEN "clear_schema" ELSE @]
  <2>2. worker' = [worker EXCEPT ![w] = r]
      BY <1>0, <2>1
  <2>3. /\ r.alone = worker[w].alone
        /\ r.pc = IF worker[w].todo = {i} THEN "clear_schema" ELSE "detail"
        /\ r.todo = worker[w].todo \ {i} /\ r.kind = worker[w].kind
        /\ r.objects = worker[w].objects \cup {<<i, store[i]>>}
      BY <1>0, <1>2 DEF WorkerRecords, ReadDetail
  <2>4. worker'[w] = r
      BY <1>0, <2>2
  <2>5. ASSUME worker[w].alone PROVE HasRead(w)' /\ HasWritten(w)'
    <3>1. /\ worker[w].kind = 1
          /\ worker[w].todo \subseteq Stored(store)
          /\ worker[w].objects =
                {o \in StoredObjects : o[1] \notin worker[w].todo}
        BY <1>2, <2>5 DEF Inv, HasRead, ReadDetail
    <3>2. r.objects = {o \in StoredObjects : o[1] \notin r.todo}
        BY <2>3, <3>1 DEF StoredObjects
    <3>3. r.pc = "clear_schema" => r.objects = StoredObjects
        BY <2>3, <3>2
    <3>4. Stored(store)' = Stored(store) /\ StoredObjects' = StoredObjects
        BY <1>0 DEF Stored, StoredObjects
    <3>5. HasRead(w)'
        BY <2>3, <2>4, <3>1, <3>2, <3>3, <3>4 DEF HasRead
    <3>6. HasWritten(w)'
        BY <2>3, <2>4 DEF HasWritten
    <3> QED
        BY <3>5, <3>6
  <2> HIDE DEF r
  <2>6. r.pc # "idle"
      BY <2>3
  <2> QED
      BY <1>0, <2>2, <2>3, <2>5, <2>6, StepInv
<1>3. CASE ReadRows(w)
  <2> DEFINE pc == IF worker[w].kind = Last THEN "clear_records"
                                            ELSE "read_rows"
             kind == IF worker[w].kind = Last THEN 1 ELSE worker[w].kind + 1
             rows == [worker[w].rows EXCEPT ![worker[w].kind] = store]
             r == [worker[w] EXCEPT !.rows = rows, !.kind = kind, !.pc = pc]
  <2>1. worker' = [worker EXCEPT ![w] = r]
      BY <1>0, <1>3 DEF ReadRows, WorkerRecords
  <2>2. /\ r.alone = worker[w].alone /\ r.pc = pc
        /\ r.kind = kind /\ r.rows = rows /\ r.objects = worker[w].objects
      BY <1>0 DEF WorkerRecords
  <2>3. worker'[w] = r
      BY <1>0, <2>1
  <2>4. pc \in {"read_rows", "clear_records"}
      OBVIOUS
  <2>5. ASSUME worker[w].alone PROVE HasRead(w)' /\ HasWritten(w)'
    <3>1. /\ worker[w].pc = "read_rows"
          /\ worker[w].objects = StoredObjects
          /\ \A k \in 1..(worker[w].kind - 1) : worker[w].rows[k] = store
        BY <1>3, <2>5 DEF Inv, HasRead, ReadRows
    <3>2. /\ worker[w].kind \in 1..5
          /\ worker[w].rows \in [1..5 -> [Ids -> Nat]]
        BY <1>0, Constants DEF WorkerRecords
    <3>3. \A k \in 1..worker[w].kind : rows[k] = store
        BY <3>1, <3>2
    <3>4. pc = "read_rows" => \A k \in 1..(kind - 1) : rows[k] = store
        BY <3>2, <3>3
    <3>5. pc = "clear_records" =>
             kind = 1 /\ \A k \in KindNumbers : rows[k] = store
        BY <3>2, <3>3, Constants
    <3>6. StoredObjects' = StoredObjects
        BY <1>0 DEF Stored, StoredObjects
    <3>7. HasRead(w)'
      <4> HIDE DEF pc, kind, rows, r
      <4> QED
          BY <1>0, <2>2, <2>3, <2>4, <3>1, <3>4, <3>5, <3>6 DEF HasRead
    <3>8. \A x \in graph.records : x.kind >= 1
        BY Constants DEF Inv, TypeOK, Graphs, Records
    <3>9. /\ graph.schema = 1 /\ graph.nodes = StoredObjects
          /\ graph.links = StoredLinks
        BY <2>5, <3>1 DEF Inv, HasWritten
    <3>10. StoredLinks' = StoredLinks
        BY <1>0 DEF StoredLinks, Stored
    <3>11. HasWritten(w)'
      <4>1. pc = "clear_records" => kind = 1
          OBVIOUS
      <4> HIDE DEF pc, kind, rows, r
      <4> QED
          BY <1>0, <2>2, <2>3, <2>4, <3>6, <3>8, <3>9, <3>10, <4>1
          DEF HasWritten
    <3> QED
        BY <3>7, <3>11
  <2> HIDE DEF pc, kind, rows, r
  <2> QED
      BY <1>0, <2>1, <2>2, <2>4, <2>5, StepInv
<1> QED
    BY <1>1, <1>2, <1>3

LEMMA NewRecordsAreStored ==
    ASSUME Inv, NEW w \in Workers, worker[w].alone,
           worker[w].pc = "create_records"
    PROVE  NewRecords(w) = {x \in StoredRecords : x.kind = worker[w].kind}
<1>1. /\ worker[w].kind \in KindNumbers
      /\ worker[w].rows[worker[w].kind] = store
      /\ graph.nodes = StoredObjects
    BY DEF Inv, TypeOK, WorkerRecords, HasRead, HasWritten
<1>2. NewRecords(w) =
         {[kind |-> worker[w].kind, id |-> i, version |-> store[i],
           linked |-> TRUE] : i \in Stored(store)}
  <2>1. \A i \in Stored(store) : (i \in IdsOf(graph.nodes)) = TRUE
      BY <1>1, StoredIds
  <2> QED
      BY <1>1, <2>1 DEF NewRecords
<1> QED
    BY <1>1, <1>2 DEF StoredRecords, StoredRecord

\* The statements on schema, objects and relations.
LEMMA ObjectsInv ==
    ASSUME Inv, TypeOK', NEW w \in Workers,
           \/ ClearSchema(w) \/ CreateSchema(w)
           \/ ClearNodes(w) \/ CreateNodes(w) \/ CreateLinks(w)
    PROVE  Inv'
<1>0. /\ Refreshing(w) /\ settled' = settled
      /\ store' = store
      /\ worker \in [Workers -> WorkerRecords]
      /\ worker[w] \in WorkerRecords
      /\ graph \in Graphs
    BY DEF ClearSchema, CreateSchema, ClearNodes, CreateNodes, CreateLinks,
           Refreshing, Inv, TypeOK
<1> DEFINE At(pc) == [worker[w] EXCEPT !.pc = pc]
<1>1. ASSUME NEW pc PROVE /\ At(pc).pc = pc
                          /\ At(pc).alone = worker[w].alone
                          /\ At(pc).kind = worker[w].kind
                          /\ At(pc).objects = worker[w].objects
    BY <1>0 DEF WorkerRecords
<1>2. ASSUME NEW pc, Step(w, pc)
      PROVE  /\ worker' = [worker EXCEPT ![w] = At(pc)]
             /\ worker'[w].pc = pc
             /\ worker'[w].kind = worker[w].kind
             /\ worker'[w].objects = worker[w].objects
  <2>1. worker' = [worker EXCEPT ![w] = At(pc)] /\ worker'[w] = At(pc)
      BY <1>0, <1>2 DEF Step
  <2> HIDE DEF At
  <2> QED
      BY <1>1, <2>1
<1>3. /\ StoredObjects' = StoredObjects /\ StoredLinks' = StoredLinks
      /\ NoLinks' = NoLinks
    BY <1>0 DEF StoredObjects, StoredLinks, NoLinks, Stored
<1> HIDE DEF At
<1>4. ASSUME worker[w].alone,
             worker[w].pc \in {"clear_schema", "create_schema", "clear_nodes",
                               "create_nodes", "create_links"}
      PROVE  worker[w].kind = 1 /\ worker[w].objects = StoredObjects
    BY <1>4 DEF Inv, HasRead
<1>5. CASE ClearSchema(w)
  <2>1. graph'.schema = 0 /\ worker[w].pc = "clear_schema"
        /\ Step(w, "create_schema")
      BY <1>0, <1>5 DEF ClearSchema, Graphs
  <2>2. ASSUME worker[w].alone PROVE HasRead(w)' /\ HasWritten(w)'
    <3>1. worker[w].kind = 1 /\ worker[w].objects = StoredObjects
        BY <1>4, <2>2, <2>1
    <3>2. HasRead(w)'
        BY <1>2, <1>3, <2>1, <3>1 DEF HasRead
    <3>3. HasWritten(w)'
        BY <1>2, <1>3, <2>1, <2>2, <3>1 DEF HasWritten
    <3> QED
        BY <3>2, <3>3
  <2> QED
      BY <1>0, <1>1, <1>2, <2>1, <2>2, StepInv
<1>6. CASE CreateSchema(w)
  <2>1. graph'.schema = graph.schema + 1 /\ worker[w].pc = "create_schema"
        /\ Step(w, "clear_nodes")
      BY <1>0, <1>6 DEF CreateSchema, Graphs
  <2>2. worker[w].alone => graph.schema = 0
      BY <2>1 DEF Inv, HasWritten
  <2>3. ASSUME worker[w].alone PROVE HasRead(w)' /\ HasWritten(w)'
    <3>1. worker[w].kind = 1 /\ worker[w].objects = StoredObjects
        BY <1>4, <2>3, <2>1
    <3>2. HasRead(w)'
        BY <1>2, <1>3, <2>1, <3>1 DEF HasRead
    <3>3. HasWritten(w)'
        BY <1>2, <1>3, <2>1, <2>2, <2>3, <3>1 DEF HasWritten
    <3> QED
        BY <3>2, <3>3
  <2> QED
      BY <1>0, <1>1, <1>2, <2>1, <2>3, StepInv
<1>7. CASE ClearNodes(w)
  <2>1. /\ graph'.schema = graph.schema /\ graph'.nodes = {}
        /\ graph'.links = NoLinks
        /\ worker[w].pc = "clear_nodes" /\ Step(w, "create_nodes")
      BY <1>0, <1>7 DEF ClearNodes, Graphs, NoLinks
  <2>2. worker[w].alone => graph.schema = 1
      BY <2>1 DEF Inv, HasWritten
  <2>3. ASSUME worker[w].alone PROVE HasRead(w)' /\ HasWritten(w)'
    <3>1. worker[w].kind = 1 /\ worker[w].objects = StoredObjects
        BY <1>4, <2>3, <2>1
    <3>2. HasRead(w)'
        BY <1>2, <1>3, <2>1, <3>1 DEF HasRead
    <3>3. HasWritten(w)'
        BY <1>2, <1>3, <2>1, <2>2, <2>3, <3>1 DEF HasWritten
    <3> QED
        BY <3>2, <3>3
  <2> QED
      BY <1>0, <1>1, <1>2, <2>1, <2>3, StepInv
<1>8. CASE /\ CreateNodes(w)
           /\ IdsOf(graph.nodes) \cap IdsOf(worker[w].objects) # {}
    BY <1>0, <1>8, AbortInv DEF CreateNodes, Abort
<1>9. CASE /\ CreateNodes(w)
           /\ IdsOf(graph.nodes) \cap IdsOf(worker[w].objects) = {}
  <2>1. /\ graph'.schema = graph.schema /\ graph'.links = graph.links
        /\ graph'.nodes = graph.nodes \cup worker[w].objects
        /\ worker[w].pc = "create_nodes" /\ Step(w, "create_links")
      BY <1>0, <1>9 DEF CreateNodes, Graphs
  <2>2. worker[w].alone =>
           graph.schema = 1 /\ graph.nodes = {} /\ graph.links = NoLinks
      BY <2>1 DEF Inv, HasWritten
  <2>3. ASSUME worker[w].alone PROVE HasRead(w)' /\ HasWritten(w)'
    <3>1. worker[w].kind = 1 /\ worker[w].objects = StoredObjects
        BY <1>4, <2>3, <2>1
    <3>2. HasRead(w)'
        BY <1>2, <1>3, <2>1, <3>1 DEF HasRead
    <3>3. HasWritten(w)'
        BY <1>2, <1>3, <2>1, <2>2, <2>3, <3>1 DEF HasWritten
    <3> QED
        BY <3>2, <3>3
  <2> QED
      BY <1>0, <1>1, <1>2, <2>1, <2>3, StepInv
<1>10. CASE CreateLinks(w)
  <2> DEFINE found == IdsOf(graph.nodes) \cap IdsOf(worker[w].objects)
  <2>1. /\ graph'.schema = graph.schema /\ graph'.nodes = graph.nodes
        /\ graph'.links = [i \in Ids |-> IF i \in found
                                         THEN graph.links[i] + 1
                                         ELSE graph.links[i]]
        /\ worker[w].pc = "create_links" /\ Step(w, "read_rows")
      BY <1>0, <1>10 DEF CreateLinks, Graphs
  <2>2. worker[w].alone =>
           /\ graph.schema = 1 /\ graph.nodes = StoredObjects
           /\ graph.links = NoLinks
      BY <2>1 DEF Inv, HasWritten
  <2>3. worker[w].alone => found = Stored(store)
      BY <1>4, <2>1, <2>2, StoredIds
  <2>4. worker[w].alone => graph'.links = StoredLinks
    <3> HIDE DEF found
    <3> QED
        BY <2>1, <2>2, <2>3 DEF StoredLinks, NoLinks
  <2>5. ASSUME worker[w].alone PROVE HasRead(w)' /\ HasWritten(w)'
    <3>1. worker[w].kind = 1 /\ worker[w].objects = StoredObjects
        BY <1>4, <2>5, <2>1
    <3>2. HasRead(w)'
        BY <1>2, <1>3, <2>1, <3>1 DEF HasRead
    <3>3. HasWritten(w)'
        BY <1>2, <1>3, <2>1, <2>2, <2>4, <2>5, <3>1 DEF HasWritten
    <3> QED
        BY <3>2, <3>3
  <2> QED
      BY <1>0, <1>1, <1>2, <2>1, <2>5, StepInv
<1> QED
    BY <1>5, <1>6, <1>7, <1>8, <1>9, <1>10

LEMMA ClearRecordsInv ==
    ASSUME Inv, TypeOK', NEW w \in Workers, ClearRecords(w)
    PROVE  Inv'
<1>0. /\ Refreshing(w) /\ settled' = settled /\ store' = store
      /\ worker[w].pc = "clear_records"
      /\ worker \in [Workers -> WorkerRecords]
      /\ worker[w] \in WorkerRecords
      /\ graph'.schema = graph.schema /\ graph'.nodes = graph.nodes
      /\ graph'.links = graph.links
      /\ graph'.records = {x \in graph.records : x.kind # worker[w].kind}
    BY DEF ClearRecords, Refreshing, Inv, TypeOK, Graphs
<1> DEFINE pc == IF worker[w].kind = Last THEN "create_records"
                                          ELSE "clear_records"
           kind == IF worker[w].kind = Last THEN 1 ELSE worker[w].kind + 1
           r == [worker[w] EXCEPT !.pc = pc, !.kind = kind]
<1>1. /\ r.pc = pc /\ r.kind = kind /\ r.alone = worker[w].alone
      /\ r.objects = worker[w].objects /\ r.rows = worker[w].rows
    BY <1>0 DEF WorkerRecords
<1>2. worker' = [worker EXCEPT ![w] = r] /\ worker'[w] = r
  <2>1. CASE worker[w].kind = Last
      BY <1>0, <2>1 DEF ClearRecords, NextKind
  <2>2. CASE worker[w].kind # Last
    <3>1. [worker[w] EXCEPT !.kind = worker[w].kind + 1] = r
        BY <1>0, <2>2 DEF WorkerRecords
    <3> QED
        BY <1>0, <2>2, <3>1 DEF ClearRecords, NextKind
  <2> QED
      BY <2>1, <2>2
<1>3. pc \in {"clear_records", "create_records"}
    OBVIOUS
<1>4. worker[w].kind \in 1..5 /\ \A x \in graph.records : x.kind \in 1..5
    BY <1>0, Constants DEF Inv, TypeOK, WorkerRecords, Graphs, Records
<1>5. ASSUME worker[w].alone PROVE HasRead(w)' /\ HasWritten(w)'
  <2>1. /\ StoredObjects' = StoredObjects /\ StoredLinks' = StoredLinks
        /\ StoredRecords' = StoredRecords
      BY <1>0 DEF StoredObjects, StoredLinks, StoredRecords, StoredRecord,
                  Stored
  <2>2. /\ worker[w].objects = StoredObjects
        /\ \A k \in KindNumbers : worker[w].rows[k] = store
        /\ graph.schema = 1 /\ graph.nodes = StoredObjects
        /\ graph.links = StoredLinks
        /\ \A x \in graph.records : x.kind >= worker[w].kind
      BY <1>0, <1>5 DEF Inv, HasRead, HasWritten
  <2>3. pc = "clear_records" => \A x \in graph'.records : x.kind >= kind
      BY <1>0, <1>4, <2>2
  <2>4. pc = "create_records" =>
           graph'.records = {x \in StoredRecords : x.kind < kind}
    <3>1. ASSUME worker[w].kind = Last PROVE graph'.records = {}
        BY <1>0, <1>4, <2>2, <3>1, Constants
    <3>2. \A x \in StoredRecords : ~(x.kind < 1)
        BY Constants DEF StoredRecords, StoredRecord
    <3> QED
        BY <3>1, <3>2
  <2> HIDE DEF pc, kind, r
  <2>5. HasRead(w)'
      BY <1>0, <1>1, <1>2, <1>3, <2>1, <2>2 DEF HasRead
  <2>6. HasWritten(w)'
      BY <1>0, <1>1, <1>2, <1>3, <2>1, <2>2, <2>3, <2>4 DEF HasWritten
  <2> QED
      BY <2>5, <2>6
<1> HIDE DEF pc, kind, r
<1> QED
    BY <1>0, <1>1, <1>2, <1>3, <1>5, StepInv

\* With its last statement a refresh that is alone has made the copy.
LEMMA CreateRecordsInv ==
    ASSUME Inv, TypeOK', NEW w \in Workers, CreateRecords(w)
    PROVE  Inv'
<1>0. /\ Refreshing(w) /\ store' = store
      /\ worker[w].pc = "create_records"
      /\ worker \in [Workers -> WorkerRecords]
      /\ worker[w] \in WorkerRecords
      /\ graph \in Graphs
      /\ ~settled
    BY DEF CreateRecords, Refreshing, Inv, TypeOK
<1>1. CASE \E r \in graph.records, s \in NewRecords(w) : Clash(r, s)
    BY <1>0, <1>1, AbortInv DEF CreateRecords, Abort
<1>2. CASE ~\E r \in graph.records, s \in NewRecords(w) : Clash(r, s)
  <2>1. graph' = [graph EXCEPT !.records = graph.records \cup NewRecords(w)]
      BY <1>2 DEF CreateRecords
  <2>2. /\ graph'.schema = graph.schema /\ graph'.nodes = graph.nodes
        /\ graph'.links = graph.links
        /\ graph'.records = graph.records \cup NewRecords(w)
      BY <1>0, <2>1 DEF Graphs
  <2>3. worker[w].kind \in 1..5
      BY <1>0, Constants DEF WorkerRecords
  <2>4. ASSUME worker[w].alone
        PROVE  /\ worker[w].objects = StoredObjects
               /\ \A k \in KindNumbers : worker[w].rows[k] = store
               /\ graph.schema = 1 /\ graph.nodes = StoredObjects
               /\ graph.links = StoredLinks
               /\ graph'.records =
                     {x \in StoredRecords : x.kind < worker[w].kind + 1}
    <3>1. /\ worker[w].objects = StoredObjects
          /\ \A k \in KindNumbers : worker[w].rows[k] = store
          /\ graph.schema = 1 /\ graph.nodes = StoredObjects
          /\ graph.links = StoredLinks
          /\ graph.records = {x \in StoredRecords : x.kind < worker[w].kind}
        BY <1>0, <2>4 DEF Inv, HasRead, HasWritten
    <3>2. NewRecords(w) = {x \in StoredRecords : x.kind = worker[w].kind}
        BY <1>0, <2>4, NewRecordsAreStored
    <3>3. \A x \in StoredRecords : x.kind \in 1..5
        BY Constants DEF StoredRecords, StoredRecord
    <3>4. graph'.records =
             {x \in StoredRecords : x.kind < worker[w].kind + 1}
        BY <2>2, <2>3, <3>1, <3>2, <3>3
    <3> QED
        BY <3>1, <3>4
  <2>5. CASE worker[w].kind = Last
    <3>1. worker' = [worker EXCEPT ![w] = Idle] /\ settled' = worker[w].alone
        BY <1>2, <2>5 DEF CreateRecords
    <3>2. Idle.pc = "idle" /\ ~Idle.alone
        BY DEF Idle
    <3>3. worker'[w] = Idle /\ \A v \in Workers \ {w} : worker'[v] = worker[v]
        BY <1>0, <3>1
    <3>4. \A v \in Workers : ~worker'[v].alone
        BY <1>0, <3>2, <3>3 DEF Inv
    <3>5. settled' => \A v \in Workers : ~Refreshing(v)'
        BY <3>1, <3>2, <3>3 DEF Inv, Refreshing
    <3>6. ASSUME worker[w].alone PROVE graph' = Projection(store)
      <4>1. \A x \in StoredRecords : x.kind < 6
          BY Constants DEF StoredRecords, StoredRecord
      <4>2. graph'.records = StoredRecords
        <5>1. worker[w].kind + 1 = 6
            BY <2>5, Constants
        <5>2. graph'.records = {x \in StoredRecords : x.kind < 6}
            BY <2>4, <3>6, <5>1
        <5> QED
            BY <4>1, <5>2
      <4>3. graph' = [schema |-> 1, nodes |-> StoredObjects,
                      links |-> StoredLinks, records |-> StoredRecords]
        <5>1. graph' \in Graphs
            BY DEF TypeOK
        <5> QED
            BY <2>2, <2>4, <3>6, <4>2, <5>1 DEF Graphs
      <4> QED
          BY <4>3
          DEF Projection, StoredObjects, StoredLinks, StoredRecords,
              StoredRecord
    <3>7. RefreshRepairs'
        BY <1>0, <3>1, <3>6 DEF RefreshRepairs, Projection, Stored
    <3> QED
        BY <3>4, <3>5, <3>7 DEF Inv
  <2>6. CASE worker[w].kind # Last
    <3> DEFINE r == [worker[w] EXCEPT !.kind = worker[w].kind + 1]
    <3>1. worker' = [worker EXCEPT ![w] = r] /\ settled' = settled
        BY <1>0, <1>2, <2>6 DEF CreateRecords
    <3>2. /\ r.pc = "create_records" /\ r.kind = worker[w].kind + 1
          /\ r.alone = worker[w].alone
          /\ r.objects = worker[w].objects /\ r.rows = worker[w].rows
        BY <1>0 DEF WorkerRecords
    <3>3. worker'[w] = r
        BY <1>0, <3>1
    <3>4. ASSUME worker[w].alone PROVE HasRead(w)' /\ HasWritten(w)'
      <4>1. /\ StoredObjects' = StoredObjects /\ StoredLinks' = StoredLinks
            /\ StoredRecords' = StoredRecords
          BY <1>0 DEF StoredObjects, StoredLinks, StoredRecords, StoredRecord,
                  Stored
      <4> HIDE DEF r
      <4>2. HasRead(w)'
          BY <1>0, <2>4, <3>2, <3>3, <3>4, <4>1 DEF HasRead
      <4>3. HasWritten(w)'
          BY <2>2, <2>4, <3>2, <3>3, <3>4, <4>1 DEF HasWritten
      <4> QED
          BY <4>2, <4>3
    <3> HIDE DEF r
    <3> QED
        BY <1>0, <3>1, <3>2, <3>4, StepInv
  <2> QED
      BY <2>5, <2>6
<1> QED
    BY <1>1, <1>2

LEMMA NextInv == Inv /\ [Next]_vars => Inv'
<1> SUFFICES ASSUME Inv, [Next]_vars PROVE Inv'
    OBVIOUS
<1>0. TypeOK'
    BY NextType DEF Inv
<1>1. ASSUME NEW w \in Workers, StartUp(w) PROVE Inv'
    BY <1>0, <1>1, BeginInv DEF StartUp
<1>2. ASSUME NEW w \in Workers, NEW i \in Ids, Save(w, i) \/ Delete(w, i)
      PROVE  Inv'
    BY <1>0, <1>2, BeginInv DEF Save, Delete
<1>3. ASSUME NEW w \in Workers, Refresh(w) PROVE Inv'
    BY <1>0, <1>3, ReadInv, ObjectsInv, ClearRecordsInv, CreateRecordsInv
    DEF Refresh
<1>4. ASSUME NEW w \in Workers, FailStatement(w) PROVE Inv'
    BY <1>0, <1>4, AbortInv DEF FailStatement, Abort
<1>5. CASE Stop
  <2>1. \A w \in Workers : worker'[w].pc = "idle" /\ ~worker'[w].alone
      BY <1>5 DEF Stop, Idle
  <2>2. RefreshRepairs'
      BY <1>5 DEF Stop, Inv, RefreshRepairs, Projection, Stored
  <2> QED
      BY <1>0, <2>1, <2>2 DEF Inv, Refreshing
<1>6. ASSUME NEW r \in Readers, Confirm(r) \/ \E i \in Ids : Query(r, i)
      PROVE  Inv'
    BY <1>0, <1>6, IdleInv DEF Confirm, Query
<1>7. CASE UNCHANGED vars
    BY <1>0, <1>7, IdleInv DEF vars
<1> QED
    BY <1>1, <1>2, <1>3, <1>4, <1>5, <1>6, <1>7 DEF Next, Quiet

LEMMA InvHolds == Spec => []Inv
BY InitInv, NextInv, PTL DEF Spec

\* After a refresh that no other refresh and no change of a scenario has
\* overlapped, the graph is the copy of SQLite (_refresh_ontology_model),
\* whatever an earlier refresh has left in it and however many threads there
\* are.
THEOREM RefreshIsRepair == Spec => []RefreshRepairs
<1>1. Inv => RefreshRepairs
    BY DEF Inv
<1> QED
    BY <1>1, InvHolds, PTL

-----------------------------------------------------------------------------
(* Receipts *)

\* A calm question is only open while the service runs on a settled graph, and
\* what it has found there is what the store holds.
CalmInv ==
    \A r \in Readers :
        LET q == reader[r] IN
        q.calm =>
            /\ serving
            /\ settled
            /\ q.pc = "confirm" =>
                  q.status = "none" /\ (q.found <=> store[q.id] # 0)

Receipts == CalmInv /\ CalmReceiptsAreRight

\* In a settled graph exactly the stored scenarios have a node and a forecast.
LEMMA SettledGraph ==
    ASSUME Inv, settled, NEW i \in Ids
    PROVE  /\ i \in IdsOf(graph.nodes) <=> store[i] # 0
           /\ (\E x \in graph.records : x.kind = 1 /\ x.id = i)
                 <=> store[i] # 0
<1>1. graph = Projection(store)
    BY DEF Inv, RefreshRepairs
<1>2. graph.nodes = StoredObjects /\ graph.records = StoredRecords
    BY <1>1 DEF Projection, StoredObjects, StoredRecords, StoredRecord
<1>3. (\E x \in StoredRecords : x.kind = 1 /\ x.id = i) <=> i \in Stored(store)
  <2>1. ASSUME i \in Stored(store)
        PROVE  \E x \in StoredRecords : x.kind = 1 /\ x.id = i
    <3>1. 1 \in KindNumbers
        BY Constants
    <3>2. StoredRecord(1, i) \in StoredRecords
        BY <2>1, <3>1 DEF StoredRecords
    <3>3. StoredRecord(1, i).kind = 1 /\ StoredRecord(1, i).id = i
        BY DEF StoredRecord
    <3> QED
        BY <3>2, <3>3
  <2>2. \A x \in StoredRecords : x.id \in Stored(store)
      BY DEF StoredRecords, StoredRecord
  <2> QED
      BY <2>1, <2>2
<1> QED
    BY <1>2, <1>3, StoredIds DEF Stored

\* Steps that leave calm questions alone.
LEMMA ReceiptsKept ==
    ASSUME Receipts, UNCHANGED <<reader, store>>,
           serving => serving', settled => settled'
    PROVE  Receipts'
BY DEF Receipts, CalmInv, CalmReceiptsAreRight

\* Steps after which, or before which, no question is calm.
LEMMA NothingCalm ==
    ASSUME \A r \in Readers : ~reader'[r].calm
    PROVE  Receipts'
BY DEF Receipts, CalmInv, CalmReceiptsAreRight

LEMMA UnsettledIsNotCalm ==
    ASSUME Receipts, ~settled \/ ~serving, reader' = reader
    PROVE  Receipts'
<1>1. \A r \in Readers : ~reader[r].calm
    BY DEF Receipts, CalmInv
<1> QED
    BY <1>1, NothingCalm

LEMMA ConfirmReceipts ==
    ASSUME Inv, Receipts, NEW r \in Readers, Confirm(r)
    PROVE  Receipts'
<1> DEFINE status == CASE ~reader[r].found -> "missing_after_query"
                [] reader[r].found /\ reader[r].id \in IdsOf(graph.nodes) ->
                     "verified"
                [] OTHER -> "unverified"
           q == [reader[r] EXCEPT !.pc = "idle", !.status = status]
<1>1. /\ reader[r] \in ReaderRecords
      /\ reader \in [Readers -> ReaderRecords]
    BY DEF Inv, TypeOK
<1>2. /\ reader' = [reader EXCEPT ![r] = q]
      /\ serving' = serving /\ settled' = settled /\ store' = store
      /\ reader[r].pc = "confirm"
    BY <1>1 DEF Confirm
<1>3. /\ q.pc = "idle" /\ q.status = status /\ q.calm = reader[r].calm
      /\ q.id = reader[r].id
    BY <1>1 DEF ReaderRecords
<1>4. reader'[r] = q /\ \A s \in Readers \ {r} : reader'[s] = reader[s]
    BY <1>1, <1>2
<1>5. ASSUME reader[r].calm
      PROVE  status = IF store[reader[r].id] # 0 THEN "verified"
                      ELSE "missing_after_query"
  <2>1. settled /\ (reader[r].found <=> store[reader[r].id] # 0)
      BY <1>2, <1>5 DEF Receipts, CalmInv
  <2>2. reader[r].id \in IdsOf(graph.nodes) <=> store[reader[r].id] # 0
      BY <1>1, <2>1, SettledGraph DEF ReaderRecords
  <2>3. CASE reader[r].found
      BY <2>1, <2>2, <2>3
  <2>4. CASE ~reader[r].found
      BY <2>1, <2>4
  <2> QED
      BY <2>3, <2>4
<1> HIDE DEF status, q
<1>6. CalmInv'
    BY <1>2, <1>3, <1>4 DEF Receipts, CalmInv
<1>7. CalmReceiptsAreRight'
    BY <1>2, <1>3, <1>4, <1>5 DEF Receipts, CalmReceiptsAreRight
<1> QED
    BY <1>6, <1>7 DEF Receipts

LEMMA QueryReceipts ==
    ASSUME Inv, Receipts, NEW r \in Readers, NEW i \in Ids, Query(r, i)
    PROVE  Receipts'
<1>1. /\ reader' = [reader EXCEPT ![r] =
             [pc |-> "confirm", id |-> i,
              found |-> \E x \in graph.records : x.kind = 1 /\ x.id = i,
              status |-> "none", calm |-> settled, absent |-> store[i] = 0]]
      /\ serving /\ serving' = serving
      /\ settled' = settled /\ store' = store
    BY DEF Query
<1>2. \A s \in Readers \ {r} : reader'[s] = reader[s]
    BY <1>1 DEF Inv, TypeOK
<1>3. /\ reader'[r].pc = "confirm" /\ reader'[r].id = i
      /\ reader'[r].found = \E x \in graph.records : x.kind = 1 /\ x.id = i
      /\ reader'[r].status = "none" /\ reader'[r].calm = settled
    BY <1>1 DEF Inv, TypeOK
<1>4. settled => (reader'[r].found <=> store[i] # 0)
    BY <1>3, SettledGraph
<1>5. CalmInv'
    BY <1>1, <1>2, <1>3, <1>4 DEF Receipts, CalmInv
<1>6. CalmReceiptsAreRight'
    BY <1>1, <1>2, <1>3 DEF Receipts, CalmReceiptsAreRight
<1> QED
    BY <1>5, <1>6 DEF Receipts

LEMMA InitReceipts == Init => Receipts
<1> SUFFICES ASSUME Init PROVE Receipts
    OBVIOUS
<1>1. \A r \in Readers : ~reader[r].calm
    BY DEF Init, NoQuestion
<1> QED
    BY <1>1 DEF Receipts, CalmInv, CalmReceiptsAreRight

LEMMA NextReceipts == Inv /\ Receipts /\ [Next]_vars => Receipts'
<1> SUFFICES ASSUME Inv, Receipts, [Next]_vars PROVE Receipts'
    OBVIOUS
<1>1. ASSUME NEW w \in Workers, StartUp(w) PROVE Receipts'
    BY <1>1, UnsettledIsNotCalm DEF StartUp
<1>2. ASSUME NEW w \in Workers, NEW i \in Ids, Save(w, i) \/ Delete(w, i)
      PROVE  Receipts'
  <2>1. ReadersSee(store')
      BY <1>2 DEF Save, Delete
  <2>2. \A r \in Readers : ~reader'[r].calm
    <3> TAKE r \in Readers
    <3>1. reader[r] \in ReaderRecords
        BY DEF Inv, TypeOK
    <3>2. reader'[r] = [reader[r] EXCEPT !.calm = FALSE,
                !.absent = reader[r].absent \/ store'[reader[r].id] = 0]
        BY <2>1 DEF ReadersSee
    <3> QED
        BY <3>1, <3>2 DEF ReaderRecords
  <2> QED
      BY <2>2, NothingCalm
<1>3. ASSUME NEW w \in Workers, Refresh(w) \/ FailStatement(w)
      PROVE  Receipts'
  <2>1. Refreshing(w) /\ reader' = reader
      BY <1>3 DEF Refresh, FailStatement, ListScenarios, ReadDetail,
         ClearSchema, CreateSchema, ClearNodes, CreateNodes, CreateLinks,
         ReadRows, ClearRecords, CreateRecords, Refreshing
  <2>2. ~settled
      BY <2>1 DEF Inv
  <2> QED
      BY <2>1, <2>2, UnsettledIsNotCalm
<1>4. CASE Stop
  <2>1. \A r \in Readers : ~reader'[r].calm
      BY <1>4 DEF Stop, NoQuestion
  <2> QED
      BY <2>1, NothingCalm
<1>5. CASE \E r \in Readers : Confirm(r) \/ \E i \in Ids : Query(r, i)
    BY <1>5, ConfirmReceipts, QueryReceipts
<1>6. CASE UNCHANGED vars
    BY <1>6, ReceiptsKept DEF vars
<1> QED
    BY <1>1, <1>2, <1>3, <1>4, <1>5, <1>6 DEF Next, Quiet

\* A question that meets a settled graph gets the receipt the stored results
\* justify (OntologyEvidenceGateway.confirm_tool_result), however many
\* questions, changes, stops and failures there are.
THEOREM CalmReceipts == Spec => []CalmReceiptsAreRight
<1>1. Receipts => CalmReceiptsAreRight
    BY DEF Receipts
<1> QED
    BY <1>1, InvHolds, InitReceipts, NextReceipts, PTL DEF Spec
=============================================================================
