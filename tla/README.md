# Verification of the asset depreciation service

TLA+ modules, TLC configurations and TLAPS proofs about the depreciation
ontology service: a Python process that computes asset depreciation from three
Excel workbooks, keeps the results of a baseline and of What-if scenarios in
SQLite, projects them into Neo4j, and answers questions from the graph.

Paths below are relative to `src/src/depreciation_poc/` unless they start with
`README.md`, `docs/`, `tests/` or `web/`, which are relative to `src/`.

Contents: 1 the system, 2 the hard behaviours, 3 the modules, 4 the runs,
5 the proofs, 6 what the counterexamples show, 7 what is not modelled,
8 plan.

## 1. The system

| Component | State it keeps | Operations | Correct when |
|---|---|---|---|
| Start-up (`app/demo_server.py`, `DemoState.__init__`, `initialize`) | none of its own; decides over `source_snapshots`, `scenarios`, `scenario_metadata` | reopen the baseline, or reset and rebuild it in six commits, then refresh the graph | requests are served only from a complete, current baseline; scenarios survive restarts; old and new snapshots never mix |
| Excel repository (`infrastructure/customer_excel_repository.py`) | asset, category and block rows, read once; the workload sheet and the fingerprint are read again on each use | `source_summary`, `baseline_drivers`, loads | what is recorded and what is computed come from the same files |
| Result store (`infrastructure/business_store.py`) | one SQLite connection for all threads, an `RLock` around each call; 12 business tables and `chat_action_drafts` | one commit per `save_*`, `replace_*`, `delete_*`, `update_*`; reads | a scenario's rows belong together; nothing stays uncommitted |
| Scenario requests (`create_customer_scenario`, `delete_scenario`, `do_POST`, `do_DELETE`) | locals of a request | check base, inherit assumptions, count for an identifier, compute, five saves, refresh, read back | scenarios are whole, durable, derived from what is stored |
| Chat drafts (`create_chat_what_if_draft`, `confirm_`, `cancel_chat_action_draft`) | `chat_action_drafts`: PENDING, CONFIRMED, CANCELLED, EXPIRED | draft, confirm, cancel, expire after 30 minutes | a draft becomes at most one scenario; a cancelled draft none |
| Ontology projection (`_refresh_ontology_model`, `infrastructure/neo4j_graph_store.py`) | the graph: schema node, objects, relations, five kinds of records | read SQLite in many calls, then delete and create in auto-commit statements | the graph is a copy of SQLite; every refresh repairs the last |
| Evidence gateway (`qa/ontology_evidence_gateway.py`) | none | look up anchors, attach a receipt: verified, missing_after_query, unverified | receipts say what is stored |
| Calculation (`calculation/engine.py`, `policy/`, `ontology/`, `_reconstruct_historical_lines`, `_run_forecast`, `_apply_customer_assumptions`) | balances from month to month | apply assumptions, reconstruct the months before the ledger month, take the ledger month over, calculate the later ones | amounts conserve cost, months join up, a scenario moves only what it reaches |
| Views (`infrastructure/business_store.py` reads, `aggregation/`, `attribution/`) | none | wide table, tree, comparison, summaries, dashboard, cards, attribution | every view of a result adds up to the same |
| Reverse planning (`_optimize_reverse_plan`, `qa/reverse_optimization.py`, `qa/reverse_planning.py`) | conversations with a 30-minute life and their recommendations | options from the ontology, measurement, CP-SAT search, calibration, correction; explain or compare what was recommended | recommendations deliver what they show; operating parameters come last; "number 2" is what the page shows as 2 |
| Knowledge chat (`qa/knowledge_chat.py`) | locals of one stream | plan, tool calls, guard, answer | at most 4 rounds of 4 calls, each confirmed by the gateway; drafts are announced; every question ends |
| Wide-table QA (`qa/skill.py`) | conversations with a 30-minute life | open, validate, answer, record | an answer is about the page's scenario |
| Page (`web/app.js`) | its scenario and two conversation identifiers | ask, receive, switch scenario, stop | - |
| Harness, validation, tools | none that matters to others | presentation, look-ups | - |

How they interact. `run_server` builds one `DemoState`, whose constructor runs
`initialize` before the server listens; then `ThreadingHTTPServer` runs every
request in a thread of its own. All threads share the store's one SQLite
connection. Its lock covers a single call, so the calls of two handlers
interleave freely, and a commit commits whatever is open on the connection, by
whomever. Every change of a scenario ends with a refresh of the whole graph in
the same thread; no lock covers it. Questions are answered from the graph and
pass the gateway. The two conversation stores lock one call at a time as well:
`open` hands out the stored object, which the handler changes later, and every
`open` prunes what has expired, whoever is working on it. The chat's tools call
reverse planning and save drafts as a page would. Only SQLite, Neo4j and the
workbooks outlive the process.

## 2. The hard behaviours

`PROJECT.json` lists the hazards with their lines. In groups:

- *Crash between commits at start-up.* The rebuild is six commits; the next
  start decides from what they left. Also: workbooks replaced while a process
  has the old rows in memory.
- *Interleaved requests.* Five commits per save, on a connection shared with
  other saves and deletes; a failing call leaves statements open; identifiers
  are a count plus one.
- *Check at the beginning, act at the end.* The status of a draft is read at
  the start of a confirmation and written after everything else; the base
  scenario is looked up before its assumptions are read.
- *Projection without a transaction.* Refreshes overlap, statements fail, the
  process stops in the middle, readers look at a half-built graph.
- *Rounding, month after month.* Straight-line amounts are divided anew every
  month, shares of a pool are rounded and capped, history is computed backwards
  from rounded amounts, and the three parts of a forecast have to join.
- *Sums told in many ways.* Nine views and the attribution each add up lines in
  their own SQL or Python.
- *Effects that do not add up.* The optimizer adds effects measured one by one;
  bisections stop early, combinations are corrected afterwards, the numbers
  shown are older than those assumed.
- *Dialogues.* Requests of one conversation overlap, replies arrive after the
  page has changed its scenario, conversations expire under a request, models
  and tools fail half-way, evidence and rounds are limited.

## 3. The modules

| Module | Models | Extended by |
|---|---|---|
| `BaselineLedger` | abstract: one baseline, scenarios next to it, open only when current | instanced by `Bootstrap` |
| `Bootstrap` | start-up, one action per store call, stops, new workbooks, new rules | `BootstrapProofs` |
| `ScenarioService` | requests on scenarios and drafts, one action per store call | `MCScenarioService`, `ScenarioServiceProofs` |
| `OntologyProjection` | refreshes, one action per read or statement; questions and receipts | `MCOntologyProjection`, `OntologyProjectionProofs` |
| `DepreciationRules` | the engine's and the backcast's rules for one month of one asset or pool, policies | `CustomerWorkbook` |
| `CustomerWorkbook` | from workbook rows to assets, policies, drivers, ledger lines | `WhatIfForecast`, `DepreciationProofs` |
| `ResultViews` | what the read side, the aggregator and the attribution compute from lines | `WhatIfForecast` |
| `WhatIfForecast` | baseline and scenario, job by job, from assumptions to stored results | `MCWhatIfForecast`, `ReversePlanning`, `WhatIfForecastProofs` |
| `ReversePlanning` | a goal, its options, the search, recommendations, and the scenario made of one | `MCReversePlanning`, `ReversePlanningProofs` |
| `Sessions` | clock, page, load: what the dialogues share | `ReverseDialogue` |
| `ReverseDialogue` | conversations of reverse planning, their requests and replies | `KnowledgeAgent` |
| `KnowledgeAgent` | one stream of the chat, its rounds and its tools | `Assistants` |
| `QuestionDialogue` | conversations of the wide-table questions | `Assistants` |
| `Assistants` | composes the three dialogues, with fairness and the properties | `MCAssistants`, `AssistantsProofs` |
| `InductionLemmas` | nothing of the system: induction over numbers and finite sets, as facts about sets | `DepreciationProofs`, `AssistantsProofs` |
| `DepreciationProofs` | lemmas about the rules, the ledger, rounding, sums and the views of lines | `WhatIfForecastProofs` |
| `WhatIfForecastProofs` | theorems of the forecast; what its lines are, as a function of its input | `ReversePlanningProofs` |

The `MC` modules add symmetry sets, workbooks, goals and loads. Definitions marked `MUTANT` are
plausible bugs, used to see each property fail; no specification uses them.

**`Bootstrap`.** `pc` is the next step of `initialize`; `db` holds, for every
table, the calculation its BASELINE rows come from (workbook rows, workload
sheet, rules), `whatif` that of each saved scenario. `rows` is what the
repository holds in memory, `files` what is in the directory. `Decide` is the
condition in lines 198-211 of `demo_server.py`; `Reset`, `SaveSnapshot`,
`RunForecast`, `SaveScenario`, `ReplaceScenarioResults`, `SaveRuleExecutions`
and `SaveScenarioMetadata` follow lines 213-262. Both the fingerprint that is
compared and the one that is stored are taken from the files again, as in the
code. `Stop` may come before any step. One save of a scenario is one step here;
its five commits are the business of `ScenarioService`. `EditBaseline` is
`POST /api/scenarios/BASELINE/assumptions` (lines 4650-4663): the baseline is
calculated again with a client's assumptions and stored with the same version,
so that later starts keep it; `edited` observes it, and a reset clears it.
The abstract ledger has the step too (`Edit`): its promise is that a baseline
is current, not that it is unedited.

**`ScenarioService`.** `worker[w]` is the request a thread is handling: its
next step and the locals that survive from one step to the next. A table row is
represented by a tag, the request that wrote it, so that "rows of two requests
under one scenario" can be told. `db` is what the connection reads, `disk` what
is committed; `Commit` writes and then commits everything that is open, and
only `FailScenarioMetadata` leaves something open (two assumptions with the
same `assumption_id` violate the primary key after the other statements have
run). `torn`, `undercut`, `edits` and `made` observe and are never read by an
action that changes a table. A scenario is in `torn` when its last save was
overlapped by another save or delete of the same scenario, or cut short; it is
in `undercut` when it was deleted while a request was saving it and has not
been stored anew; `edits` are the requests that stored BASELINE. `alone` and
`shaky` in a thread's record serve to maintain and to state these:
`shaky` says that the base was torn, half saved for the first time, or gone
when its assumptions were read.

**`OntologyProjection`.** `store` gives each scenario's results a version,
`graph` counts what the statements create. Object nodes carry the version they
were read in, with 0 for a scenario deleted between the list and its detail.
`CreateNodes` and `CreateRecords` are refused as a whole by unique constraints;
records whose key contains SQLite's row number clash only in the same version.
`ReadRows` comes after `CreateLinks`, because the rows are arguments evaluated
after `sync` has returned. `settled` observes that the last refresh met neither
another refresh nor a change. A save is one step here, from its first commit to
the start of its refresh: between its five commits, which `ScenarioService`
takes apart, the graph counts as not settled.

**`DepreciationRules`, `CustomerWorkbook`, `WhatIfForecast`.** Money is a whole
number of the smallest unit, `Money(n, d)` the rounding of `domain/models.py`
to it, so rounding happens where the code rounds and nowhere else. Months are
integers. `todo` is the agenda of `_run_forecast`: reconstructed months
backwards per asset, the ledger month, then each single asset's months, the
pools' months, the planned assets' months; `carry` is what a loop of the code
keeps from month to month. A horizon that does not have the ledger month inside
(`SpansSnapshot` false) is forecast from its first month on, with nothing
reconstructed, and the ledger lines are still added. `request` is applied by
`Applied` in one step, as `_apply_customer_assumptions` is before anything is
stored; an assumption that raises `ValueError` refuses the request, and so does
a start rule that `first_depreciation_month` does not know (`Unsupported`),
which the engine finds only when it calculates. A new asset gets the number the
page made for it, which is new each time. Every policy of a code gets the same
identifier for each company and the last one in a Python set's order stays:
`owner` is any of the companies. `Store` keeps lines, summaries, changes and
attributions.

**`ResultViews`** has no variables: each operator is one query or one loop over
lines, in the grouping and the rounding of the code.

**`ReversePlanning`** extends the forecast: `plan` is a validated goal, `group`
the accounting actions or, after them, one operating parameter; `prepared` are
the options with their measured effects, `found` the recommendations.
`TakeRecommendation` is the request that makes a scenario of one (`taken`): the
assumptions inherited from the plan's scenario and those of the recommendation,
which the forecast then calculates job by job. `StraightAssets` sorts by charge
and, where charges are equal, by ledger order, as Python's stable sort does.
`Simulate` computes the planned month for a list of assumptions directly, as
the trials of the code run the engine without storing; `Solutions` is what
CP-SAT may return given the objectives it had time for (`Searches`): the best
for these, or any solution, or none. Calibration and correction are the
bisections of the code on whole units with at most `Halvings` steps. A goal is
taken wherever the horizon lies. `LedgerBeside` is what a stored result holds in
a month beyond the forecast: the ledger's lines, when the horizon begins with
the ledger month; trials do not see them. An asset supports what the
graph says of its code, and everything when the graph says nothing of any
eligible asset (`Supports`).

**`ReverseDialogue`, `KnowledgeAgent`, `QuestionDialogue`.** A request is
opened, understood, executed and recorded in steps of its own, as the calls of
a model lie between them. `conv[r]` is the state object that request `r` made,
`kept` the keys of `_items`: a request goes on working on an object that is
pruned. `cut` and `shed` observe that. A recommendation is its goal and its
number, the goal standing for all that was computed for it. What the model
understands is any plan of the validated form; its refusals, the gateway's and
its own failures are choices. A chat call is a model value with a tool, items,
and follow-up calls; a draft is recorded by the call that saved it. The call
that plans reverse depreciation is a request of its own (`Planners`):
`AskPlanner` makes it, `WaitForPlanner` takes the steps a page's request takes
(open, understand, execute, record or fail), with all others in between, and
`Return` ends it when the tool returns.

## 4. The runs

Passing runs:

| Run | Checks | Shows |
|---|---|---|
| `Bootstrap.cfg` | `TypeOK`, `ServesCurrentBaseline`, `SnapshotsNeverMix`, `ScenariosSurviveRestarts`, `ImplementsLedger` | whatever was interrupted, edited or changed while the service was down, it serves a complete baseline of the current workbooks and rules, keeps scenarios as long as it may, and refines the ledger |
| `Concurrent.cfg` | `TypeOK`, `BaselineIntact`, `StoredWhole`, `LeftOpenIsConfined`, `NoOrphans`, `DerivesFromStored` | two threads, every request and all faults: damage stays with the scenarios whose own save was disturbed, BASELINE holds what a rebuild or an edit wrote; rows are orphaned only by a deletion between two saves of the same scenario, inherited assumptions lost only with an unsettled or vanishing base |
| `Projection.cfg` | `TypeOK`, `RefreshRepairs`, `CalmReceiptsAreRight`, `ComesBack` | an undisturbed refresh gives an exact copy, whatever it found; receipts are right while the graph is settled; no constraint ever blocks a start |
| `Forecast.cfg` | `TypeOK`, `LifeEndsAtResidual`, `PoolChargesItsTotal`, `ChainUnbroken`, `StaysWithinCost`, `OneLineAMonth`, `OnlyTargetsMove`, `DifferencesAgree`, `AttributionsFollowChanges`, `ViewsAgree`, `BalancesOnlyFall` | amounts: life ends at the residual value, pools charge their totals, months join, each asset has its one line a month, nothing falls below zero by more than impairments and rounding; scenarios: only what is reached moves, differences agree however they are told; results: nine views, one total |
| `Planning.cfg` | `RecommendationDelivers`, `TrialsStartAtBaseline`, `FallbackOnlyWhenNeeded`, `OnlyFirstIsCorrected` | the scenario made of a recommendation is accepted and charges what was shown, and beyond that only what the ledger adds beside the forecast; operating parameters are a fallback; shown and assumed parameters differ only where a correction made them |
| `Assistants.cfg` | `NoScenarioIsMixed`, `NumbersMeanWhatWasShown`, `RecentConversationsAreKept`, `DraftsAreAnnounced`, `TypeOK`, `QuestionsAreSettled` | overlapping requests, expiry, late replies and failing models leave conversations to their scenario, numbers to what is shown, drafts announced, no question unanswered |

Runs that end in a counterexample, see section 6: `BootstrapHotReplace.cfg`,
`CancelRace.cfg`, `IdReuse.cfg`, `ConfirmRetry.cfg`, `ProjectionRace.cfg`,
`ProjectionGap.cfg`.

Bounds. Every bound is a constant and appears in the guard of one action.

- `Bootstrap`: two editions of workbooks and of rules let a change be undone,
  which is where a decision by comparison could go wrong; three changes and
  three stops allow an interrupted rebuild, a change, and an interrupted
  rebuild of that; two scenarios can stand next to each other.
- `Concurrent`: two threads and three requests. A save is disturbed by one
  other request; the third can observe or build on the damage. Three
  identifiers cannot run out with three requests, so `Allocate` is never
  blocked by `MaxId`. One restart. Threads are symmetric.
- `CancelRace`, `IdReuse`, `ConfirmRetry`: the fewest requests of the kinds
  concerned, so that the counterexample shows nothing else.
- `Projection`: two threads with two changes, so that two refreshes overlap
  and a third of a restart meets what they left; BASELINE and one scenario; one
  failed statement or stop; one reader. No symmetry, as the run checks a
  liveness property.

- `Forecast`: three workbooks. `Field` and `Group`: six months around the
  ledger month with a change of year; all three methods, pools by organization
  and by company, an asset with a ledger impairment that is behind its
  schedule, idle and missing driver months, an asset without a
  known code, one without a date, one put into service during the history.
  `Long`: one asset over 65 months that begin with the ledger month, long
  enough for a planned asset charged its rounded share to fall below zero.
  Lives of one year end inside the horizon. Sixteen assumptions cover every
  template, a history month, values that are refused, a start rule nobody
  knows; two at a time make changes meet on one asset and in one pool.
  `ReadLimit` is 50 lines: above those of `Field` and `Group`, below those of
  `Long`.
- `Planning`: five assets, eleven goals: reachable, beyond reach, up, down,
  zero, in the past, the ledger month, a scope whose code is not
  explained; on the baseline and on two scenarios. Two workbooks: `Mine` with
  four months around the ledger month, `Late` with two that begin with it.
  `PoolMinimum` is 1 instead of 8, so that the choice by size drops
  an asset when there are two. `Halvings` 9 divides every range of whole units
  there is, as 16 and 28 steps are meant to for hundredths. `Searches`
  {0, 1, 5}: no time at all, time for the first objective, time for all five.
  Of the ways to divide a total among actions those are taken that put all
  actions but one at an end of their range; totals of a search that ran out of
  time are the least and the greatest.
- `Assistants`: one of five loads at a time, so that each pair that shares
  state meets: two questions with time and a change of scenario, three without,
  the chat alone, the chat beside a question while time passes, two wide-table
  questions. The time to live is one tick of two. Two calls a round instead of
  four and three items of evidence instead of 24 make both limits bite with
  five calls; four rounds are the code's.

The proofs of section 5 lift every safety property of the passing runs to any
number of threads, scenarios, requests and faults, any workbooks, assumptions
and goals, and any answer of the optimizer and of the language model.

Deadlock is checked in every run but the last three, which are about finite
work: a stored or refused scenario and a settled question are ends. `Quiet` in
`ScenarioService` and `OntologyProjection` is the state in which clients have
nothing more to ask.
`Allocate` has no step when more than `MaxId` identifiers would be needed; with
`MaxId` at least `MaxRequests` that cannot happen.

Fairness is assumed for liveness only. `OntologyProjection!FairSpec` asks that
some refresh makes a step as long as one can: the threads take no locks across
calls, and an operator or supervisor starts a stopped service again. Stops and
faults are bounded, so it says that a service which is left alone for long
enough comes back. No request is assumed to arrive.
`Assistants!Fairness` asks that the thread of each request goes on: calls of
the model, of Neo4j and of the optimizer have timeouts and return or raise, and
a thread waits for no other one. A page whose connection is lost, or whose user
stops, is served to the point where the write fails. Nothing is assumed of the
page itself.

## 5. The proofs

TLAPS checks them for every value of the constants, under the assumptions
named in the modules: bounds are natural numbers, `None` is no other value,
`Workers` of the projection is finite and not empty.

- `BootstrapProofs`: `TypeCorrect`, `BaselineIsCurrent`
  (`ServesCurrentBaseline`), `OneSnapshot` (`SnapshotsNeverMix`),
  `RestartsKeepScenarios` (`ScenariosSurviveRestarts`) and `Refinement`
  (`ImplementsLedger`). All but the first assume `HotReplace = FALSE`:
  workbooks are replaced only while no process runs. The invariant `Inv` says,
  for each step of start-up, which tables are already filled, and from what:
  `ServesCurrentBaseline` alone is not inductive because it is silent until
  `pc = "serving"`. Its core is that a stored version (`db.metadata`) implies
  complete results of the stored fingerprint, as the version is stored last and
  removed first, together with everything else. An edit of BASELINE keeps it:
  the process that takes the request serves a current baseline, so its rows,
  workload sheet and rules are the current ones.
- `ScenarioServiceProofs`: for any number of threads `TypeCorrect`,
  `UndisturbedIsWhole` (`StoredWhole`), `LeftOpenConfined`
  (`LeftOpenIsConfined`), `BaselineStaysIntact` (`BaselineIntact`, whatever
  clients send), `NoOrphansStored` (`NoOrphans`) and `ComputedFromStored`
  (`DerivesFromStored`). `WholeInv` adds what holds in the middle of
  a save that is still alone: the tables it has written so far hold its tag, in
  memory and on disk (`WrittenSoFar`), and no other save works on the same
  scenario (`AloneIsAlone`). Steps fall into those
  that leave tables, `torn` and writing threads alone (`RequestIsCalm`,
  `HandleIsCalm`), the saves, deletes and restarts, each with its own lemma.
  `BaselineInv` says which requests work under BASELINE's identifier
  (`WorkerIds`). `StoreInv` adds that the disk, which a restart reads, has
  no orphans either (`NoOrphansOnDisk`), that a settled scenario has its
  assumptions (`SettledHaveAssumptions`), and what a thread knows of the
  scenario it saves and of the base it computes from (`ThreadKnows`).
- `OntologyProjectionProofs`: `TypeCorrect`, `RefreshIsRepair`
  (`RefreshRepairs`), `CalmReceipts` (`CalmReceiptsAreRight`). `Inv` says what
  a refresh that is alone has achieved before each step: what it has read is
  what is stored, and which parts of the graph are already the copy. Since the
  deletes come first, nothing is assumed of the graph it started from. For the
  receipts, a reader whose question began in a settled graph has found records
  exactly if the scenario is stored, and stays calm only as long as the graph
  does.

- `AssistantsProofs`: `TypesHold` (`TypeOK`), `ScenariosStayApart`
  (`NoScenarioIsMixed`), `RecentOnesStay` (`RecentConversationsAreKept`), all
  from `AlwaysIInv`. Assumed: `Baseline` is a scenario and `None` none, requests
  of the chat and of reverse planning are different values, ticks and limits
  are natural numbers, at least one round. None of the properties is inductive:
  `NoScenarioIsMixed` speaks of finished answers, and `IInv` adds that a request
  under way and its conversation are about one scenario (`SameScenario`), that
  a conversation is made once, by a request asked before (`MadeOnce`), so that
  the scenario of a posed goal never changes, and that a conversation outside
  its store is past its time or was cut from under a request (`KeptOrPast`,
  `TalksOrPast`). One lemma per action of each dialogue; the chat's steps fall
  into those that touch no conversation (`QuietInv`) and those of its planner,
  which are a page's own steps taken by another request: between any two of
  them others may prune the conversation it works on, which is then `cut`.

  `DraftsAnnounced` (`DraftsAreAnnounced`) goes through the evidence of a chat:
  `AgentInv` says that the call that saved a draft is
  among the executed ones and, as long as the evidence has room, among its
  items; `Merged`, a recursive function, drops none while there is room. It
  needs that the result of a draft tool shows its draft (`DraftsAreItems`).
  `NumbersAreWhatWasShown` (`NumbersMeanWhatWasShown`) rests on `PageInv`: while
  a page asks one question at a time, the conversation it holds, the reply in
  flight and what is shown agree, through every overlap with requests of other
  pages, expiry and pruning.
- `InductionLemmas`: induction over numbers, up to a bound, over finite
  subsets, and least and greatest members. The library's induction theorems
  take an operator as a parameter and cannot be used; these take the *set* of
  the values for which a statement holds, so that a statement about a recursive
  function is a statement about `{n \in Nat : ...}`.
- `DepreciationProofs`: what `DepreciationRules` and `CustomerWorkbook` give
  for every input. The cards are the rows that are not excluded, in order
  (`LoadAssets` is a recursion over rows); a rounded share of at most `o` is at
  most `o` (`MoneyWithin`); the ends of a life, the law each method's month
  obeys, `WorkloadAmount` between zero and the balance; sums over finite sets
  of numbers (`SumOfNumbers`, `SumWith`, `SumAtMost`, `SumRenamed`,
  `SumByKeys`); `SharesAddUp`: rounded, capped shares of a pool miss its total
  by at most half a unit for each member; and what each query of `ResultViews`
  adds up to, whatever set of lines it is asked about (`GroupingsAddUp`,
  `TableIs`, `TopsAddUp`, `CardsAddUp`, `PagesAreRead`, `ComparisonAddsUp`).
- `WhatIfForecastProofs`, for every set of workbooks and assumptions:
  `TypesHold` (`TypeOK`), `BalancesFall` (`BalancesOnlyFall`),
  `LivesEndAtResidual` (`LifeEndsAtResidual`), `OneLineEachMonth`
  (`OneLineAMonth`), `MonthsJoinUp` (`ChainUnbroken`), `AssetsStayWithinCost`
  (`StaysWithinCost`), `PoolsChargeTheirTotal` (`PoolChargesItsTotal`). `BalancesFall`
  is about the balances a loop carries, `AssetsStayWithinCost` about the
  amounts of the lines. The argument has two levels. `ForecastInv` says that the input is what some
  assumptions make of the book (`Applied` is a fold; cards keep their number
  and place, whatever is assumed of them), that what is to be done is part of
  what is due, that carried balances are those of the input's assets and that
  lines fit their cards. `AgendaInv` says that each job due is still to be done
  or has its line, once. On top of these, `ChainInv` and `StayInv` say what the
  balance carried for an asset is: where its last month ended, and nothing it
  could not be worth. `ResidualInv` and `PoolInv` need no carried balance: the
  one is about each line by itself, the other says that the lines of the pools
  in a month are what one set of balances gives.

  Four more are about results that are stored and compared:
  `ScenariosMoveTargetsOnly` (`OnlyTargetsMove`), `DifferencesFollowChanges`
  (`AttributionsFollowChanges`), `EveryViewAddsUp` (`ViewsAgree`) and
  `ScenariosTellOneDifference` (`DifferencesAgree`). They compare two forecasts
  that were computed at different times, by jobs in an order of their own. The
  argument turns each into a function of its input: the *trail* of an asset
  (`Trail`) is what its months find one after the other, a line is the one its
  trail leads to (`LineDue`), and `LedgerInv` says that every line written is
  that line and every balance carried is what the trail says comes next. With
  `AgendaInv`, a finished forecast is `DirectLines(input)` and nothing else
  (`LinesAreDirect`). `ResultInv` says so of the store: the baseline is
  `DirectLines(BaselineInput)`, the scenario `DirectLines(Applied(request))`
  with its summaries and attributions. What is left is a comparison of two
  inputs: `ChangesTell` says that whatever is not as in the book is the target
  of a change, so the trail of an asset no change reaches is the baseline's.
  `BaselineFits` says that the stored lines still fit their cards, which the
  views need.
- `ReversePlanningProofs`: `FallbackIsLastResort` (`FallbackOnlyWhenNeeded`)
  and `CorrectionIsConfined` (`OnlyFirstIsCorrected`), whatever CP-SAT returns
  and whatever a bisection finds. `PlanInv` counts: in the accounting group
  there are as many recommendations as patterns that are ruled out, all
  different; in the operating group at most one, after accounting ones that all
  miss. Trials depend on the book alone, which no step changes (`SameTrial`).

  `TrialsBeginAtTheStore` (`TrialsStartAtBaseline`) and
  `RecommendationsDeliver` (`RecommendationDelivers`) relate the two ways the
  system computes a month: the engine run of a trial, which stores nothing, and
  the scenario that is stored. `ResultIsTrial` is the bridge: what
  `DirectLines` of an input adds up to in the plan's month and scope is what
  `Simulate` computes directly, and `LedgerBeside`, the ledger's lines where
  they stand beside the forecast. Its first half (`TrialIsTotal`, about the
  lines a trial sees) is proved method by method from the trails of
  `WhatIfForecastProofs` (reconstructed, single, pooled, planned). `TrialInv`
  says that, until a recommendation is taken, the forecast beside the plan
  keeps its invariants and the plan's baseline is what its inherited
  assumptions give. `DeliverInv` says that the options of a group are measured
  in whole numbers and are each accepted after the inherited assumptions
  (`ItemSound`); that a recommendation was measured with exactly the
  assumptions it holds (`Supposes`); and that the scenario made of it requests
  those and no others. That the scenario is never refused does not follow from
  the trial of each action alone, as assumptions are applied one after the
  other: what `Applied` refuses depends, besides the assumption, on the
  numbers, costs and ledger balances of the cards (`Allowed`), which no
  assumption changes, so an action that is accepted after the inherited ones is
  accepted after any others as well (`AllowedOnAny`). The amount of an
  impairment stays within what is available because every value a bisection or
  a correction tries lies between the ends of its option (`EffectsInRange`,
  `SearchFits`).

What the forecast's theorems assume, and why:

- `WorkbooksAssumption`, `AssumptionsAssumption`, `NoneAssumption`,
  `NamesAssumption`, `GoalsAssumption`: the shape of a parsed workbook (numbers
  in number columns, asset numbers unique as the primary key demands), of an
  assumption and of a goal as the client sends them; identifiers of new assets
  do not clash with those of the ledger. Names of companies, blocks and
  organizations are numbers in the model, so that targets can be compared and
  sorted.
- Nothing about the *quality* of the ledger. `validation/rules.py:99` asks for
  positive costs, and `_run_forecast` does not validate a customer's workbook
  (`demo_server.py:4495`). Theorems that need more name it:
  `LivesEndAtResidual` that costs are not negative and residual rates are
  percentages (`SoundLedger`); `MonthsJoinUp` that net values are what the
  costs leave (`BalancedLedger`); `AssetsStayWithinCost` both and that a
  month's depreciation is part of the accumulated one (`DepreciatedLedger`);
  `OneLineEachMonth` that the workbook gives a code (`CodesGiven`: with an
  empty code sheet no asset has a policy); `ScenariosTellOneDifference` that
  the horizon goes beyond the ledger month and some card has a policy
  (`SomethingToForecast`: otherwise there is no month to compare).
  `MCWhatIfForecast` asserts that its workbooks satisfy all of them
  (`TheoremsApply`).
- `AssetsStayWithinCost` bounds what it cannot exclude, as the code has no cap
  in these cases: an impairment is compared with the ledger card alone; a
  straight-line asset with a ledger impairment that is behind its schedule
  begins the forecast below zero when the schedule alone exceeds cost less
  impairment; a planned asset is charged its rounded monthly share as long as
  it lives (cost 70 over 120 months is one unit a month). A card falls below
  zero by no more than it was impaired, a planned asset by half a unit for each
  month charged. All of these happen in the run `Forecast`.

Only model-checked: `ComesBack` of the projection and `QuestionsAreSettled`
(liveness and fairness are beyond the prover). Not stated at all: how far the
sum of effects measured one by one misses the effect of a combination, and
whether a discarded combination would have come closer than one that was
corrected. For suitable amounts it does, and the docs do not promise otherwise.

## 6. What the counterexamples show

- `IdReuse` / `CreateIsFresh`. Create twice, delete the first, create again:
  the count plus one is the number of the scenario that is left, and the
  creation replaces it (`demo_server.py:4136`).
- `ConfirmRetry` / `ConfirmOnce`. A confirmation stores its scenario, then
  Neo4j fails; the draft is still PENDING and confirming it again stores a
  second scenario (`demo_server.py:1522-1533`).
- `CancelRace` / `CancelledMadeNothing`. A draft is cancelled and confirmed at
  once: both requests read PENDING, the scenario is stored, and the draft is
  CANCELLED; the page is told that no scenario was created
  (`demo_server.py:1537-1542`).
- `ProjectionRace` / `ObjectsFollowStore`. Two overlapping refreshes leave a
  graph without the objects of a stored scenario, or with outdated ones, until
  the next undisturbed refresh.
- `ProjectionGap` / `NoMatchIsAbsence`. A question asked while records are
  deleted and not yet created again is answered with a confirmed absence.
- `BootstrapHotReplace` / `BaselineFollowsWorkbooks`. Workbooks replaced after
  a process has parsed them and before it stores their fingerprint: the
  fingerprint of the new files stands next to results of the old rows, and the
  restart that `docs/ASSUMPTIONS_AND_CONFIRMATIONS.md:5` prescribes does not
  rebuild.

Observations without a run of their own, met while modelling:

- `POST /api/scenarios/BASELINE/assumptions` recomputes the baseline itself,
  with assumptions, and later starts serve it; nothing refuses it.
- A deletion between two saves of a request leaves rows without a scenario
  (`NoOrphans` excepts it), and one between the look-up of a base and the
  reading of its assumptions makes a derived scenario without them
  (`DerivesFromStored` excepts it).
- Impairments are compared with the ledger card only: with two of them, or
  after months of depletion, a production asset closes below zero, and an
  impairment of a pool member is recorded without effect on its balance
  (`StaysWithinCost` says how far below zero).
- A straight-line asset behind its schedule jumps at the hand-over from the
  ledger month to the first forecast month (`ChainUnbroken` says "at most" for
  them); the accelerated life of an asset that is already older writes it off
  at once and rewrites its reconstructed months.
- A horizon that begins with the ledger month calculates that month beside its
  ledger line: stored results count it twice (`OneLineAMonth`), trials of
  reverse planning once, so that a plan for that month starts from a baseline
  its own trials do not have (`TrialsStartAtBaseline`) and the scenario made of
  it charges more than shown (`RecommendationDelivers`). A block without a row
  for a month has reserves of zero and is depleted in full.
- The baseline of the repository's workbooks has 279 assets and 36 months,
  10044 lines, more than the 10000 `_forecast_objects` reads.
- What a driver does to the assets of a block or pool is attributed as
  `UNCLASSIFIED`, because the change names the block.
- A correction replaces amounts without rounding them to the unit shown
  (`OnlyFirstIsCorrected` bounds where), and a bisection of 16 or 28 steps can
  end short of it; a solution is labelled optimal although no time was left for
  the later objectives. A corrected recommendation can be farther from the
  target than a combination that was discarded, and a later one closer than an
  earlier one: recommendations are not sorted again after the correction.
- A plan for a month before the ledger month can recommend a production driver
  of the past; one for a ledger month inside the horizon never finds anything.
- `plan_reverse_depreciation` passes no conversation: "recommendation 2" asked
  in the chat is always sent back for clarification, and each call leaves a
  conversation nobody can continue. After an explanation of number 2 the
  conversation holds number 2 alone, and "recommendation 1" means it.
- The Enter key of the reverse question is not blocked while a question is
  pending, the wide-table's is: `page.steady` in `NumbersMeanWhatWasShown`
  excepts pages that ask two at a time.
- A company whose policies were replaced by another one's (same identifier)
  keeps ledger lines only: its assets are no longer calculated.
- A pool whose month has a negative total charges nothing, not a negative
  amount (`PoolChargesItsTotal` is stated for totals of at least zero in this
  sense).
- A question that fails or is stopped after a tool saved a draft leaves the
  draft PENDING and unannounced until it expires; so does an answer whose
  evidence is full (`DraftsAreAnnounced` excepts both).

## 7. What is not modelled, and why

In `Bootstrap`, `ScenarioService` and `OntologyProjection` results are
represented by what they were computed from; amounts are the business of
`WhatIfForecast`. Texts, labels, narratives, charts and rendering:
presentation. Parsing of workbooks: text processing. The language model:
arbitrary, and outside the boundary the gateway draws. The turns of a
conversation, which only the model reads. The rankings and templates of the
wide-table answers. `_simulate_candidates` (`qa/reverse_planning.py:470-640`),
which no caller reaches since `tools.optimize` is always set. `validation/` and
`scenario/service.py`, which the service with its customer workbooks does not
run. The in-memory ontology store: a test double. GET
routes: they read only; what a reader sees half-way through a save follows from
the states of `ScenarioService`. Failures of SQLite other than the duplicate
key (disk full, locked file): the code treats none of them. `PROJECT.json`
gives the reason per component.

## 8. Plan

Done: start-up, requests, projection, the dialogues, the forecast, its stored
results and views, and reverse planning, model-checked, and every safety
property of the passing runs proved.

Left, most important first:

1. A bound on how far a combination of actions can miss the sum of their
   measured effects (a unit for each month that is rounded, the shares of a
   pool that is capped), from which a bound on the gap of a recommendation
   would follow for every workbook.
2. The gateway's anchors for assets and objects, `reverse_plan` drafts as steps
   between a chat and a scenario.
3. The hazards without a property: drafts that outlive a rebuild, the status of
   a confirmation's receipt, the order assumptions are read back in, lines
   beyond the read limit, drafts lost to full evidence.
