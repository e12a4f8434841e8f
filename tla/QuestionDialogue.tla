-------------------------- MODULE QuestionDialogue --------------------------
(***************************************************************************)
(* The conversations of the wide-table questions (qa/skill.py): a request  *)
(* continues its page's conversation, the model proposes a scope, the      *)
(* harness validates it against the page's own scope, reads, confirms, and *)
(* records what was resolved.                                              *)
(*                                                                         *)
(* The entities of a conversation are represented by the request that      *)
(* resolved them, a scope by its scenario and the department or category   *)
(* it is filtered by.                                                      *)
(***************************************************************************)
EXTENDS Sessions

CONSTANTS
    Questions,   \* requests to /api/wide-table/question
    Filters,     \* departments and categories of the entity catalog
    Unknown      \* a department or category that is in no catalog

VARIABLES
    talk,      \* the conversation each request opened, kept or not
    talks,     \* ConversationStore._items
    qa,        \* what each request has reached
    asking,    \* wideQuestionConversationId and wideQuestionPending
    shed       \* observed: conversations pruned while a request worked on them

questionVars == <<talk, talks, qa, asking, shed>>

-----------------------------------------------------------------------------
(* Data *)

Scope(s, filter) == [scenario |-> s, filter |-> filter]

NoTalk == [scope |-> Scope(None, None), entities |-> None, updated |-> 0]

Unasked ==
    [step |-> "idle", held |-> None, conv |-> None, dated |-> FALSE,
     page |-> Scope(None, None), scope |-> Scope(None, None), entities |-> None]

\* The model's question plan: it asks back, or it names a scope, an intent
\* and periods that are usable or not.
QuestionPlans ==
    [asksBack : {TRUE}, scope : {Scope(None, None)}, usable : {FALSE}]
        \cup [asksBack : {FALSE}, usable : BOOLEAN,
              scope : [scenario : Scenarios, filter : Filters \cup {None, Unknown}]]

\* A filter the plan leaves out is the page's.
Completed(scope, page) ==
    [scope EXCEPT !.filter = IF @ = None THEN page.filter ELSE @]

\* _validate_question_plan, with _infer_period_variance_plan for a question
\* that names a month and a change
Accepted(r, plan) ==
    \/ plan.asksBack /\ qa[r].dated
    \/ /\ ~plan.asksBack /\ plan.usable
       /\ plan.scope.scenario = qa[r].page.scenario
       /\ plan.scope.filter \in Filters \cup {None}

ScopeOf(r, plan) ==
    IF plan.asksBack THEN qa[r].page ELSE Completed(plan.scope, qa[r].page)

-----------------------------------------------------------------------------
(* The page and the conversation store *)

\* askWideQuestion waits for its answer before it sends another question.
AskQuestion(r) ==
    /\ r \in load.requests /\ qa[r].step = "idle" /\ ~asking.pending
    /\ \E dated \in BOOLEAN, filter \in Filters \cup {None} :
           qa' = [qa EXCEPT ![r] =
                     [Unasked EXCEPT !.step = "asked", !.held = asking.held,
                          !.dated = dated, !.page = Scope(scenario, filter)]]
    /\ asking' = [asking EXCEPT !.pending = TRUE]
    /\ UNCHANGED <<talk, talks, shed>>

ForgetQuestion ==
    asking' = [asking EXCEPT !.held = None] /\ UNCHANGED <<talk, talks, qa, shed>>

HeldOver(c) == c \in talks /\ ~Expired(talk[c].updated)

Unshed(r) == {c \in talks \cup {r} : c = r \/ ~Expired(talk[c].updated)}

Busy(c) == \E r \in Questions : qa[r].conv = c /\ qa[r].step \in {"opened", "read"}

\* ConversationStore.open: unlike reverse planning's it does not ask which
\* scenario the conversation was about.
OpenTalk(r) ==
    /\ qa[r].step = "asked"
    /\ LET goesOn == qa[r].held # None /\ HeldOver(qa[r].held)
       IN  \/ /\ goesOn
              /\ qa' = [qa EXCEPT ![r].step = "opened", ![r].conv = qa[r].held]
              /\ UNCHANGED <<talk, talks, shed>>
           \/ /\ ~goesOn
              /\ qa' = [qa EXCEPT ![r].step = "opened", ![r].conv = r]
              /\ talk' = [talk EXCEPT ![r] =
                             [NoTalk EXCEPT !.scope = qa[r].page, !.updated = now]]
              /\ talks' = Unshed(r)
              /\ shed' = shed \cup {c \in talks \ Unshed(r) : Busy(c)}
    /\ UNCHANGED asking

-----------------------------------------------------------------------------
(* WideTableQASkill.answer *)

\* The plan arrives and is validated.  A refusal records the page's scope
\* beside the entities the conversation already had.
UnderstandQuestion(r) ==
    /\ qa[r].step = "opened"
    /\ \E plan \in QuestionPlans :
           \/ /\ Accepted(r, plan)
              /\ qa' = [qa EXCEPT ![r].step = "read", ![r].entities = r,
                                  ![r].scope = ScopeOf(r, plan)]
           \/ /\ ~Accepted(r, plan)
              /\ qa' = [qa EXCEPT ![r].step = "read", ![r].scope = qa[r].page,
                                  ![r].entities = talk[qa[r].conv].entities]
    /\ UNCHANGED <<talk, talks, asking, shed>>

\* An exception while reading, confirming or composing; a refusal does none.
FailQuestion(r) ==
    /\ \/ qa[r].step = "opened"
       \/ qa[r].step = "read" /\ qa[r].entities = r
    /\ qa' = [qa EXCEPT ![r] = [Unasked EXCEPT !.step = "failed"]]
    /\ UNCHANGED <<talk, talks, asking, shed>>

RecordTalk(r) ==
    /\ qa[r].step = "read"
    /\ talk' = [talk EXCEPT ![qa[r].conv] =
                   [scope |-> qa[r].scope, entities |-> qa[r].entities,
                    updated |-> now]]
    /\ qa' = [qa EXCEPT ![r].step = "answered"]
    /\ UNCHANGED <<talks, asking, shed>>

ReceiveAnswer(r) ==
    /\ qa[r].step \in {"answered", "failed"}
    /\ qa' = [qa EXCEPT ![r] = [Unasked EXCEPT !.step = "shown"]]
    /\ asking' = [held |-> IF qa[r].step = "answered" THEN qa[r].conv
                           ELSE asking.held,
                  pending |-> FALSE]
    /\ UNCHANGED <<talk, talks, shed>>

-----------------------------------------------------------------------------
(* Specification *)

InitQuestions ==
    /\ talk = [r \in Questions |-> NoTalk]
    /\ talks = {}
    /\ qa = [r \in Questions |-> Unasked]
    /\ asking = [held |-> None, pending |-> FALSE]
    /\ shed = {}

AnswerQuestion(r) ==
    OpenTalk(r) \/ UnderstandQuestion(r) \/ FailQuestion(r) \/ RecordTalk(r)
        \/ ReceiveAnswer(r)

NextQuestions == \E r \in Questions : AskQuestion(r) \/ AnswerQuestion(r)
=============================================================================
