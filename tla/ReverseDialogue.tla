--------------------------- MODULE ReverseDialogue ---------------------------
(***************************************************************************)
(* The conversations of reverse planning (qa/reverse_planning.py): a page  *)
(* poses a target, is shown numbered recommendations, and asks about them  *)
(* by number.  A request holds the conversation object itself while the    *)
(* model and the planner work, without the lock of the store.              *)
(*                                                                         *)
(* A target is represented by the request that posed it, a recommendation  *)
(* by that request and the number it was given, and a conversation by the  *)
(* request that opened it.  The last ten turns are kept for the model only *)
(* and are left out.                                                       *)
(***************************************************************************)
EXTENDS Sessions, FiniteSets, SequencesExt

CONSTANTS
    Asks,          \* requests to /api/reverse-planning/question
    Openers,       \* Asks, and the requests other services make here
    Selections,    \* sequences of numbers a question or the model may name
    MaxProposals   \* bound: recommendations for one target

ASSUME ReverseAssumption ==
    /\ MaxProposals \in Nat /\ Asks \subseteq Openers /\ None \notin Openers
    /\ Selections \subseteq Seq(Int)

VARIABLES
    conv,    \* the conversation each opener made, kept or not
    kept,    \* ReverseConversationStore._items
    job,     \* what each request has reached
    page,    \* the page of web/app.js
    cut      \* observed: conversations pruned while a request worked on them

reverseVars == <<conv, kept, job, page, cut>>

-----------------------------------------------------------------------------
(* Data *)

NoPlan == [goal |-> None, numbers |-> <<>>]

Fresh(s) ==
    [scenario |-> s, plan |-> NoPlan, recs |-> <<>>, updated |-> now]

NotMade == [scenario |-> None, plan |-> NoPlan, recs |-> <<>>, updated |-> 0]

Idle ==
    [step |-> "idle", scenario |-> None, held |-> None, conv |-> None,
     plan |-> NoPlan, recs |-> <<>>, refused |-> FALSE]

\* What is left of a request when the page is done with it.
Closed(r, step) ==
    [Idle EXCEPT !.step = step, !.scenario = job[r].scenario]

\* What plan_reverse may make of a question: a complete target; a reference to
\* numbers; a clarification, of a question that spells numbers or of one that
\* does not; anything unusable (the template's clarification, an unknown intent,
\* another scenario, a target with a part missing).
Understandings ==
    [intent : {"reverse_target", "unusable"}, numbers : {<<>>}]
        \cup [intent : {"reference", "clarification"}, numbers : Selections]

\* The loop of _recommendation_numbers: a number that is not allowed or was
\* selected before is passed over.
Once(numbers, allowed) ==
    LET selected[i \in 0..Len(numbers)] ==
            IF i = 0 THEN <<>>
            ELSE LET before == selected[i - 1]
                 IN  IF numbers[i] \in allowed \ ToSet(before)
                     THEN Append(before, numbers[i]) ELSE before
    IN  selected[Len(numbers)]

\* _infer_recommendation_reference: all the numbers or none
Inferred(numbers, recs) ==
    IF \A i \in DOMAIN numbers : numbers[i] <= Len(recs)
    THEN Once(numbers, ToSet(numbers)) ELSE <<>>

\* _recommendation_numbers: numbers out of range are dropped
Named(numbers, recs) == Once(numbers, 1..Len(recs))

-----------------------------------------------------------------------------
(* The conversation store *)

Mentioned(c) == c \in kept /\ ~Expired(conv[c].updated)

\* MUTANT: the scenario is not compared.
ContinuesAnyScenario(held, s) == held # None /\ Mentioned(held)

\* open, when the identifier sent still names a conversation of the scenario
Continues(held, s) ==
    held # None /\ Mentioned(held) /\ conv[held].scenario = s

Working(c) ==
    {r \in Openers :
        job[r].conv = c /\ job[r].step \in {"opened", "planned", "drawn"}}

\* MUTANT: conversations are pruned one tick early.
UnexpiredEarly(opener) ==
    {c \in kept \cup {opener} : c = opener \/ now - conv[c].updated < Ttl}

\* _prune, with the conversation just opened among the items
Unexpired(opener) ==
    {c \in kept \cup {opener} : c = opener \/ ~Expired(conv[c].updated)}

\* open, when it makes a new conversation
OpenNew(opener, s) ==
    /\ conv' = [conv EXCEPT ![opener] = Fresh(s)]
    /\ kept' = Unexpired(opener)
    /\ cut' = cut \cup {c \in kept \ Unexpired(opener) : Working(c) # {}}

-----------------------------------------------------------------------------
(* The page *)

InFlight == {r \in Asks : job[r].step \notin {"idle", "shown"}}

\* askReversePlanning: the button is disabled while a request is out, the
\* Enter key is not, so a page may ask again before it was answered.
Ask(r) ==
    /\ r \in load.requests /\ job[r].step = "idle"
    /\ Cardinality(InFlight) < load.pending
    /\ job' = [job EXCEPT ![r] =
                  [Idle EXCEPT !.step = "asked", !.scenario = scenario,
                               !.held = page.held]]
    /\ page' = [page EXCEPT !.steady = @ /\ InFlight = {}]
    /\ UNCHANGED <<conv, kept, cut>>

\* The scenario list: a change forgets the conversation.
ForgetReverse ==
    page' = [page EXCEPT !.held = None] /\ UNCHANGED <<conv, kept, job, cut>>

\* A reply arrives; a clarification shows no recommendations, an error only
\* its text.
Receive(r) ==
    /\ job[r].step \in {"answered", "failed"}
    /\ job' = [job EXCEPT ![r] = Closed(r, "shown")]
    /\ page' =
        IF job[r].step = "failed" THEN page
        ELSE [page EXCEPT !.held = job[r].conv,
                          !.shown = IF job[r].refused THEN @ ELSE job[r].recs]
    /\ UNCHANGED <<conv, kept, cut>>

\* The connection breaks before the reply arrives.
Lose(r) ==
    /\ job[r].step \in {"answered", "failed"}
    /\ job' = [job EXCEPT ![r] = Closed(r, "shown")]
    /\ page' = [page EXCEPT !.steady = FALSE]
    /\ UNCHANGED <<conv, kept, cut>>

-----------------------------------------------------------------------------
(* ReversePlanningSkill.answer *)

Open(r) ==
    /\ job[r].step = "asked"
    /\ \/ /\ Continues(job[r].held, job[r].scenario)
          /\ job' = [job EXCEPT ![r].step = "opened", ![r].held = None,
                                    ![r].conv = job[r].held]
          /\ UNCHANGED <<conv, kept, cut>>
       \/ /\ ~Continues(job[r].held, job[r].scenario)
          /\ job' = [job EXCEPT ![r].step = "opened", ![r].held = None,
                                    ![r].conv = r]
          /\ OpenNew(r, job[r].scenario)
    /\ UNCHANGED page

\* _validate_plan: the numbers a reference selects in the conversation, and
\* whether the plan is a new target
SelectedBy(r, raw) ==
    LET recs == conv[job[r].conv].recs
    IN  IF raw.intent = "clarification" THEN Inferred(raw.numbers, recs)
        ELSE Named(raw.numbers, recs)

\* The model's plan arrives and is validated against the conversation as it
\* is now.  A refusal reads what it will write back.
Understand(r) ==
    /\ job[r].step = "opened"
    /\ \E raw \in Understandings :
           LET numbers == SelectedBy(r, raw)
               c == conv[job[r].conv]
           IN  \/ /\ raw.intent = "reverse_target"
                  /\ job' = [job EXCEPT ![r].step = "planned",
                                ![r].plan = [goal |-> r, numbers |-> <<>>]]
               \/ /\ raw.intent # "reverse_target" /\ numbers # <<>>
                  /\ job' = [job EXCEPT ![r].step = "planned",
                                ![r].plan = [c.plan EXCEPT !.numbers = numbers]]
               \/ /\ raw.intent # "reverse_target" /\ numbers = <<>>
                  /\ job' = [job EXCEPT ![r].step = "drawn", ![r].refused = TRUE,
                                ![r].plan = c.plan, ![r].recs = c.recs]
    /\ UNCHANGED <<conv, kept, page, cut>>

\* The optimizer's answer to a target, numbered from one.
Numbered(r, n) == [i \in 1..n |-> [goal |-> r, number |-> i]]

\* MUTANT: the list is filtered by the numbers, so their order is lost.
PickedInOrder(recs, numbers) ==
    LET IsNamed(rec) == \E i \in DOMAIN numbers : recs[numbers[i]] = rec
    IN  SelectSeq(recs, IsNamed)

Picked(recs, numbers) == [i \in DOMAIN numbers |-> recs[numbers[i]]]

\* _execute_plan: a reference reads the conversation again; a number that is
\* no longer there is an IndexError.
Execute(r) ==
    /\ job[r].step = "planned"
    /\ LET numbers == job[r].plan.numbers
           recs == conv[job[r].conv].recs
       IN  \/ /\ numbers = <<>>
              /\ \E n \in 0..MaxProposals :
                     job' = [job EXCEPT ![r].step = "drawn",
                                        ![r].recs = Numbered(r, n)]
           \/ /\ numbers # <<>>
              /\ \A i \in DOMAIN numbers : numbers[i] \in DOMAIN recs
              /\ job' = [job EXCEPT ![r].step = "drawn",
                            ![r].recs = Picked(recs, numbers)]
           \/ /\ \E i \in DOMAIN numbers : numbers[i] \notin DOMAIN recs
              /\ job' = [job EXCEPT ![r] = Closed(r, "failed")]
    /\ UNCHANGED <<conv, kept, page, cut>>

\* An exception of the model, of a tool or of the evidence gateway: the
\* conversation stays as it is.
Fail(r) ==
    /\ \/ job[r].step \in {"opened", "planned"}
       \/ job[r].step = "drawn" /\ ~job[r].refused
    /\ job' = [job EXCEPT ![r] = Closed(r, "failed")]
    /\ UNCHANGED <<conv, kept, page, cut>>

\* ReverseConversationStore.record: the last writer wins.
Record(r) ==
    /\ job[r].step = "drawn"
    /\ conv' = [conv EXCEPT ![job[r].conv] =
                   [@ EXCEPT !.plan = job[r].plan, !.recs = job[r].recs,
                             !.updated = now]]
    /\ job' = [job EXCEPT ![r].step = "answered"]
    /\ UNCHANGED <<kept, page, cut>>

-----------------------------------------------------------------------------
(* Specification *)

InitReverse ==
    /\ conv = [c \in Openers |-> NotMade]
    /\ kept = {}
    /\ job = [r \in Openers |-> Idle]
    /\ page = [held |-> None, shown |-> <<>>, steady |-> TRUE]
    /\ cut = {}

Answer(r) == Open(r) \/ Understand(r) \/ Execute(r) \/ Fail(r) \/ Record(r)

Serve(r) == Answer(r) \/ Receive(r) \/ Lose(r)

NextReverse == \E r \in Asks : Ask(r) \/ Serve(r)
=============================================================================
