--------------------------- MODULE KnowledgeAgent ---------------------------
(***************************************************************************)
(* The knowledge chat (qa/knowledge_chat.py): rounds of tool calls chosen  *)
(* by the model, each result confirmed by the evidence gateway, then an    *)
(* answer streamed from the evidence.  Two tools write: drafts of what-if  *)
(* scenarios and of reverse plans are saved before their result is         *)
(* confirmed, and the page learns of them from the stream alone.  The      *)
(* reverse planner is asked as the page asks it, in the same process: it   *)
(* opens a conversation, calls the model twice and records, while other    *)
(* requests go on.                                                         *)
(*                                                                         *)
(* A call is its dedup key, tool and arguments; the items its result holds *)
(* are given by ItemsOf.                                                   *)
(***************************************************************************)
EXTENDS ReverseDialogue

CONSTANTS
    Chats,          \* requests to /api/knowledge-chat/stream
    Calls,          \* tool calls
    ToolOf,         \* the kind of each call: "read", "draft" or "reverse"
    ItemsOf,        \* the items of each call's result
    FollowUps,      \* calls added for the assets a result ranks
    Mandatory,      \* the plan a question of known form starts with
    Fallback,       \* the plan used after two unreadable ones
    MaxRounds,      \* rounds of planning, 4 in the code
    CallsPerRound,  \* calls taken of one plan, 4 in the code
    EvidenceLimit   \* items the evidence holds, 24 in the code

ASSUME AgentAssumption ==
    /\ MaxRounds \in Nat \ {0} /\ CallsPerRound \in Nat /\ EvidenceLimit \in Nat
    /\ ToolOf \in [Calls -> {"read", "draft", "reverse"}]
    /\ FollowUps \in [Calls -> Seq(Calls)]
    /\ {Mandatory, Fallback} \cup UNION {l.plans : l \in Loads} \subseteq Seq(Calls)
    /\ DOMAIN ItemsOf = Calls
    /\ \A call \in Calls : ItemsOf[call] \in Seq(ToSet(ItemsOf[call]))

\* The request for a reverse plan that a chat makes by one of its calls.
Planners == Chats \X {call \in Calls : ToolOf[call] = "reverse"}

ASSUME PlannersAssumption == Planners \subseteq Openers \ Asks

\* A draft is an item of the result of the call that saved it.
ASSUME DraftsAreItems ==
    \A call \in Calls :
        ToolOf[call] # "read" /\ ItemsOf[call] # <<>> => call \in ToSet(ItemsOf[call])

VARIABLES
    chat,      \* what each chat request has reached
    drafts     \* the calls whose drafts each chat request saved, in order

agentVars == <<chat, drafts>>

-----------------------------------------------------------------------------
(* Data *)

Silent ==
    [step |-> "idle", scenario |-> None, opening |-> <<>>, round |-> 1,
     todo |-> <<>>, ran |-> FALSE, executed |-> {}, confirmed |-> {},
     items |-> <<>>, announced |-> {}, stopped |-> FALSE]

\* What is left of a request when its stream has ended.
Over(r, step) ==
    [Silent EXCEPT !.step = step, !.scenario = chat[r].scenario]

\* _merge_tool_evidence makes one item of a result that has none.
ItemsOrNote(call) == IF ItemsOf[call] = <<>> THEN <<call>> ELSE ItemsOf[call]

\* MUTANT: the evidence is full one item early.
MergedOneFewer(items, more) ==
    LET take[i \in 0..Len(more)] ==
            IF i = 0 THEN items
            ELSE LET before == take[i - 1]
                 IN  IF more[i] \in ToSet(before) \/ Len(before) >= EvidenceLimit - 1
                     THEN before ELSE Append(before, more[i])
    IN  take[Len(more)]

\* _merge_tool_evidence: items seen before are skipped, and none is taken
\* once the evidence is full.
Merged(items, more) ==
    LET take[i \in 0..Len(more)] ==
            IF i = 0 THEN items
            ELSE LET before == take[i - 1]
                 IN  IF more[i] \in ToSet(before) \/ Len(before) >= EvidenceLimit
                     THEN before ELSE Append(before, more[i])
    IN  take[Len(more)]

Full(r) == Len(chat[r].items) >= EvidenceLimit

-----------------------------------------------------------------------------
(* The rounds of _run_agent *)

\* stream: without a key or the user's consent it ends at once.
StartChat(r) ==
    /\ r \in load.requests /\ chat[r].step = "idle"
    /\ \E consent \in BOOLEAN, opening \in {<<>>, Mandatory} :
           chat' = [chat EXCEPT ![r] =
                       [Silent EXCEPT !.opening = opening, !.scenario = scenario,
                            !.step = IF consent THEN "planning" ELSE "error"]]
    /\ UNCHANGED <<drafts, reverseVars>>

\* The plan of a round: the mandatory one until something was observed, then
\* the model's, or the fallback after two replies that cannot be read.
Prescribed(r) == chat[r].opening # <<>> /\ chat[r].confirmed = {}

PlanOptions(r) ==
    IF Prescribed(r) THEN {chat[r].opening} ELSE load.plans \cup {Fallback}

\* No calls, or "ready", ends the rounds; more calls than a round takes are
\* cut off.
Plan(r) ==
    /\ chat[r].step = "planning"
    /\ \E calls \in PlanOptions(r) :
           chat' = [chat EXCEPT
               ![r].step = IF calls = <<>> THEN "observed" ELSE "calling",
               ![r].todo = SubSeq(calls, 1, IF Len(calls) < CallsPerRound
                                            THEN Len(calls) ELSE CallsPerRound),
               ![r].ran = FALSE]
    /\ UNCHANGED <<drafts, reverseVars>>

\* A call made before in this request is passed over.
SkipCall(r) ==
    /\ chat[r].step = "calling" /\ chat[r].todo # <<>>
    /\ Head(chat[r].todo) \in chat[r].executed
    /\ chat' = [chat EXCEPT ![r].todo = Tail(@)]
    /\ UNCHANGED <<drafts, reverseVars>>

\* The call a round has come to, unless it was made before in this request.
Due(r) == Head(chat[r].todo)

Calling(r) ==
    /\ chat[r].step = "calling" /\ chat[r].todo # <<>>
    /\ Due(r) \notin chat[r].executed

\* plan_reverse_depreciation: ask_reverse_planning without a conversation.
AskPlanner(r) ==
    LET p == <<r, Due(r)>>
    IN  /\ Calling(r) /\ p \in Planners /\ job[p].step = "idle"
        /\ job' = [job EXCEPT ![p] =
                      [Idle EXCEPT !.step = "asked", !.scenario = chat[r].scenario]]
        /\ UNCHANGED <<agentVars, conv, kept, page, cut>>

WaitForPlanner(r) ==
    Calling(r) /\ <<r, Due(r)>> \in Planners /\ Answer(<<r, Due(r)>>)
        /\ UNCHANGED agentVars

\* What the tool saves.  A reverse plan without recommendations is reported and
\* saves nothing.
DraftsOf(r, call) ==
    IF \/ ToolOf[call] = "draft"
       \/ /\ ToolOf[call] = "reverse" /\ job[<<r, call>>].step = "answered"
          /\ ~job[<<r, call>>].refused /\ job[<<r, call>>].recs # <<>>
    THEN [drafts EXCEPT ![r] = Append(@, call)]
    ELSE drafts

\* The tool returns, and with it the request it made.
Return(r, call, outcomes) ==
    IF <<r, call>> \in Planners
    THEN /\ job[<<r, call>>].step \in outcomes
         /\ job' = [job EXCEPT ![<<r, call>>] = Closed(<<r, call>>, "shown")]
         /\ UNCHANGED <<conv, kept, page, cut>>
    ELSE UNCHANGED reverseVars

\* A confirmed result is kept, with its required follow-up calls next; they
\* do not count as calls of the round.
Call(r) ==
    LET call == Due(r)
    IN  /\ Calling(r)
        /\ Return(r, call, {"answered"})
        /\ drafts' = DraftsOf(r, call)
        /\ chat' = [chat EXCEPT
               ![r].executed = @ \cup {call},
               ![r].confirmed = @ \cup {call},
               ![r].items = Merged(@, ItemsOrNote(call)),
               ![r].todo = FollowUps[call] \o Tail(@),
               ![r].ran = TRUE]

\* The tool raises, before or after it saved, or its result is not confirmed:
\* what it saved stays.
CallFails(r) ==
    /\ Calling(r)
    /\ Return(r, Due(r), {"answered", "failed"})
    /\ drafts' \in {drafts, DraftsOf(r, Due(r))}
    /\ chat' = [chat EXCEPT ![r] = Over(r, "error")]

\* MUTANT: a round in which nothing new was called does not count.
EndRoundUncounted(r) ==
    /\ chat[r].step = "calling" /\ chat[r].todo = <<>>
    /\ chat' = [chat EXCEPT
           ![r].step = IF chat[r].round < MaxRounds THEN "planning" ELSE "observed",
           ![r].round = IF chat[r].ran /\ @ < MaxRounds THEN @ + 1 ELSE @]
    /\ UNCHANGED <<drafts, reverseVars>>

\* MUTANT: one round too many.
EndRoundOneMore(r) ==
    /\ chat[r].step = "calling" /\ chat[r].todo = <<>>
    /\ chat' = [chat EXCEPT
           ![r].step = IF chat[r].ran /\ chat[r].round <= MaxRounds
                       THEN "planning" ELSE "observed",
           ![r].round = IF chat[r].ran /\ @ <= MaxRounds THEN @ + 1 ELSE @]
    /\ UNCHANGED <<drafts, reverseVars>>

\* The round is over: the next one, unless nothing new was called or it was
\* the last.
EndRound(r) ==
    /\ chat[r].step = "calling" /\ chat[r].todo = <<>>
    /\ chat' = [chat EXCEPT
           ![r].step = IF chat[r].ran /\ chat[r].round < MaxRounds
                       THEN "planning" ELSE "observed",
           ![r].round = IF chat[r].ran /\ @ < MaxRounds THEN @ + 1 ELSE @]
    /\ UNCHANGED <<drafts, reverseVars>>

-----------------------------------------------------------------------------
(* The stream *)

\* The evidence is merged and its drafts are announced; nothing observed is an
\* error.
Announce(r) ==
    /\ chat[r].step = "observed"
    /\ chat' =
        IF chat[r].confirmed = {} THEN [chat EXCEPT ![r] = Over(r, "error")]
        ELSE [chat EXCEPT ![r].step = "answering",
                 ![r].announced = {c \in ToSet(chat[r].items) \cap Calls :
                                       c \in ToSet(drafts[r])}]
    /\ UNCHANGED <<drafts, reverseVars>>

FinishChat(r) ==
    /\ chat[r].step = "answering"
    /\ chat' = [chat EXCEPT ![r] = Over(r, "done")]
    /\ UNCHANGED <<drafts, reverseVars>>

\* The model cannot be reached, while planning or while answering, or its plan
\* is no list of calls.
ModelFails(r) ==
    /\ \/ chat[r].step = "planning" /\ ~Prescribed(r)
       \/ chat[r].step = "answering"
    /\ chat' = [chat EXCEPT ![r] = Over(r, "error")]
    /\ UNCHANGED <<drafts, reverseVars>>

\* The user stops the answer: the request goes on until it writes to the
\* closed connection.
Stop(r) ==
    /\ chat[r].step \in {"planning", "calling", "observed", "answering"}
    /\ ~chat[r].stopped
    /\ chat' = [chat EXCEPT ![r].stopped = TRUE]
    /\ UNCHANGED <<drafts, reverseVars>>

Abandon(r) ==
    /\ chat[r].stopped /\ chat[r].step \in {"observed", "answering"}
    /\ chat' = [chat EXCEPT ![r] = Over(r, "abandoned")]
    /\ UNCHANGED <<drafts, reverseVars>>

-----------------------------------------------------------------------------
(* Specification *)

InitAgent ==
    chat = [r \in Chats |-> Silent] /\ drafts = [r \in Chats |-> <<>>]

Converse(r) ==
    Plan(r) \/ SkipCall(r) \/ AskPlanner(r) \/ WaitForPlanner(r) \/ Call(r)
        \/ CallFails(r) \/ EndRound(r) \/ Announce(r) \/ FinishChat(r) \/ ModelFails(r) \/ Abandon(r)

NextAgent == \E r \in Chats : StartChat(r) \/ Converse(r) \/ Stop(r)
=============================================================================
