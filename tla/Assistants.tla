----------------------------- MODULE Assistants -----------------------------
(***************************************************************************)
(* Reverse planning, the knowledge chat and the wide-table questions in    *)
(* one server, and one page that uses them.  The chat opens conversations  *)
(* in the store of reverse planning, and with them prunes those of the     *)
(* page; the scenario list resets the conversations of two of the three.   *)
(***************************************************************************)
EXTENDS KnowledgeAgent, QuestionDialogue

vars == <<sessionVars, reverseVars, agentVars, questionVars>>

Init == InitSessions /\ InitReverse /\ InitAgent /\ InitQuestions

Next ==
    \/ Tick /\ UNCHANGED <<reverseVars, agentVars, questionVars>>
    \/ SwitchScenario /\ ForgetReverse /\ ForgetQuestion /\ UNCHANGED agentVars
    \/ NextReverse /\ UNCHANGED <<sessionVars, agentVars, questionVars>>
    \/ NextAgent /\ UNCHANGED <<sessionVars, questionVars>>
    \/ NextQuestions /\ UNCHANGED <<sessionVars, reverseVars, agentVars>>

\* A thread that can run does run, and every call of a model or of Neo4j
\* returns or fails; nothing is assumed of the page.
Fairness ==
    /\ \A r \in Asks :
           WF_vars(Serve(r) /\ UNCHANGED <<sessionVars, agentVars, questionVars>>)
    /\ \A r \in Chats :
           WF_vars(Converse(r) /\ UNCHANGED <<sessionVars, questionVars>>)
    /\ \A r \in Questions :
           WF_vars(AnswerQuestion(r)
                       /\ UNCHANGED <<sessionVars, reverseVars, agentVars>>)

Spec == Init /\ [][Next]_vars /\ Fairness

-----------------------------------------------------------------------------
(* Properties *)

Steps == {"idle", "asked", "opened", "planned", "drawn", "answered", "failed",
          "shown"}

\* Every variable keeps the values the code can give it.
TypeOK ==
    /\ now \in 0..load.ticks /\ load \in Loads /\ scenario \in Scenarios
    /\ kept \subseteq Openers /\ cut \subseteq Openers
    /\ \A c \in Openers : conv[c].scenario \in Scenarios \cup {None}
                          /\ conv[c].updated \in 0..now
    /\ \A r \in Openers : job[r].step \in Steps
                          /\ job[r].conv \in Openers \cup {None}
    /\ talks \subseteq Questions
    /\ \A r \in Chats : chat[r].round \in 1..MaxRounds

\* The scenario a target was posed in.
PosedIn(goal) == job[goal].scenario

\* A conversation of reverse planning only ever holds recommendations that were
\* computed for its own scenario, however requests overlap, expire or switch
\* scenario in between, and a recommendation goes out only to a question asked
\* about that scenario; a wide-table answer is about the scenario of its page,
\* although its conversation may stem from another one.
NoScenarioIsMixed ==
    /\ \A c \in Openers : \A i \in DOMAIN conv[c].recs :
           PosedIn(conv[c].recs[i].goal) = conv[c].scenario
    /\ \A r \in Openers : job[r].step = "answered" =>
           \A i \in DOMAIN job[r].recs :
               PosedIn(job[r].recs[i].goal) = job[r].scenario
    /\ \A r \in Questions : qa[r].step = "answered" =>
           qa[r].scope.scenario = qa[r].page.scenario

\* The cards of a first answer are numbered from one; those of an answer about
\* some of them keep their numbers.
NumberedFromOne(recs) == \A i \in DOMAIN recs : recs[i].number = i

\* "Recommendation n" is the nth one the page shows: for a page that asks one
\* question at a time and gets its replies, an answer about numbers holds
\* exactly the recommendations at these positions of the list shown, however
\* often the list was narrowed before, and their own numbers are the ones that
\* were named as long as the page shows them all.  (An answer about some of
\* them narrows the conversation to these; they keep their own numbers, but a
\* number named from then on is a position in the narrowed list.)
NumbersMeanWhatWasShown ==
    page.steady =>
        \A r \in Asks :
            job[r].step = "answered" /\ ~job[r].refused
                    /\ job[r].plan.numbers # <<>>
            => /\ Len(job[r].recs) = Len(job[r].plan.numbers)
               /\ \A i \in DOMAIN job[r].recs :
                      /\ job[r].recs[i] = page.shown[job[r].plan.numbers[i]]
                      /\ NumberedFromOne(page.shown) =>
                             job[r].recs[i].number = job[r].plan.numbers[i]

\* A conversation that was recorded in less than a time to live ago can be
\* continued, whatever other requests open and prune meanwhile; only one that
\* expired while its request was still being worked on is gone although its
\* answer has just been recorded.
RecentConversationsAreKept ==
    /\ \A c \in Openers : conv[c].scenario # None /\ ~Expired(conv[c].updated)
                              => c \in kept \cup cut
    /\ \A c \in Questions : talk[c].scope.scenario # None
                                /\ ~Expired(talk[c].updated)
                                => c \in talks \cup shed

\* No question saves two drafts for one call, and an answer that is complete
\* has announced every draft saved for it, unless its evidence was full; what
\* it announces are confirmed calls.  (A question that ends in an error or is
\* stopped may leave drafts no one is told of.)
DraftsAreAnnounced ==
    \A r \in Chats :
        /\ \A i, j \in DOMAIN drafts[r] : drafts[r][i] = drafts[r][j] => i = j
        /\ chat[r].announced \subseteq chat[r].confirmed
        /\ chat[r].step = "answering" =>
               chat[r].confirmed # {}
                   /\ (ToSet(drafts[r]) \subseteq chat[r].announced \/ Full(r))

\* Every question that is asked is settled: answered, refused, failed, or
\* abandoned by its page.
QuestionsAreSettled ==
    /\ \A r \in Asks :
           (job[r].step = "asked") ~> (job[r].step = "shown")
    /\ \A r \in Chats :
           (chat[r].step = "planning") ~>
               (chat[r].step \in {"done", "error", "abandoned"})
    /\ \A r \in Questions : (qa[r].step = "asked") ~> (qa[r].step = "shown")
=============================================================================
