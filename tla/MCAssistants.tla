---------------------------- MODULE MCAssistants ----------------------------
(***************************************************************************)
(* Assistants on small instances, one load at a time: two questions about  *)
(* recommendations with time and a change of scenario, three without, the  *)
(* chat alone, the chat beside a question while time passes, and two       *)
(* wide-table questions.                                                   *)
(***************************************************************************)
EXTENDS Assistants

CONSTANTS a1, a2, a3, c1, q1, q2, snapshot, ranking, detail, draft, reverse,
          fact1, fact2

MCAsks == {a1, a2, a3}
MCOpeners == MCAsks \cup {<<c1, reverse>>}

MCSelections == {<<2>>, <<2, 1>>}

MCCalls == {snapshot, ranking, detail, draft, reverse}

MCToolOf == [c \in MCCalls |-> IF c = draft THEN "draft"
                               ELSE IF c = reverse THEN "reverse" ELSE "read"]

MCItemsOf ==
    [c \in MCCalls |-> CASE c = ranking -> <<fact1, fact2>>
                         [] c = detail -> <<fact2>>
                         [] c \in {draft, reverse} -> <<c>>
                         [] OTHER -> <<>>]

MCFollowUps == [c \in MCCalls |-> IF c = ranking THEN <<detail>> ELSE <<>>]

\* Three calls are one more than a round takes.
MCPlans == {<<>>, <<ranking>>, <<draft>>, <<reverse>>, <<draft, draft>>,
            <<reverse, ranking, detail>>}

Load(requests, plans, ticks, changes, pending) ==
    [requests |-> requests, plans |-> plans, ticks |-> ticks,
     switches |-> changes, pending |-> pending]

MCLoads ==
    {Load({a1, a2}, {}, 2, 1, 2), Load({a1, a2, a3}, {}, 0, 0, 2),
     Load({c1}, MCPlans, 0, 0, 0), Load({a1, c1}, {<<reverse>>}, 2, 0, 1),
     Load({q1, q2}, {}, 2, 1, 0)}

MCMandatory == <<ranking>>
MCFallback == <<snapshot>>
=============================================================================
