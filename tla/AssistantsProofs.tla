-------------------------- MODULE AssistantsProofs --------------------------
(***************************************************************************)
(* For every set of requests, scenarios, tools and limits: the types of    *)
(* Assistants, that no conversation or answer mixes scenarios, that a      *)
(* conversation recorded lately is kept, that drafts are announced and     *)
(* that numbers mean the recommendations that were shown.                  *)
(*                                                                         *)
(* The properties are not inductive.  What makes them so: a request that   *)
(* works on a conversation is about the scenario of that conversation, a   *)
(* conversation is made once, by a request that was asked before, a target *)
(* once posed keeps its scenario, and a conversation that left the store   *)
(* is worked on by no one unless it was pruned from under a request.       *)
(***************************************************************************)
EXTENDS Assistants, InductionLemmas

-----------------------------------------------------------------------------
(* The inductive invariant *)

\* Every record has the fields it began with.
ReverseShape ==
    /\ DOMAIN conv = Openers /\ \A c \in Openers : DOMAIN conv[c] = DOMAIN NotMade
    /\ DOMAIN job = Openers /\ \A r \in Openers : DOMAIN job[r] = DOMAIN Idle

ReverseTyped ==
    /\ kept \subseteq Openers /\ cut \subseteq Openers
    /\ \A c \in Openers : conv[c].scenario \in Scenarios \cup {None}
                          /\ conv[c].updated \in 0..now
    /\ \A r \in Openers : job[r].step \in Steps
                          /\ job[r].conv \in Openers \cup {None}

Posed(goal) == goal \in Openers /\ job[goal].step # "idle"

\* Recommendations for targets posed in scenario s.
MadeFor(recs, s) ==
    \A i \in DOMAIN recs : Posed(recs[i].goal) /\ PosedIn(recs[i].goal) = s

Attached == {"opened", "planned", "drawn", "answered"}

\* A request and its conversation are about the same scenario.
SameScenario ==
    /\ \A c \in Openers : MadeFor(conv[c].recs, conv[c].scenario)
    /\ \A r \in Openers :
           /\ MadeFor(job[r].recs, job[r].scenario)
           /\ job[r].step # "idle" => job[r].scenario \in Scenarios
           /\ job[r].step \in Attached =>
                  job[r].conv \in Openers
                      /\ conv[job[r].conv].scenario = job[r].scenario

\* A conversation is made by a request that was asked before.
MadeOnce ==
    \A r \in Openers : job[r].step \in {"idle", "asked"} => conv[r].scenario = None

\* A conversation that left the store is not worked on, and it expired.
KeptOrPast ==
    \A c \in Openers :
        \/ c \in kept \cup cut
        \/ Working(c) = {} /\ (conv[c].scenario = None \/ Expired(conv[c].updated))

ReverseInv ==
    ReverseShape /\ ReverseTyped /\ SameScenario /\ MadeOnce /\ KeptOrPast

ChatInv ==
    /\ DOMAIN chat = Chats
    /\ \A r \in Chats :
           /\ DOMAIN chat[r] = DOMAIN Silent /\ chat[r].round \in 1..MaxRounds
           /\ chat[r].step # "idle" => chat[r].scenario \in Scenarios

QuestionTyped ==
    /\ DOMAIN talk = Questions /\ DOMAIN qa = Questions /\ talks \subseteq Questions
    /\ \A r \in Questions :
           /\ DOMAIN talk[r] = DOMAIN NoTalk /\ DOMAIN qa[r] = DOMAIN Unasked
           /\ talk[r].updated \in 0..now
           /\ qa[r].step \in {"opened", "read", "answered"} => qa[r].conv \in Questions

TalksOrPast ==
    \A c \in Questions :
        \/ c \in talks \cup shed
        \/ ~Busy(c) /\ (talk[c].scope.scenario = None \/ Expired(talk[c].updated))

\* An answer is about the scenario of its page.
OwnScenario ==
    \A r \in Questions : qa[r].step \in {"read", "answered"} =>
        qa[r].scope.scenario = qa[r].page.scenario

QuestionInv == QuestionTyped /\ TalksOrPast /\ OwnScenario

SessionInv ==
    load \in Loads /\ now \in Nat /\ now <= load.ticks /\ scenario \in Scenarios

IInv == SessionInv /\ ReverseInv /\ ChatInv /\ QuestionInv

LEMMA Constants ==
    /\ None \notin Scenarios /\ Baseline \in Scenarios /\ Ttl \in Nat
    /\ Asks \subseteq Openers /\ None \notin Openers
    /\ Planners \subseteq Openers /\ Planners \cap Asks = {}
    /\ MaxRounds \in Nat \ {0} /\ MaxProposals \in Nat
    /\ \A l \in Loads : l.ticks \in Nat
BY SessionsAssumption, ReverseAssumption, AgentAssumption, PlannersAssumption

LEMMA InitInv == Init => IInv
<1> SUFFICES ASSUME Init PROVE IInv
    OBVIOUS
<1> USE Constants DEF Init, InitSessions, InitReverse, InitAgent, InitQuestions
<1>1. SessionInv
    BY DEF SessionInv
<1>2. ReverseShape /\ ReverseTyped
    BY DEF ReverseShape, ReverseTyped, SessionInv, NotMade, Idle, Silent, Steps
<1>3. SameScenario /\ MadeOnce /\ KeptOrPast
    BY DEF SameScenario, MadeOnce, KeptOrPast, MadeFor, NotMade, Idle, Silent, Working,
        Attached
<1>4. QuestionInv
    BY DEF QuestionInv, QuestionTyped, TalksOrPast, OwnScenario, NoTalk, Unasked, Busy,
        Scope
<1>5. ChatInv
    BY DEF ChatInv, Silent
<1>6. QED
    BY <1>1, <1>2, <1>3, <1>4, <1>5 DEF IInv, ReverseInv

-----------------------------------------------------------------------------
(* The clock, the scenario list *)

LEMMA TickInv ==
    ASSUME IInv, Tick, UNCHANGED <<reverseVars, agentVars, questionVars>>
    PROVE  IInv'
<1> USE Constants DEF Tick, reverseVars, agentVars, questionVars
<1>1. SessionInv'
    BY DEF IInv, SessionInv
<1>2. ReverseInv'
  <2>1. ReverseShape' /\ ReverseTyped'
    BY DEF IInv, SessionInv, ReverseInv, ReverseShape, ReverseTyped
  <2>2. SameScenario' /\ MadeOnce'
    BY DEF IInv, ReverseInv, SameScenario, MadeOnce, MadeFor, Posed, PosedIn
  <2>3. KeptOrPast'
    BY DEF IInv, SessionInv, ReverseInv, KeptOrPast, ReverseTyped, Working, Expired
  <2>4. QED
    BY <2>1, <2>2, <2>3 DEF ReverseInv
<1>3. QuestionInv'
    BY DEF IInv, SessionInv, QuestionInv, QuestionTyped, TalksOrPast, OwnScenario, Busy,
        Expired
<1>4. QED
    BY <1>1, <1>2, <1>3 DEF IInv, ChatInv

LEMMA SwitchInv ==
    ASSUME IInv, SwitchScenario, ForgetReverse, ForgetQuestion, UNCHANGED agentVars
    PROVE  IInv'
<1> USE DEF SwitchScenario, ForgetReverse, ForgetQuestion, agentVars
<1>1. SessionInv'
    BY DEF IInv, SessionInv
<1>2. ReverseInv'
    BY DEF IInv, ReverseInv, ReverseShape, ReverseTyped, SameScenario, MadeOnce,
        KeptOrPast, MadeFor, Posed, PosedIn, Working, Expired
<1>3. QuestionInv'
    BY DEF IInv, QuestionInv, QuestionTyped, TalksOrPast, OwnScenario, Busy, Expired
<1>4. QED
    BY <1>1, <1>2, <1>3 DEF IInv, ChatInv

-----------------------------------------------------------------------------
(* Wide-table questions *)

LEMMA QuestionStep ==
    ASSUME SessionInv, QuestionInv, NEW r \in Questions,
           AskQuestion(r) \/ AnswerQuestion(r), UNCHANGED sessionVars
    PROVE  QuestionInv'
<1> USE DEF SessionInv, QuestionInv, sessionVars
<1>1. CASE AskQuestion(r)
  <2>1. PICK dated \in BOOLEAN, filter \in Filters \cup {None} :
           qa' = [qa EXCEPT ![r] =
                     [Unasked EXCEPT !.step = "asked", !.held = asking.held,
                          !.dated = dated, !.page = Scope(scenario, filter)]]
    BY <1>1 DEF AskQuestion
  <2>2. /\ DOMAIN qa' = Questions /\ DOMAIN qa'[r] = DOMAIN Unasked
        /\ qa'[r].step = "asked"
        /\ \A q \in Questions \ {r} : qa'[q] = qa[q]
    BY <2>1 DEF QuestionTyped, Unasked
  <2>3. QuestionTyped' /\ OwnScenario'
    BY <1>1, <2>2 DEF AskQuestion, QuestionTyped, OwnScenario
  <2>4. TalksOrPast'
    <3>1. \A c \in Questions : Busy(c)' => Busy(c)
        BY <2>2 DEF Busy
    <3>2. QED
        BY <1>1, <3>1 DEF AskQuestion, TalksOrPast, Expired
  <2>5. QED
    BY <2>3, <2>4
<1>2. CASE OpenTalk(r)
  <2>1. QuestionTyped'
    <3>1. /\ DOMAIN qa' = Questions /\ DOMAIN qa'[r] = DOMAIN Unasked
          /\ qa'[r].conv \in Questions
          /\ \A q \in Questions \ {r} : qa'[q] = qa[q]
        BY <1>2 DEF OpenTalk, QuestionTyped, HeldOver, Unasked
    <3>2. /\ DOMAIN talk' = Questions /\ talks' \subseteq Questions
          /\ \A q \in Questions \ {r} : talk'[q] = talk[q]
          /\ DOMAIN talk'[r] = DOMAIN NoTalk /\ talk'[r].updated \in 0..now
      <4>1. CASE UNCHANGED <<talk, talks>>
        BY <4>1 DEF QuestionTyped
      <4>2. CASE /\ talk' = [talk EXCEPT ![r] =
                               [NoTalk EXCEPT !.scope = qa[r].page, !.updated = now]]
                 /\ talks' = Unshed(r)
        <5>1. talks' \subseteq Questions
            BY <4>2 DEF QuestionTyped, Unshed
        <5>2. DOMAIN talk'[r] = DOMAIN NoTalk /\ talk'[r].updated = now
            BY <4>2 DEF QuestionTyped, NoTalk
        <5>3. QED
            BY <4>2, <5>1, <5>2 DEF QuestionTyped
      <4>3. QED
        BY <1>2, <4>1, <4>2 DEF OpenTalk
    <3>3. QED
        BY <3>1, <3>2 DEF QuestionTyped
  <2>2. TalksOrPast'
    BY <1>2 DEF OpenTalk, QuestionTyped, TalksOrPast, HeldOver, Unshed, Busy, Expired,
        NoTalk, Unasked
  <2>3. OwnScenario'
    BY <1>2 DEF OpenTalk, QuestionTyped, OwnScenario, Unasked
  <2>4. QED
    BY <2>1, <2>2, <2>3
<1>3. CASE UnderstandQuestion(r)
  <2>1. PICK plan \in QuestionPlans :
           \/ /\ Accepted(r, plan)
              /\ qa' = [qa EXCEPT ![r].step = "read", ![r].entities = r,
                                  ![r].scope = ScopeOf(r, plan)]
           \/ /\ ~Accepted(r, plan)
              /\ qa' = [qa EXCEPT ![r].step = "read", ![r].scope = qa[r].page,
                                  ![r].entities = talk[qa[r].conv].entities]
    BY <1>3 DEF UnderstandQuestion
  <2>2. Accepted(r, plan) => ScopeOf(r, plan).scenario = qa[r].page.scenario
    BY <2>1 DEF Accepted, ScopeOf, QuestionPlans, Completed
  <2>3. QuestionTyped'
    BY <1>3, <2>1 DEF UnderstandQuestion, QuestionTyped, Unasked
  <2>4. TalksOrPast'
    BY <1>3, <2>1 DEF UnderstandQuestion, QuestionTyped, TalksOrPast, Busy, Expired,
        Unasked
  <2>5. OwnScenario'
    BY <1>3, <2>1, <2>2 DEF UnderstandQuestion, QuestionTyped, OwnScenario, Unasked
  <2>6. QED
    BY <2>3, <2>4, <2>5
<1>4. CASE FailQuestion(r)
    BY <1>4 DEF FailQuestion, QuestionTyped, TalksOrPast, OwnScenario, Busy, Expired,
        Unasked
<1>5. CASE RecordTalk(r)
  <2>1. QuestionTyped' /\ OwnScenario'
    BY <1>5 DEF RecordTalk, QuestionTyped, OwnScenario, NoTalk, Unasked
  <2>2. TalksOrPast'
    BY <1>5 DEF RecordTalk, QuestionTyped, TalksOrPast, Busy, Expired, Unasked
  <2>3. QED
    BY <2>1, <2>2
<1>6. CASE ReceiveAnswer(r)
    BY <1>6 DEF ReceiveAnswer, QuestionTyped, TalksOrPast, OwnScenario, Busy, Expired,
        Unasked
<1>7. QED
    BY <1>1, <1>2, <1>3, <1>4, <1>5, <1>6 DEF AnswerQuestion

-----------------------------------------------------------------------------
(* Reverse planning *)

\* A request for recommendations is made, by the page or by the chat.
LEMMA PoseInv ==
    ASSUME SessionInv, ReverseInv, NEW r \in Openers, NEW new, NEW s \in Scenarios,
           job[r].step = "idle", job' = [job EXCEPT ![r] = new],
           DOMAIN new = DOMAIN Idle, new.step = "asked", new.scenario = s,
           new.conv = None, new.recs = <<>>,
           UNCHANGED <<sessionVars, conv, kept, cut>>
    PROVE  ReverseInv'
<1> USE Constants DEF SessionInv, ReverseInv, sessionVars
<1>1. /\ job'[r].step = "asked" /\ job'[r].scenario = s
      /\ job'[r].conv = None /\ job'[r].recs = <<>>
      /\ \A q \in Openers \ {r} : job'[q] = job[q]
      /\ DOMAIN job' = Openers /\ DOMAIN job'[r] = DOMAIN Idle
    BY DEF ReverseShape, Idle
<1>2. ReverseShape' /\ ReverseTyped'
    BY <1>1 DEF ReverseShape, ReverseTyped, Steps
<1>3. \A g : Posed(g) => Posed(g)' /\ PosedIn(g)' = PosedIn(g)
    BY <1>1 DEF Posed, PosedIn
<1>4. SameScenario'
  <2>1. \A c \in Openers : MadeFor(conv[c].recs, conv[c].scenario)'
    BY <1>3 DEF SameScenario, MadeFor
  <2>2. \A q \in Openers : MadeFor(job[q].recs, job[q].scenario)'
    BY <1>1, <1>3 DEF SameScenario, MadeFor
  <2>3. QED
    BY <1>1, <2>1, <2>2 DEF SameScenario, Attached
<1>5. MadeOnce' /\ KeptOrPast'
    BY <1>1 DEF MadeOnce, KeptOrPast, Working, Expired
<1>6. QED
    BY <1>2, <1>4, <1>5

LEMMA AskInv ==
    ASSUME SessionInv, ReverseInv, NEW r \in Asks, Ask(r),
           UNCHANGED sessionVars
    PROVE  ReverseInv'
<1> DEFINE new == [Idle EXCEPT !.step = "asked", !.scenario = scenario,
                               !.held = page.held]
<1>1. /\ DOMAIN new = DOMAIN Idle /\ new.step = "asked" /\ new.scenario = scenario
      /\ new.conv = None /\ new.recs = <<>>
    BY DEF Idle
<1>2. /\ job[r].step = "idle" /\ job' = [job EXCEPT ![r] = new]
      /\ UNCHANGED <<conv, kept, cut>> /\ r \in Openers /\ scenario \in Scenarios
    BY Constants DEF Ask, SessionInv
<1> HIDE DEF new
<1>3. QED
    BY <1>1, <1>2, PoseInv

\* A step of a request that was asked leaves every target where it was posed.
LEMMA StillPosed ==
    ASSUME NEW r \in Openers, job[r].step # "idle", job'[r].step # "idle",
           job'[r].scenario = job[r].scenario,
           \A q \in Openers \ {r} : job'[q] = job[q]
    PROVE  \A g : Posed(g) => Posed(g)' /\ PosedIn(g)' = PosedIn(g)
BY DEF Posed, PosedIn

LEMMA OpenInv ==
    ASSUME SessionInv, ReverseInv, NEW r \in Openers, Open(r),
           UNCHANGED sessionVars
    PROVE  ReverseInv'
<1> USE Constants DEF SessionInv, ReverseInv, sessionVars
<1> DEFINE c == job'[r].conv
<1>1. /\ job[r].step = "asked" /\ job'[r].step = "opened"
      /\ job'[r].scenario = job[r].scenario /\ job'[r].recs = job[r].recs
      /\ \A q \in Openers \ {r} : job'[q] = job[q]
      /\ DOMAIN job' = Openers /\ DOMAIN job'[r] = DOMAIN Idle
    BY DEF Open, ReverseShape, Idle
<1>2. job[r].scenario \in Scenarios
    BY <1>1 DEF SameScenario
<1>3. \A g : Posed(g) => Posed(g)' /\ PosedIn(g)' = PosedIn(g)
    BY <1>1, StillPosed
<1>31. \A q \in Openers : MadeFor(job[q].recs, job[q].scenario)'
    BY <1>1, <1>3 DEF SameScenario, MadeFor
<1>4. CASE /\ Continues(job[r].held, job[r].scenario)
           /\ job' = [job EXCEPT ![r].step = "opened", ![r].held = None,
                                 ![r].conv = job[r].held]
           /\ UNCHANGED <<conv, kept, cut>>
  <2>1. c \in kept /\ conv[c].scenario = job[r].scenario
    BY <1>4 DEF ReverseShape, Idle, Continues, Mentioned
  <2>2. ReverseShape' /\ ReverseTyped'
    BY <1>1, <1>4, <2>1 DEF ReverseShape, ReverseTyped, Steps
  <2>3. SameScenario'
    <3>1. \A d \in Openers : MadeFor(conv[d].recs, conv[d].scenario)'
        BY <1>3, <1>4 DEF SameScenario, MadeFor
    <3>2. QED
        BY <1>1, <1>31, <1>4, <2>1, <3>1 DEF SameScenario, Attached, ReverseTyped
  <2>4. MadeOnce'
    BY <1>1, <1>4 DEF MadeOnce
  <2>5. KeptOrPast'
    BY <1>1, <1>4, <2>1 DEF KeptOrPast, Working, Expired
  <2>6. QED
    BY <2>2, <2>3, <2>4, <2>5
<1>5. CASE /\ job' = [job EXCEPT ![r].step = "opened", ![r].held = None,
                                 ![r].conv = r]
           /\ OpenNew(r, job[r].scenario)
  <2>1. c = r /\ conv[r].scenario = None
    BY <1>1, <1>5 DEF ReverseShape, Idle, MadeOnce
  <2>2. /\ conv'[r].scenario = job[r].scenario /\ conv'[r].recs = <<>>
        /\ conv'[r].updated = now /\ DOMAIN conv'[r] = DOMAIN NotMade
        /\ \A d \in Openers \ {r} : conv'[d] = conv[d]
        /\ DOMAIN conv' = Openers
    BY <1>5 DEF OpenNew, Fresh, NotMade, ReverseShape
  <2>3. /\ kept' \subseteq Openers /\ cut' \subseteq Openers /\ r \in kept'
        /\ cut \subseteq cut'
        /\ \A d \in kept \ kept' :
              Expired(conv[d].updated) /\ (Working(d) # {} => d \in cut')
    BY <1>5 DEF OpenNew, Unexpired, ReverseTyped
  <2>4. ReverseShape' /\ ReverseTyped'
    <3>1. ReverseShape'
        BY <1>1, <2>2 DEF ReverseShape
    <3>2. \A d \in Openers : conv'[d].scenario \in Scenarios \cup {None}
                             /\ conv'[d].updated \in 0..now
        BY <1>2, <2>2 DEF ReverseTyped
    <3>3. QED
        BY <1>1, <2>1, <2>3, <3>1, <3>2 DEF ReverseTyped, Steps
  <2>5. SameScenario'
    <3>1. \A d \in Openers : MadeFor(conv[d].recs, conv[d].scenario)'
        BY <1>3, <2>2 DEF SameScenario, MadeFor
    <3>2. \A q \in Openers : job[q].step \in Attached => job[q].conv # r
        BY <2>1 DEF SameScenario, Attached
    <3>3. QED
        BY <1>1, <1>2, <1>31, <2>1, <2>2, <3>1, <3>2 DEF SameScenario, Attached
  <2>6. MadeOnce'
    BY <1>1, <2>2 DEF MadeOnce
  <2>7. KeptOrPast'
    BY <1>1, <2>1, <2>2, <2>3 DEF KeptOrPast, Working, Expired
  <2>8. QED
    BY <2>4, <2>5, <2>6, <2>7
<1>6. QED
    BY <1>4, <1>5 DEF Open

\* A step of a request that has a conversation and leaves the store alone.
LEMMA InnerStep ==
    ASSUME SessionInv, ReverseInv, NEW r \in Openers,
           job[r].step \in Attached \cup {"failed"}, job'[r].step \in Steps,
           job'[r].step \notin {"idle", "asked"},
           job'[r].scenario = job[r].scenario,
           \/ /\ job'[r].step \in Attached /\ job[r].step \in Attached
              /\ job'[r].conv = job[r].conv
              /\ job'[r].step \in {"opened", "planned", "drawn"} =>
                     job[r].step \in {"opened", "planned", "drawn"}
           \/ job'[r].step \notin Attached /\ job'[r].conv = None,
           MadeFor(job'[r].recs, job[r].scenario),
           \A q \in Openers \ {r} : job'[q] = job[q],
           DOMAIN job' = Openers, DOMAIN job'[r] = DOMAIN Idle,
           UNCHANGED <<conv, kept, cut, sessionVars>>
    PROVE  ReverseInv'
<1> USE Constants DEF SessionInv, ReverseInv, sessionVars
<1>1. \A g : Posed(g) => Posed(g)' /\ PosedIn(g)' = PosedIn(g)
    BY StillPosed DEF Attached
<1>2. ReverseShape' /\ ReverseTyped'
    BY DEF ReverseShape, ReverseTyped
<1>3. SameScenario'
  <2>1. \A c \in Openers : MadeFor(conv[c].recs, conv[c].scenario)'
    BY <1>1 DEF SameScenario, MadeFor
  <2>2. \A q \in Openers : MadeFor(job[q].recs, job[q].scenario)'
    BY <1>1 DEF SameScenario, MadeFor
  <2>3. QED
    BY <2>1, <2>2 DEF SameScenario, Attached
<1>4. MadeOnce'
    BY DEF MadeOnce
<1>5. KeptOrPast'
    BY DEF KeptOrPast, Working, Expired, Attached
<1>6. QED
    BY <1>2, <1>3, <1>4, <1>5

LEMMA UnderstandInv ==
    ASSUME SessionInv, ReverseInv, NEW r \in Openers, Understand(r),
           UNCHANGED sessionVars
    PROVE  ReverseInv'
<1> USE DEF ReverseInv
<1>1. /\ job[r].step = "opened" /\ UNCHANGED <<conv, kept, cut>>
      /\ \/ job'[r].step = "planned" /\ job'[r].recs = job[r].recs
         \/ job'[r].step = "drawn" /\ job'[r].recs = conv[job[r].conv].recs
      /\ job'[r].scenario = job[r].scenario /\ job'[r].conv = job[r].conv
      /\ \A q \in Openers \ {r} : job'[q] = job[q]
      /\ DOMAIN job' = Openers /\ DOMAIN job'[r] = DOMAIN Idle
    BY DEF Understand, ReverseShape, Idle
<1>2. MadeFor(job'[r].recs, job[r].scenario)
    BY <1>1 DEF SameScenario, Attached
<1>3. QED
    BY <1>1, <1>2, InnerStep DEF Attached, Steps

LEMMA ExecuteInv ==
    ASSUME SessionInv, ReverseInv, NEW r \in Openers, Execute(r),
           UNCHANGED sessionVars
    PROVE  ReverseInv'
<1> USE DEF ReverseInv
<1> DEFINE numbers == job[r].plan.numbers
           recs == conv[job[r].conv].recs
<1>1. job[r].step = "planned" /\ UNCHANGED <<conv, kept, cut>>
    BY DEF Execute
<1>2. MadeFor(recs, job[r].scenario)
    BY <1>1 DEF SameScenario, Attached
<1>3. ASSUME NEW new, MadeFor(new, job[r].scenario),
             job' = [job EXCEPT ![r].step = "drawn", ![r].recs = new]
      PROVE  ReverseInv'
  <2>1. /\ job'[r].step = "drawn" /\ job'[r].recs = new
        /\ job'[r].scenario = job[r].scenario /\ job'[r].conv = job[r].conv
        /\ \A q \in Openers \ {r} : job'[q] = job[q]
        /\ DOMAIN job' = Openers /\ DOMAIN job'[r] = DOMAIN Idle
    BY <1>3 DEF ReverseShape, Idle
  <2>2. QED
    BY <1>1, <1>3, <2>1, InnerStep DEF Attached, Steps
<1>4. CASE \E n \in 0..MaxProposals :
              job' = [job EXCEPT ![r].step = "drawn", ![r].recs = Numbered(r, n)]
  <2>1. \A n : MadeFor(Numbered(r, n), job[r].scenario)
    BY <1>1 DEF MadeFor, Numbered, Posed, PosedIn
  <2>2. QED
    BY <1>3, <1>4, <2>1
<1>5. CASE /\ \A i \in DOMAIN numbers : numbers[i] \in DOMAIN recs
           /\ job' = [job EXCEPT ![r].step = "drawn", ![r].recs = Picked(recs, numbers)]
  <2>1. MadeFor(Picked(recs, numbers), job[r].scenario)
    BY <1>2, <1>5 DEF MadeFor, Picked
  <2>2. QED
    BY <1>3, <1>5, <2>1
<1>6. CASE job' = [job EXCEPT ![r] = Closed(r, "failed")]
  <2>1. /\ job'[r].step = "failed" /\ job'[r].recs = <<>> /\ job'[r].conv = None
        /\ job'[r].scenario = job[r].scenario
        /\ \A q \in Openers \ {r} : job'[q] = job[q]
        /\ DOMAIN job' = Openers /\ DOMAIN job'[r] = DOMAIN Idle
    BY <1>6 DEF ReverseShape, Closed, Idle
  <2>2. MadeFor(job'[r].recs, job[r].scenario)
    BY <2>1 DEF MadeFor
  <2>3. QED
    BY <1>1, <2>1, <2>2, InnerStep DEF Attached, Steps
<1>7. QED
    BY <1>4, <1>5, <1>6 DEF Execute

\* A request ends, whatever it has reached.
LEMMA CloseInv ==
    ASSUME SessionInv, ReverseInv, NEW r \in Openers, Fail(r) \/ Receive(r) \/ Lose(r),
           UNCHANGED sessionVars
    PROVE  ReverseInv'
<1> USE DEF ReverseInv
<1>1. /\ job[r].step \in Attached \cup {"failed"} /\ UNCHANGED <<conv, kept, cut>>
      /\ \E step \in {"failed", "shown"} : job' = [job EXCEPT ![r] = Closed(r, step)]
    BY DEF Fail, Receive, Lose, Attached
<1>2. /\ job'[r].step \in {"failed", "shown"} /\ job'[r].recs = <<>>
      /\ job'[r].conv = None /\ job'[r].scenario = job[r].scenario
      /\ \A q \in Openers \ {r} : job'[q] = job[q]
      /\ DOMAIN job' = Openers /\ DOMAIN job'[r] = DOMAIN Idle
    BY <1>1 DEF ReverseShape, Closed, Idle
<1>3. MadeFor(job'[r].recs, job[r].scenario)
    BY <1>2 DEF MadeFor
<1>4. QED
    BY <1>1, <1>2, <1>3, InnerStep DEF Attached, Steps

LEMMA RecordInv ==
    ASSUME SessionInv, ReverseInv, NEW r \in Openers, Record(r),
           UNCHANGED sessionVars
    PROVE  ReverseInv'
<1> USE Constants DEF SessionInv, ReverseInv, sessionVars
<1> DEFINE c == job[r].conv
<1>1. /\ job[r].step = "drawn" /\ job'[r].step = "answered"
      /\ job'[r].scenario = job[r].scenario /\ job'[r].recs = job[r].recs
      /\ job'[r].conv = c /\ \A q \in Openers \ {r} : job'[q] = job[q]
      /\ DOMAIN job' = Openers /\ DOMAIN job'[r] = DOMAIN Idle /\ UNCHANGED <<kept, cut>>
    BY DEF Record, ReverseShape, Idle
<1>2. c \in Openers /\ conv[c].scenario = job[r].scenario
    BY <1>1 DEF SameScenario, Attached
<1>3. /\ conv'[c].scenario = conv[c].scenario /\ conv'[c].recs = job[r].recs
      /\ conv'[c].updated = now /\ DOMAIN conv'[c] = DOMAIN NotMade
      /\ \A d \in Openers \ {c} : conv'[d] = conv[d]
      /\ DOMAIN conv' = Openers
    BY <1>2 DEF Record, ReverseShape, NotMade
<1>4. \A g : Posed(g) => Posed(g)' /\ PosedIn(g)' = PosedIn(g)
    BY <1>1, StillPosed
<1>5. ReverseShape' /\ ReverseTyped'
  <2>1. ReverseShape'
    BY <1>1, <1>3 DEF ReverseShape
  <2>2. \A d \in Openers : conv'[d].scenario \in Scenarios \cup {None}
                           /\ conv'[d].updated \in 0..now
    BY <1>3 DEF ReverseTyped
  <2>3. QED
    BY <1>1, <2>1, <2>2 DEF ReverseTyped, Steps
<1>6. SameScenario'
  <2>1. \A q \in Openers : MadeFor(job[q].recs, job[q].scenario)'
    BY <1>1, <1>4 DEF SameScenario, MadeFor
  <2>2. \A d \in Openers : MadeFor(conv[d].recs, conv[d].scenario)'
    <3>1. MadeFor(conv[c].recs, conv[c].scenario)'
        BY <1>1, <1>2, <1>3, <2>1 DEF MadeFor
    <3>2. \A d \in Openers \ {c} : MadeFor(conv[d].recs, conv[d].scenario)'
        BY <1>3, <1>4 DEF SameScenario, MadeFor
    <3>3. QED
        BY <1>1, <3>1, <3>2
  <2>3. QED
    BY <1>1, <1>2, <1>3, <2>1, <2>2 DEF SameScenario, Attached
<1>7. MadeOnce'
    BY <1>1, <1>3 DEF MadeOnce
<1>8. KeptOrPast'
    BY <1>1, <1>3 DEF KeptOrPast, Working, Expired
<1>9. QED
    BY <1>5, <1>6, <1>7, <1>8

\* The steps by which a request is answered, the page's or the chat's.
LEMMA AnswerInv ==
    ASSUME SessionInv, ReverseInv, NEW r \in Openers, Answer(r),
           UNCHANGED sessionVars
    PROVE  ReverseInv'
BY OpenInv, UnderstandInv, ExecuteInv, CloseInv, RecordInv DEF Answer

LEMMA ServeInv ==
    ASSUME SessionInv, ReverseInv, NEW r \in Asks, Ask(r) \/ Serve(r),
           UNCHANGED sessionVars
    PROVE  ReverseInv'
BY Constants, AskInv, AnswerInv, CloseInv DEF Serve

-----------------------------------------------------------------------------
(* The knowledge chat *)

LEMMA StartChatInv ==
    ASSUME SessionInv, ChatInv, NEW r \in Chats, StartChat(r)
    PROVE  ChatInv'
<1>1. PICK consent \in BOOLEAN, opening \in {<<>>, Mandatory} :
         chat' = [chat EXCEPT ![r] =
                     [Silent EXCEPT !.opening = opening, !.scenario = scenario,
                          !.step = IF consent THEN "planning" ELSE "error"]]
    BY DEF StartChat
<1>2. /\ chat'[r].round = 1 /\ chat'[r].scenario \in Scenarios
      /\ \A q \in Chats \ {r} : chat'[q] = chat[q]
      /\ DOMAIN chat' = Chats /\ DOMAIN chat'[r] = DOMAIN Silent
    BY <1>1 DEF ChatInv, SessionInv, Silent
<1>3. QED
    BY <1>2, Constants DEF ChatInv

\* A step of a question that was asked: it keeps its scenario.
GoesOn(r) ==
    /\ chat[r].step # "idle" /\ chat'[r].scenario = chat[r].scenario
    /\ chat'[r].round \in 1..MaxRounds
    /\ \A q \in Chats \ {r} : chat'[q] = chat[q]
    /\ DOMAIN chat' = Chats /\ DOMAIN chat'[r] = DOMAIN Silent

LEMMA ConverseInv ==
    ASSUME ChatInv, NEW r \in Chats, Converse(r) \/ Stop(r)
    PROVE  ChatInv'
<1> USE Constants DEF GoesOn
<1>0. DOMAIN chat = Chats /\ DOMAIN chat[r] = DOMAIN Silent
      /\ chat[r].round \in 1..MaxRounds
    BY DEF ChatInv
<1>1. ASSUME GoesOn(r) PROVE ChatInv'
    BY <1>1 DEF ChatInv
<1>2. CASE Plan(r)
    BY <1>0, <1>1, <1>2 DEF Plan, Silent
<1>3. CASE SkipCall(r)
    BY <1>0, <1>1, <1>3 DEF SkipCall, Silent
<1>4. CASE Call(r)
    BY <1>0, <1>1, <1>4 DEF Call, Calling, Silent
<1>5. CASE CallFails(r)
    BY <1>0, <1>1, <1>5 DEF CallFails, Calling, Over, Silent
<1>6. CASE EndRound(r)
    BY <1>0, <1>1, <1>6 DEF EndRound, Silent
<1>7. CASE Announce(r)
  <2>1. CASE chat[r].confirmed = {}
    BY <1>0, <1>1, <1>7, <2>1 DEF Announce, Over, Silent
  <2>2. CASE chat[r].confirmed # {}
    BY <1>0, <1>1, <1>7, <2>2 DEF Announce, Silent
  <2>3. QED
    BY <2>1, <2>2
<1>8. CASE FinishChat(r)
    BY <1>0, <1>1, <1>8 DEF FinishChat, Over, Silent
<1>9. CASE ModelFails(r)
    BY <1>0, <1>1, <1>9 DEF ModelFails, Over, Silent
<1>10. CASE Abandon(r)
    BY <1>0, <1>1, <1>10 DEF Abandon, Over, Silent
<1>11. CASE Stop(r)
    BY <1>0, <1>1, <1>11 DEF Stop, Silent
<1>12. CASE UNCHANGED agentVars
    BY <1>12 DEF agentVars, ChatInv
<1>13. QED
    BY <1>2, <1>3, <1>4, <1>5, <1>6, <1>7, <1>8, <1>9, <1>10, <1>11, <1>12
    DEF Converse, AskPlanner, WaitForPlanner

\* What the chat's steps do to the conversations: nothing, or a step of the
\* request one of its calls makes.
ChatStep(r) ==
    \/ UNCHANGED reverseVars
    \/ \E call : /\ <<r, call>> \in Planners
                 /\ \/ /\ job[<<r, call>>].step = "idle" /\ chat[r].step = "calling"
                       /\ job' = [job EXCEPT ![<<r, call>>] =
                                     [Idle EXCEPT !.step = "asked",
                                                  !.scenario = chat[r].scenario]]
                       /\ UNCHANGED <<conv, kept, page, cut>>
                    \/ Answer(<<r, call>>)
                    \/ /\ job[<<r, call>>].step \in {"answered", "failed"}
                       /\ job' = [job EXCEPT ![<<r, call>>] =
                                     Closed(<<r, call>>, "shown")]
                       /\ UNCHANGED <<conv, kept, page, cut>>

LEMMA ChatSteps ==
    ASSUME NEW r \in Chats, StartChat(r) \/ Converse(r) \/ Stop(r)
    PROVE  ChatStep(r)
<1>1. ASSUME NEW outcomes \in SUBSET {"answered", "failed"}, NEW call,
             Return(r, call, outcomes)
      PROVE  ChatStep(r)
    BY <1>1 DEF Return, ChatStep
<1>2. CASE Call(r) \/ CallFails(r)
    BY <1>1, <1>2 DEF Call, CallFails
<1>3. CASE AskPlanner(r)
    BY <1>3 DEF AskPlanner, Calling, ChatStep
<1>4. CASE WaitForPlanner(r)
    BY <1>4 DEF WaitForPlanner, ChatStep
<1>5. CASE ~(Call(r) \/ CallFails(r) \/ AskPlanner(r) \/ WaitForPlanner(r))
    BY <1>5
    DEF ChatStep, StartChat, Converse, Stop, Plan, SkipCall, EndRound,
        Announce, FinishChat, ModelFails, Abandon
<1>6. QED
    BY <1>2, <1>3, <1>4, <1>5

LEMMA ChatStepInv ==
    ASSUME SessionInv, ReverseInv, ChatInv, NEW r \in Chats, ChatStep(r),
           UNCHANGED sessionVars
    PROVE  ReverseInv'
<1>1. CASE UNCHANGED reverseVars
    BY <1>1 DEF SessionInv, ReverseInv, ReverseShape, ReverseTyped, SameScenario,
        MadeOnce, KeptOrPast, MadeFor, Posed, PosedIn, Working, Expired, sessionVars,
        reverseVars
<1>2. ASSUME NEW p \in Planners, job[p].step = "idle", chat[r].step = "calling",
             job' = [job EXCEPT ![p] =
                        [Idle EXCEPT !.step = "asked", !.scenario = chat[r].scenario]],
             UNCHANGED <<conv, kept, page, cut>>
      PROVE  ReverseInv'
  <2>1. chat[r].scenario \in Scenarios /\ p \in Openers
    BY <1>2, Constants DEF ChatInv
  <2> DEFINE new == [Idle EXCEPT !.step = "asked", !.scenario = chat[r].scenario]
  <2>2. /\ DOMAIN new = DOMAIN Idle /\ new.step = "asked"
        /\ new.scenario = chat[r].scenario /\ new.conv = None /\ new.recs = <<>>
    BY DEF Idle
  <2>3. job' = [job EXCEPT ![p] = new]
    BY <1>2
  <2> HIDE DEF new
  <2>4. QED
    BY <1>2, <2>1, <2>2, <2>3, PoseInv
<1>3. ASSUME NEW p \in Planners, Answer(p) PROVE ReverseInv'
    BY <1>3, AnswerInv, Constants
<1>4. ASSUME NEW p \in Planners, job[p].step \in {"answered", "failed"},
             job' = [job EXCEPT ![p] = Closed(p, "shown")],
             UNCHANGED <<conv, kept, page, cut>>
      PROVE  ReverseInv'
  <2>1. p \in Openers
    BY Constants
  <2>2. /\ job'[p].step = "shown" /\ job'[p].recs = <<>>
        /\ job'[p].conv = None /\ job'[p].scenario = job[p].scenario
        /\ \A q \in Openers \ {p} : job'[q] = job[q]
        /\ DOMAIN job' = Openers /\ DOMAIN job'[p] = DOMAIN Idle
    BY <1>4, <2>1 DEF ReverseInv, ReverseShape, Closed, Idle
  <2>3. MadeFor(job'[p].recs, job[p].scenario)
    BY <2>2 DEF MadeFor
  <2>4. QED
    BY <1>4, <2>1, <2>2, <2>3, InnerStep DEF Attached, Steps
<1>5. QED
    BY <1>1, <1>2, <1>3, <1>4 DEF ChatStep

-----------------------------------------------------------------------------
(* The specification *)

LEMMA NextInv == IInv /\ [Next]_vars => IInv'
<1> SUFFICES ASSUME IInv, [Next]_vars PROVE IInv'
    OBVIOUS
<1>1. CASE Tick /\ UNCHANGED <<reverseVars, agentVars, questionVars>>
    BY <1>1, TickInv
<1>2. CASE SwitchScenario /\ ForgetReverse /\ ForgetQuestion /\ UNCHANGED agentVars
    BY <1>2, SwitchInv
<1>3. ASSUME UNCHANGED <<sessionVars, questionVars>>
      PROVE  SessionInv' /\ QuestionInv'
    BY <1>3 DEF IInv, SessionInv, QuestionInv, QuestionTyped, TalksOrPast, OwnScenario,
        Busy, Expired, sessionVars, questionVars
<1>4. ASSUME UNCHANGED <<sessionVars, reverseVars, agentVars>>
      PROVE  SessionInv' /\ ReverseInv' /\ ChatInv'
    BY <1>4 DEF IInv, SessionInv, ReverseInv, ChatInv, ReverseShape, ReverseTyped, SameScenario,
        MadeOnce, KeptOrPast, MadeFor, Posed, PosedIn, Working, Expired, sessionVars,
        reverseVars, agentVars
<1>5. CASE NextReverse /\ UNCHANGED <<sessionVars, agentVars, questionVars>>
    BY <1>3, <1>5, ServeInv DEF IInv, NextReverse, ChatInv, agentVars
<1>6. CASE NextAgent /\ UNCHANGED <<sessionVars, questionVars>>
  <2>1. PICK r \in Chats : StartChat(r) \/ Converse(r) \/ Stop(r)
    BY <1>6 DEF NextAgent
  <2>2. ChatInv' /\ ReverseInv'
    BY <1>6, <2>1, StartChatInv, ConverseInv, ChatSteps, ChatStepInv DEF IInv
  <2>3. QED
    BY <1>3, <1>6, <2>2 DEF IInv
<1>7. CASE NextQuestions /\ UNCHANGED <<sessionVars, reverseVars, agentVars>>
    BY <1>4, <1>7, QuestionStep DEF IInv, NextQuestions
<1>8. CASE UNCHANGED vars
    BY <1>3, <1>4, <1>8 DEF IInv, vars
<1>9. QED
    BY <1>1, <1>2, <1>5, <1>6, <1>7, <1>8 DEF Next

\* The inductive invariant holds of every behaviour of the three services.
THEOREM AlwaysIInv == Spec => []IInv
BY InitInv, NextInv, PTL DEF Spec

\* Types: clock, steps, identifiers and rounds stay within what the code can
\* give them, whatever page, model and tools do (skill.py, reverse_planning.py,
\* knowledge_chat.py).
THEOREM TypesHold == Spec => []TypeOK
<1>1. IInv => TypeOK
    BY Constants DEF IInv, SessionInv, ReverseInv, ReverseTyped, ChatInv, QuestionInv,
        QuestionTyped, TypeOK
<1>2. QED
    BY <1>1, AlwaysIInv, PTL

\* Conversations and answers are about one scenario, for any number of
\* overlapping requests, scenario changes and expiries (the checks of
\* ReverseConversationStore.open and _validate_question_plan suffice).
THEOREM ScenariosStayApart == Spec => []NoScenarioIsMixed
<1>1. IInv => NoScenarioIsMixed
    BY DEF IInv, ReverseInv, SameScenario, MadeFor, QuestionInv, OwnScenario,
        NoScenarioIsMixed
<1>2. QED
    BY <1>1, AlwaysIInv, PTL

\* Pruning takes nothing that could still be continued, except from under a
\* request that has worked for longer than a time to live (_prune of both
\* conversation stores).
THEOREM RecentOnesStay == Spec => []RecentConversationsAreKept
<1>1. IInv => RecentConversationsAreKept
    BY DEF IInv, ReverseInv, KeptOrPast, QuestionInv, TalksOrPast,
        RecentConversationsAreKept
<1>2. QED
    BY <1>1, AlwaysIInv, PTL

-----------------------------------------------------------------------------
(* What the agent's evidence keeps *)

\* The body of the loop of _merge_tool_evidence.
Taken(before, item) ==
    IF item \in ToSet(before) \/ Len(before) >= EvidenceLimit
    THEN before ELSE Append(before, item)

\* Nothing is lost, and the items of more are there unless it is full.
Keeps(before, more, after) ==
    /\ ToSet(before) \subseteq ToSet(after)
    /\ Len(before) <= Len(after)
    /\ more \subseteq ToSet(after) \/ Len(after) >= EvidenceLimit

LEMMA TakenType ==
    ASSUME NEW S, NEW before \in Seq(S), NEW item \in S
    PROVE  Taken(before, item) \in Seq(S)
BY DEF Taken

LEMMA TakenKeeps ==
    ASSUME NEW S, NEW before \in Seq(S), NEW item \in S
    PROVE  Keeps(before, {item}, Taken(before, item))
<1> USE DEF Keeps
<1>1. CASE item \in ToSet(before) \/ Len(before) >= EvidenceLimit
    BY <1>1 DEF Taken
<1>2. CASE ~(item \in ToSet(before) \/ Len(before) >= EvidenceLimit)
  <2>1. Taken(before, item) = Append(before, item)
      BY <1>2 DEF Taken
  <2>2. /\ Append(before, item) \in Seq(S)
        /\ Len(Append(before, item)) = Len(before) + 1
        /\ Append(before, item)[Len(before) + 1] = item
        /\ \A i \in 1..Len(before) : Append(before, item)[i] = before[i]
      OBVIOUS
  <2> QED
      BY <2>1, <2>2 DEF ToSet
<1> QED
    BY <1>1, <1>2

\* The merge is the loop over the items of a result.
LEMMA MergedUnfolds ==
    ASSUME NEW S, NEW items \in Seq(S), NEW more \in Seq(S)
    PROVE  \E take \in [0..Len(more) -> Seq(S)] :
               /\ take[0] = items /\ take[Len(more)] = Merged(items, more)
               /\ \A i \in 1..Len(more) : take[i] = Taken(take[i - 1], more[i])
<1> DEFINE n == Len(more)
           T == Seq(S)
           step == [i \in 1..n |-> [b \in T |-> Taken(b, more[i])]]
           Loop(f) == [i \in 0..n |-> IF i = 0 THEN items
                                      ELSE Taken(f[i - 1], more[i])]
           take == CHOOSE f : f = Loop(f)
<1>0. Merged(items, more) = take[n]
    BY DEF Merged, Taken
<1>1. /\ n \in Nat /\ items \in T
      /\ \A i \in 1..n, b \in T : Taken(b, more[i]) \in T
  <2>1. \A i \in 1..n : more[i] \in S
      OBVIOUS
  <2>2. ASSUME NEW i \in 1..n, NEW b \in Seq(S)
        PROVE  Taken(b, more[i]) \in Seq(S)
    <3>1. more[i] \in S
        BY <2>1
    <3> HIDE DEF n
    <3> QED
        BY <3>1, TakenType
  <2> QED
      BY <2>2
<1>2. step \in [1..n -> [T -> T]]
    BY <1>1
<1> HIDE DEF n, T
<1>3. PICK g \in [0..n -> T] :
          g[0] = items /\ \A i \in 1..n : g[i] = step[i][g[i - 1]]
  <2> HIDE DEF step
  <2>1. HasRecursion(n, T, items, step)
      BY <1>1, <1>2, RecursionUpTo
  <2> QED
      BY <2>1 DEF HasRecursion
<1>4. ASSUME NEW i \in 1..n PROVE g[i] = Taken(g[i - 1], more[i])
  <2>1. g[i - 1] \in T
      BY <1>1
  <2> QED
      BY <1>3, <2>1
<1>5. g = Loop(g)
    BY <1>1, <1>3, <1>4
<1>6. take = Loop(take)
    BY <1>5
<1> HIDE DEF take
<1>7. /\ take[0] = items
      /\ \A i \in 1..n : take[i] = Taken(take[i - 1], more[i])
    BY <1>1, <1>6
<1>8. take \in [0..n -> T]
  <2> DEFINE Q == {i \in 0..n : take[i] \in T}
  <2>1. 0 \in Q
      BY <1>1, <1>7
  <2>2. ASSUME NEW i \in 1..n, i - 1 \in Q PROVE i \in Q
    <3>1. take[i] = Taken(take[i - 1], more[i])
        BY <1>7
    <3> QED
        BY <1>1, <2>2, <3>1
  <2>3. 0..n \subseteq Q
    <3> HIDE DEF Q
    <3> QED
        BY <1>1, <2>1, <2>2, InductionUpTo
  <2> QED
      BY <1>6, <2>3
<1> QED
    BY <1>0, <1>7, <1>8 DEF n, T

\* What was in the evidence stays, and the items of a result that are not
\* taken are not taken because it is full.
LEMMA MergedKeeps ==
    ASSUME NEW S, NEW items \in Seq(S), NEW more \in Seq(S)
    PROVE  /\ Merged(items, more) \in Seq(S)
           /\ Keeps(items, ToSet(more), Merged(items, more))
<1> DEFINE n == Len(more)
           Seen(i) == {more[j] : j \in 1..i}
<1>0. n \in Nat /\ EvidenceLimit \in Nat /\ ToSet(more) = Seen(n)
      /\ \A i \in 1..n : more[i] \in S
    BY AgentAssumption DEF ToSet
<1>1. PICK take \in [0..n -> Seq(S)] :
          /\ take[0] = items /\ take[n] = Merged(items, more)
          /\ \A i \in 1..n : take[i] = Taken(take[i - 1], more[i])
    BY MergedUnfolds
<1> DEFINE Q == {i \in 0..n : Keeps(items, Seen(i), take[i])}
<1>2. 0 \in Q
    BY <1>0, <1>1 DEF Keeps
<1>3. ASSUME NEW i \in 1..n, i - 1 \in Q PROVE i \in Q
  <2>1. take[i - 1] \in Seq(S) /\ take[i] = Taken(take[i - 1], more[i])
        /\ take[i] \in Seq(S) /\ more[i] \in S
      BY <1>0, <1>1
  <2>2. Keeps(take[i - 1], {more[i]}, take[i])
      BY <2>1, TakenKeeps
  <2>3. Len(take[i]) \in Nat /\ Len(take[i - 1]) \in Nat /\ Len(items) \in Nat
      BY <2>1
  <2>4. Keeps(items, Seen(i - 1), take[i - 1])
      BY <1>3
  <2>5. Seen(i) = Seen(i - 1) \cup {more[i]}
      BY <1>0
  <2> HIDE DEF Seen
  <2>6. Keeps(items, Seen(i), take[i])
      BY <1>0, <2>2, <2>3, <2>4, <2>5 DEF Keeps
  <2> QED
      BY <2>6
<1>4. n \in Q
  <2>1. n \in Nat
      BY <1>0
  <2> HIDE DEF Q, n
  <2>2. 0..n \subseteq Q
      BY <1>2, <1>3, <2>1, InductionUpTo
  <2> QED
      BY <2>1, <2>2
<1> QED
    BY <1>0, <1>1, <1>4

-----------------------------------------------------------------------------
(* Drafts and what is said of them *)

\* Whatever the evidence can hold.
Items == Calls \cup UNION {ToSet(ItemsOf[call]) : call \in Calls}

AgentTyped(r) ==
    /\ chat[r].todo \in Seq(Calls) /\ chat[r].opening \in Seq(Calls)
    /\ chat[r].items \in Seq(Items) /\ drafts[r] \in Seq(Calls)

\* A draft that is saved belongs to an executed call and, while there is room,
\* is part of the evidence.
AgentKnows(r) ==
    /\ \A i, j \in DOMAIN drafts[r] : drafts[r][i] = drafts[r][j] => i = j
    /\ chat[r].executed = chat[r].confirmed
    /\ chat[r].announced \subseteq chat[r].confirmed
    /\ chat[r].step = "idle" => drafts[r] = <<>>
    /\ chat[r].step \in {"planning", "calling", "observed"} =>
           /\ ToSet(drafts[r]) \subseteq chat[r].executed
           /\ ToSet(drafts[r]) \subseteq ToSet(chat[r].items) \/ Full(r)
    /\ chat[r].step = "answering" =>
           /\ chat[r].confirmed # {}
           /\ ToSet(drafts[r]) \subseteq chat[r].announced \/ Full(r)

AgentInv ==
    /\ DOMAIN drafts = Chats
    /\ \A r \in Chats : AgentTyped(r) /\ AgentKnows(r)

LEMMA ToolConstants ==
    /\ Mandatory \in Seq(Calls) /\ Fallback \in Seq(Calls)
    /\ \A l \in Loads : l.plans \subseteq Seq(Calls)
    /\ \A call \in Calls :
           /\ ToolOf[call] \in {"read", "draft", "reverse"}
           /\ FollowUps[call] \in Seq(Calls)
           /\ ItemsOrNote(call) \in Seq(Items)
           /\ ToolOf[call] # "read" => call \in ToSet(ItemsOrNote(call))
<1>1. /\ Mandatory \in Seq(Calls) /\ Fallback \in Seq(Calls)
      /\ \A l \in Loads : l.plans \subseteq Seq(Calls)
    BY AgentAssumption
<1>2. ASSUME NEW call \in Calls
      PROVE  /\ ToolOf[call] \in {"read", "draft", "reverse"}
             /\ FollowUps[call] \in Seq(Calls)
             /\ ItemsOrNote(call) \in Seq(Items)
             /\ ToolOf[call] # "read" => call \in ToSet(ItemsOrNote(call))
  <2>1. ToolOf[call] \in {"read", "draft", "reverse"} /\ FollowUps[call] \in Seq(Calls)
      BY AgentAssumption
  <2>2. ItemsOf[call] \in Seq(Items)
    <3>1. ItemsOf[call] \in Seq(ToSet(ItemsOf[call]))
        BY AgentAssumption
    <3>2. ToSet(ItemsOf[call]) \subseteq Items
        BY DEF Items
    <3> QED
        BY <3>1, <3>2
  <2>3. <<call>> \in Seq(Items) /\ call \in ToSet(<<call>>)
      BY DEF Items, ToSet
  <2> QED
      BY <2>1, <2>2, <2>3, DraftsAreItems DEF ItemsOrNote
<1> QED
    BY <1>1, <1>2

\* The step of one request leaves the others alone.
LEMMA OneChat ==
    ASSUME AgentInv, NEW r \in Chats, DOMAIN drafts' = Chats,
           \A q \in Chats \ {r} : chat'[q] = chat[q] /\ drafts'[q] = drafts[q],
           AgentTyped(r)', AgentKnows(r)'
    PROVE  AgentInv'
BY DEF AgentInv, AgentTyped, AgentKnows, Full

LEMMA NoItems ==
    <<>> \in Seq(Calls) /\ <<>> \in Seq(Items) /\ DOMAIN <<>> = {} /\ ToSet(<<>>) = {}
<1>1. DOMAIN <<>> = {}
    OBVIOUS
<1> QED
    BY <1>1 DEF ToSet

LEMMA InitAgentInv == Init => AgentInv
<1> SUFFICES ASSUME Init PROVE AgentInv
    OBVIOUS
<1>1. /\ DOMAIN drafts = Chats
      /\ \A r \in Chats : chat[r] = Silent /\ drafts[r] = <<>>
    BY DEF Init, InitAgent
<1>2. \A r \in Chats :
          /\ chat[r].step = "idle" /\ chat[r].opening = <<>>
          /\ chat[r].todo = <<>> /\ chat[r].items = <<>>
          /\ chat[r].executed = {} /\ chat[r].confirmed = {}
          /\ chat[r].announced = {}
    BY <1>1 DEF Silent
<1>3. ASSUME NEW r \in Chats PROVE AgentTyped(r) /\ AgentKnows(r)
    BY <1>1, <1>2, NoItems DEF AgentTyped, AgentKnows
<1> QED
    BY <1>1, <1>3 DEF AgentInv

LEMMA StartChatKeeps ==
    ASSUME IInv, AgentInv, NEW r \in Chats, StartChat(r)
    PROVE  AgentInv'
<1>1. PICK consent \in BOOLEAN, opening \in {<<>>, Mandatory} :
         chat' = [chat EXCEPT ![r] =
                     [Silent EXCEPT !.opening = opening, !.scenario = scenario,
                          !.step = IF consent THEN "planning" ELSE "error"]]
    BY DEF StartChat
<1>2. /\ \A q \in Chats \ {r} : chat'[q] = chat[q]
      /\ chat'[r].step \in {"planning", "error"} /\ chat'[r].opening = opening
      /\ chat'[r].todo = <<>> /\ chat'[r].items = <<>>
      /\ chat'[r].executed = {} /\ chat'[r].confirmed = {}
      /\ chat'[r].announced = {}
      /\ drafts' = drafts /\ drafts[r] = <<>>
    BY <1>1 DEF StartChat, IInv, ChatInv, Silent, AgentInv, AgentKnows
<1>3. opening \in Seq(Calls)
  <2>1. Mandatory \in Seq(Calls) /\ <<>> \in Seq(Calls)
      BY ToolConstants, NoItems
  <2> QED
      BY <2>1
<1>4. AgentTyped(r)' /\ AgentKnows(r)'
    BY <1>2, <1>3 DEF AgentTyped, AgentKnows, AgentInv, ToSet
<1> QED
    BY <1>2, <1>4, OneChat DEF AgentInv

\* A step of a conversation that saves no draft and takes no evidence.
LEMMA QuietChat ==
    ASSUME AgentInv, NEW r \in Chats, UNCHANGED drafts,
           \A q \in Chats \ {r} : chat'[q] = chat[q],
           chat[r].step \in {"planning", "calling", "observed"},
           chat'[r].step \in {"planning", "calling", "observed"},
           chat'[r].todo \in Seq(Calls),
           \A field \in {"opening", "executed", "confirmed", "items", "announced"} :
               chat'[r][field] = chat[r][field]
    PROVE  AgentInv'
<1>1. /\ chat'[r].opening = chat[r].opening
      /\ chat'[r].executed = chat[r].executed
      /\ chat'[r].confirmed = chat[r].confirmed
      /\ chat'[r].items = chat[r].items
      /\ chat'[r].announced = chat[r].announced
    OBVIOUS
<1>2. AgentTyped(r)' /\ AgentKnows(r)'
    BY <1>1 DEF AgentInv, AgentTyped, AgentKnows, Full
<1> QED
    BY <1>2, OneChat DEF AgentInv

\* The end of a request, which may have saved one more draft.
LEMMA EndedChat ==
    ASSUME AgentInv, NEW r \in Chats,
           NEW step \in {"done", "error", "abandoned"},
           chat' = [chat EXCEPT ![r] = Over(r, step)], DOMAIN chat = Chats,
           \/ UNCHANGED drafts
           \/ \E call \in Calls \ ToSet(drafts[r]) :
                  drafts' = [drafts EXCEPT ![r] = Append(@, call)]
    PROVE  AgentInv'
<1>1. /\ \A q \in Chats \ {r} : chat'[q] = chat[q]
      /\ chat'[r].step = step /\ chat'[r].opening = <<>>
      /\ chat'[r].todo = <<>> /\ chat'[r].items = <<>>
      /\ chat'[r].executed = {} /\ chat'[r].confirmed = {}
      /\ chat'[r].announced = {}
    BY DEF Over, Silent
<1>2. drafts[r] \in Seq(Calls) /\ DOMAIN drafts = Chats
      /\ \A i, j \in DOMAIN drafts[r] : drafts[r][i] = drafts[r][j] => i = j
    BY DEF AgentInv, AgentTyped, AgentKnows
<1>3. /\ DOMAIN drafts' = Chats /\ drafts'[r] \in Seq(Calls)
      /\ \A q \in Chats \ {r} : drafts'[q] = drafts[q]
      /\ \A i, j \in DOMAIN drafts'[r] : drafts'[r][i] = drafts'[r][j] => i = j
  <2>1. CASE UNCHANGED drafts
      BY <1>2, <2>1
  <2>2. ASSUME NEW call \in Calls \ ToSet(drafts[r]),
               drafts' = [drafts EXCEPT ![r] = Append(@, call)]
        PROVE  /\ DOMAIN drafts' = Chats /\ drafts'[r] \in Seq(Calls)
               /\ \A q \in Chats \ {r} : drafts'[q] = drafts[q]
               /\ \A i, j \in DOMAIN drafts'[r] :
                      drafts'[r][i] = drafts'[r][j] => i = j
      BY <1>2, <2>2 DEF ToSet
  <2> QED
      BY <2>1, <2>2
<1>4. AgentTyped(r)' /\ AgentKnows(r)'
    BY <1>1, <1>3, NoItems DEF AgentTyped, AgentKnows
<1> QED
    BY <1>1, <1>3, <1>4, OneChat

LEMMA CallKeeps ==
    ASSUME IInv, AgentInv, NEW r \in Chats, Call(r)
    PROVE  AgentInv'
<1> DEFINE call == Due(r)
<1>1. /\ chat[r].todo \in Seq(Calls) /\ chat[r].todo # <<>>
      /\ chat[r].step = "calling" /\ call \notin chat[r].executed
      /\ drafts' = DraftsOf(r, call) /\ call \in Calls
      /\ drafts[r] \in Seq(Calls) /\ DOMAIN drafts = Chats
      /\ chat[r].items \in Seq(Items) /\ EvidenceLimit \in Nat
    BY AgentAssumption DEF Call, Calling, Due, AgentInv, AgentTyped
<1>2. /\ \A q \in Chats \ {r} : chat'[q] = chat[q]
      /\ chat'[r].step = "calling" /\ chat'[r].opening = chat[r].opening
      /\ chat'[r].executed = chat[r].executed \cup {call}
      /\ chat'[r].confirmed = chat[r].confirmed \cup {call}
      /\ chat'[r].items = Merged(chat[r].items, ItemsOrNote(call))
      /\ chat'[r].todo = FollowUps[call] \o Tail(chat[r].todo)
      /\ chat'[r].announced = chat[r].announced
    BY DEF Call, Calling, IInv, ChatInv, Silent
<1>3. /\ ItemsOrNote(call) \in Seq(Items) /\ FollowUps[call] \in Seq(Calls)
      /\ ToolOf[call] # "read" => call \in ToSet(ItemsOrNote(call))
    BY <1>1, ToolConstants
<1> HIDE DEF call
<1>4. /\ chat'[r].items \in Seq(Items)
      /\ Keeps(chat[r].items, ToSet(ItemsOrNote(call)), chat'[r].items)
    BY <1>1, <1>2, <1>3, MergedKeeps
<1>5. chat'[r].todo \in Seq(Calls)
    BY <1>1, <1>2, <1>3
<1>6. /\ DOMAIN drafts' = Chats
      /\ \A q \in Chats \ {r} : drafts'[q] = drafts[q]
      /\ \/ drafts'[r] = drafts[r]
         \/ drafts'[r] = Append(drafts[r], call) /\ ToolOf[call] # "read"
    BY <1>1 DEF DraftsOf, AgentInv
<1>7. /\ drafts'[r] \in Seq(Calls)
      /\ ToSet(drafts'[r]) \subseteq ToSet(drafts[r]) \cup {call}
      /\ call \in ToSet(drafts'[r]) \ ToSet(drafts[r]) => ToolOf[call] # "read"
  <2>1. CASE drafts'[r] = drafts[r]
      BY <1>1, <2>1
  <2>2. CASE drafts'[r] = Append(drafts[r], call) /\ ToolOf[call] # "read"
    <3>1. /\ Append(drafts[r], call) \in Seq(Calls)
          /\ DOMAIN drafts[r] = 1..Len(drafts[r]) /\ Len(drafts[r]) \in Nat
          /\ DOMAIN Append(drafts[r], call) = 1..(Len(drafts[r]) + 1)
          /\ Append(drafts[r], call)[Len(drafts[r]) + 1] = call
          /\ \A i \in 1..Len(drafts[r]) :
                 Append(drafts[r], call)[i] = drafts[r][i]
        BY <1>1
    <3> QED
        BY <2>2, <3>1 DEF ToSet
  <2> QED
      BY <1>6, <2>1, <2>2
<1>8. /\ ToSet(drafts[r]) \subseteq chat[r].executed
      /\ ToSet(drafts[r]) \subseteq ToSet(chat[r].items) \/ Full(r)
    BY <1>1 DEF AgentInv, AgentKnows
<1>9. \A i, j \in DOMAIN drafts'[r] : drafts'[r][i] = drafts'[r][j] => i = j
    BY <1>1, <1>6, <1>8 DEF AgentInv, AgentKnows, ToSet
<1>10. ToSet(drafts'[r]) \subseteq ToSet(chat'[r].items) \/ Full(r)'
  <2>1. Len(chat[r].items) \in Nat /\ Len(chat'[r].items) \in Nat
      BY <1>1, <1>4
  <2>2. Full(r) => Full(r)'
      BY <1>1, <1>4, <2>1 DEF Full, Keeps
  <2>3. CASE ~Full(r)'
    <3>1. /\ ToSet(chat[r].items) \subseteq ToSet(chat'[r].items)
          /\ ToSet(ItemsOrNote(call)) \subseteq ToSet(chat'[r].items)
        BY <1>4, <2>3 DEF Full, Keeps
    <3> QED
        BY <1>3, <1>7, <1>8, <2>2, <2>3, <3>1
  <2> QED
      BY <2>3
<1>11. AgentTyped(r)' /\ AgentKnows(r)'
    BY <1>1, <1>2, <1>4, <1>5, <1>7, <1>8, <1>9, <1>10
    DEF AgentInv, AgentTyped, AgentKnows
<1> QED
    BY <1>2, <1>6, <1>11, OneChat

LEMMA ConverseKeeps ==
    ASSUME IInv, AgentInv, NEW r \in Chats, Converse(r) \/ Stop(r)
    PROVE  AgentInv'
<1>0. /\ DOMAIN chat = Chats /\ DOMAIN chat[r] = DOMAIN Silent
      /\ AgentTyped(r) /\ AgentKnows(r)
    BY DEF IInv, ChatInv, AgentInv
<1>1. CASE Plan(r)
  <2>1. PICK calls \in PlanOptions(r) :
           chat' = [chat EXCEPT
               ![r].step = IF calls = <<>> THEN "observed" ELSE "calling",
               ![r].todo = SubSeq(calls, 1, IF Len(calls) < CallsPerRound
                                            THEN Len(calls) ELSE CallsPerRound),
               ![r].ran = FALSE]
      BY <1>1 DEF Plan
  <2>2. calls \in Seq(Calls)
    <3>1. /\ chat[r].opening \in Seq(Calls) /\ Fallback \in Seq(Calls)
          /\ load.plans \subseteq Seq(Calls)
        BY <1>0, ToolConstants DEF AgentTyped, IInv, SessionInv
    <3> QED
        BY <3>1 DEF PlanOptions
  <2>3. chat'[r].todo \in Seq(Calls)
    <3>1. Len(calls) \in Nat /\ CallsPerRound \in Nat
        BY <2>2, AgentAssumption
    <3>2. \A k \in 0..Len(calls) : SubSeq(calls, 1, k) \in Seq(Calls)
        BY <2>2
    <3>3. chat'[r].todo = SubSeq(calls, 1, IF Len(calls) < CallsPerRound
                                           THEN Len(calls) ELSE CallsPerRound)
        BY <1>0, <2>1 DEF Silent
    <3> QED
        BY <3>1, <3>2, <3>3
  <2>4. /\ UNCHANGED drafts /\ chat[r].step = "planning"
        /\ chat'[r].step \in {"calling", "observed"}
        /\ \A q \in Chats \ {r} : chat'[q] = chat[q]
        /\ \A field \in {"opening", "executed", "confirmed", "items", "announced"} :
               chat'[r][field] = chat[r][field]
      BY <1>0, <1>1, <2>1 DEF Plan, Silent
  <2> QED
      BY <2>3, <2>4, QuietChat
<1>2. CASE SkipCall(r)
  <2>1. Tail(chat[r].todo) \in Seq(Calls)
      BY <1>0, <1>2 DEF SkipCall, AgentTyped
  <2> QED
      BY <1>0, <1>2, <2>1, QuietChat DEF SkipCall, Silent
<1>3. CASE Call(r)
    BY <1>3, CallKeeps
<1>4. CASE CallFails(r)
  <2>1. /\ chat[r].todo \in Seq(Calls) /\ chat[r].todo # <<>>
        /\ Head(chat[r].todo) \notin chat[r].executed
        /\ chat[r].step = "calling"
        /\ chat' = [chat EXCEPT ![r] = Over(r, "error")]
      BY <1>0, <1>4 DEF CallFails, Calling, Due, AgentTyped
  <2>2. Head(chat[r].todo) \in Calls \ ToSet(drafts[r])
      BY <1>0, <2>1 DEF AgentKnows
  <2>3. \/ UNCHANGED drafts
        \/ drafts' = [drafts EXCEPT ![r] = Append(@, Head(chat[r].todo))]
      BY <1>4 DEF CallFails, DraftsOf, Due
  <2> QED
      BY <1>0, <2>1, <2>2, <2>3, EndedChat
<1>5. CASE EndRound(r)
    BY <1>0, <1>5, QuietChat DEF EndRound, Silent, AgentTyped
<1>6. CASE Announce(r)
  <2>1. CASE chat[r].confirmed = {}
      BY <1>0, <1>6, <2>1, EndedChat DEF Announce
  <2>2. CASE chat[r].confirmed # {}
    <3>1. /\ \A q \in Chats \ {r} : chat'[q] = chat[q]
          /\ chat[r].step = "observed" /\ chat'[r].step = "answering"
          /\ chat'[r].opening = chat[r].opening /\ chat'[r].todo = chat[r].todo
          /\ chat'[r].items = chat[r].items
          /\ chat'[r].executed = chat[r].executed
          /\ chat'[r].confirmed = chat[r].confirmed
          /\ chat'[r].announced = {c \in ToSet(chat[r].items) \cap Calls :
                                      c \in ToSet(drafts[r])}
          /\ UNCHANGED drafts
        BY <1>0, <1>6, <2>2 DEF Announce, Silent
    <3>2. ToSet(drafts[r]) \subseteq Calls
        BY <1>0 DEF AgentTyped, ToSet
    <3>3. chat'[r].announced \subseteq chat'[r].confirmed
        BY <1>0, <3>1 DEF AgentKnows
    <3>4. ToSet(drafts'[r]) \subseteq chat'[r].announced \/ Full(r)'
        BY <1>0, <3>1, <3>2 DEF AgentKnows, Full
    <3>5. AgentTyped(r)' /\ AgentKnows(r)'
        BY <1>0, <2>2, <3>1, <3>3, <3>4 DEF AgentTyped, AgentKnows
    <3> QED
        BY <3>1, <3>5, OneChat DEF AgentInv
  <2> QED
      BY <2>1, <2>2
<1>7. CASE FinishChat(r)
    BY <1>0, <1>7, EndedChat DEF FinishChat
<1>8. CASE ModelFails(r)
    BY <1>0, <1>8, EndedChat DEF ModelFails
<1>9. CASE Abandon(r)
    BY <1>0, <1>9, EndedChat DEF Abandon
<1>11. CASE UNCHANGED agentVars
    BY <1>11 DEF agentVars, AgentInv, AgentTyped, AgentKnows, Full
<1>10. CASE Stop(r)
  <2>1. /\ \A q \in Chats \ {r} : chat'[q] = chat[q]
        /\ \A field \in DOMAIN Silent \ {"stopped"} :
               chat'[r][field] = chat[r][field]
        /\ UNCHANGED drafts
      BY <1>0, <1>10 DEF Stop
  <2>2. /\ chat'[r].step = chat[r].step /\ chat'[r].opening = chat[r].opening
        /\ chat'[r].todo = chat[r].todo /\ chat'[r].items = chat[r].items
        /\ chat'[r].executed = chat[r].executed
        /\ chat'[r].confirmed = chat[r].confirmed
        /\ chat'[r].announced = chat[r].announced
      BY <2>1 DEF Silent
  <2>3. AgentTyped(r)' /\ AgentKnows(r)'
      BY <1>0, <2>1, <2>2 DEF AgentTyped, AgentKnows, Full
  <2> QED
      BY <2>1, <2>3, OneChat DEF AgentInv
<1> QED
    BY <1>1, <1>2, <1>3, <1>4, <1>5, <1>6, <1>7, <1>8, <1>9, <1>10, <1>11
    DEF Converse, AskPlanner, WaitForPlanner

LEMMA NextAgentInv == IInv /\ AgentInv /\ [Next]_vars => AgentInv'
<1> SUFFICES ASSUME IInv, AgentInv, [Next]_vars PROVE AgentInv'
    OBVIOUS
<1>1. CASE NextAgent
    BY <1>1, StartChatKeeps, ConverseKeeps DEF NextAgent
<1>2. CASE UNCHANGED agentVars
    BY <1>2 DEF agentVars, AgentInv, AgentTyped, AgentKnows, Full
<1> QED
    BY <1>1, <1>2 DEF Next, vars

\* However rounds, failures and stops are ordered and whatever the model plans:
\* no call saves two drafts in one question, and an answer that is complete has
\* announced every draft saved for it unless its evidence was full
\* (the executed set of _run_agent and _merge_tool_evidence).
THEOREM DraftsAnnounced == Spec => []DraftsAreAnnounced
<1>1. IInv /\ AgentInv => DraftsAreAnnounced
    BY DEF AgentInv, AgentKnows, DraftsAreAnnounced
<1>2. Init => AgentInv
    BY InitAgentInv
<1> QED
    BY <1>1, <1>2, NextAgentInv, AlwaysIInv, PTL DEF Spec

-----------------------------------------------------------------------------
(* Numbers and what the page shows under them *)

\* Conversation c holds what the page shows, or nothing yet.
InStep(c) == c \in Asks /\ conv[c].recs \in {page.shown, <<>>}

\* What holds of a request when the page waits for one answer at a time.
PageKnows(r) ==
    /\ job[r].step = "asked" /\ job[r].held # None => InStep(job[r].held)
    /\ job[r].step \in {"opened", "planned", "drawn"} => InStep(job[r].conv)
    /\ job[r].step \in {"planned", "drawn", "answered"} /\ ~job[r].refused =>
           job[r].plan.numbers \in Seq(Int)
    /\ job[r].step \in {"drawn", "answered"} /\ job[r].refused =>
           job[r].recs \in {page.shown, <<>>}
    /\ job[r].step \in {"drawn", "answered"} /\ ~job[r].refused
          /\ job[r].plan.numbers # <<>> =>
           /\ \A i \in DOMAIN job[r].plan.numbers :
                  job[r].plan.numbers[i] \in DOMAIN page.shown
           /\ job[r].recs = Picked(page.shown, job[r].plan.numbers)
    /\ job[r].step = "answered" =>
           job[r].conv \in Asks /\ conv[job[r].conv].recs = job[r].recs

\* A request names conversations of the page alone, and it refuses once, when
\* the question is understood.
JobShape(r) ==
    /\ {job[r].conv, job[r].held} \subseteq Asks \cup {None}
    /\ DOMAIN job[r].plan = DOMAIN NoPlan
    /\ job[r].step \notin {"drawn", "answered"} => ~job[r].refused

\* A request of the chat works on the conversation it opened.
PlannerShape(p) ==
    /\ job[p].held = None /\ job[p].conv \in {None, p}
    /\ DOMAIN job[p].plan = DOMAIN NoPlan

SteadyPage ==
    /\ \A q, r \in InFlight : q = r
    /\ \A r \in Asks : PageKnows(r)
    /\ page.held # None /\ (\A r \in Asks : job[r].step # "answered")
           => InStep(page.held)

PageInv ==
    /\ DOMAIN page = {"held", "shown", "steady"}
    /\ page.held \in Asks \cup {None}
    /\ \A c \in Openers : DOMAIN conv[c].plan = DOMAIN NoPlan
    /\ \A r \in Asks : JobShape(r)
    /\ \A p \in Planners : PlannerShape(p)
    /\ page.steady => SteadyPage

\* The body of the loop of _recommendation_numbers.
Selected(before, number, allowed) ==
    IF number \in allowed \ ToSet(before) THEN Append(before, number) ELSE before

\* Numbers that are selected are a sequence of numbers.
LEMMA OnceType ==
    ASSUME NEW numbers \in Seq(Int), NEW allowed
    PROVE  Once(numbers, allowed) \in Seq(Int)
<1> DEFINE n == Len(numbers)
           T == Seq(Int)
           step == [i \in 1..n |-> [b \in T |-> Selected(b, numbers[i], allowed)]]
           Loop(f) == [i \in 0..n |-> IF i = 0 THEN <<>>
                                      ELSE Selected(f[i - 1], numbers[i], allowed)]
           chosen == CHOOSE f : f = Loop(f)
<1>0. Once(numbers, allowed) = chosen[n]
    BY DEF Once, Selected
<1>1. /\ n \in Nat /\ <<>> \in T
      /\ \A i \in 1..n, b \in T : Selected(b, numbers[i], allowed) \in T
    BY DEF Selected
<1>2. step \in [1..n -> [T -> T]]
    BY <1>1
<1> HIDE DEF n, T
<1>3. PICK g \in [0..n -> T] :
          g[0] = <<>> /\ \A i \in 1..n : g[i] = step[i][g[i - 1]]
  <2> HIDE DEF step
  <2>1. HasRecursion(n, T, <<>>, step)
      BY <1>1, <1>2, RecursionUpTo
  <2> QED
      BY <2>1 DEF HasRecursion
<1>4. ASSUME NEW i \in 1..n PROVE g[i] = Selected(g[i - 1], numbers[i], allowed)
  <2>1. g[i - 1] \in T
      BY <1>1
  <2> QED
      BY <1>3, <2>1
<1>5. g = Loop(g)
    BY <1>1, <1>3, <1>4
<1>6. chosen = Loop(chosen)
    BY <1>5
<1> HIDE DEF chosen
<1>7. /\ chosen[0] = <<>>
      /\ \A i \in 1..n :
            chosen[i] = Selected(chosen[i - 1], numbers[i], allowed)
    BY <1>1, <1>6
<1> DEFINE Q == {i \in 0..n : chosen[i] \in T}
<1>8. 0 \in Q
    BY <1>1, <1>7
<1>9. ASSUME NEW i \in 1..n, i - 1 \in Q PROVE i \in Q
    BY <1>1, <1>7, <1>9
<1>10. 0..n \subseteq Q
  <2> HIDE DEF Q
  <2> QED
      BY <1>1, <1>8, <1>9, InductionUpTo
<1> QED
    BY <1>0, <1>1, <1>10 DEF T

LEMMA SelectedType ==
    ASSUME NEW r, NEW raw \in Understandings
    PROVE  SelectedBy(r, raw) \in Seq(Int)
<1>1. raw.numbers \in {<<>>} \cup Selections
    BY DEF Understandings
<1>2. raw.numbers \in Seq(Int)
  <2>1. <<>> \in Seq(Int)
      OBVIOUS
  <2> QED
      BY <1>1, <2>1, ReverseAssumption
<1> QED
    BY <1>2, OnceType DEF SelectedBy, Inferred, Named

LEMMA InitPageInv == Init => PageInv
BY Constants
DEF Init, InitReverse, PageInv, SteadyPage, JobShape, PlannerShape, PageKnows, InFlight,
    NotMade, Idle, NoPlan

\* Nobody else is answered while the page waits for request r.
LEMMA WaitsForOne ==
    ASSUME SteadyPage, NEW r \in InFlight
    PROVE  \A q \in Asks \ {r} : job[q].step \in {"idle", "shown"}
BY DEF SteadyPage, InFlight

LEMMA OpenersApart ==
    Asks \subseteq Openers /\ Planners \subseteq Openers /\ Planners \cap Asks = {}
BY Constants

\* A step of one request of the page.
LEMMA OneJob ==
    ASSUME PageInv, NEW r \in Asks,
           page.steady => r \in InFlight,
           \A q \in Openers \ {r} : job'[q] = job[q],
           JobShape(r)',
           DOMAIN page' = DOMAIN page, page'.held \in Asks \cup {None},
           \A c \in Openers : DOMAIN conv'[c].plan = DOMAIN NoPlan,
           page'.steady => page.steady,
           page'.steady =>
               /\ PageKnows(r)'
               /\ page'.held # None /\ job'[r].step # "answered" => InStep(page.held)'
    PROVE  PageInv'
<1> USE OpenersApart
<1>1. \A q \in Asks : JobShape(q)'
    BY DEF PageInv, JobShape
<1>2. ASSUME page'.steady PROVE SteadyPage'
  <2>1. /\ SteadyPage /\ r \in InFlight
        /\ \A q \in Asks \ {r} : job[q].step \in {"idle", "shown"}
      BY <1>2, WaitsForOne DEF PageInv
  <2>2. \A q \in Asks \ {r} : PageKnows(q)' /\ q \notin InFlight'
      BY <2>1 DEF PageKnows, InFlight
  <2> QED
      BY <1>2, <2>2 DEF SteadyPage, InFlight
<1>3. \A p \in Planners : PlannerShape(p)'
    BY DEF PageInv, PlannerShape
<1> QED
    BY <1>1, <1>2, <1>3 DEF PageInv

LEMMA AskKeeps ==
    ASSUME IInv, PageInv, NEW r \in Asks, Ask(r)
    PROVE  PageInv'
<1> USE OpenersApart
<1>1. /\ job[r].step = "idle" /\ job'[r].step = "asked" /\ ~job'[r].refused
      /\ job'[r].held = page.held /\ job'[r].conv = None
      /\ job'[r].plan = NoPlan
      /\ \A q \in Openers \ {r} : job'[q] = job[q]
      /\ UNCHANGED conv
    BY DEF Ask, IInv, ReverseInv, ReverseShape, Idle
<1>2. /\ DOMAIN page' = DOMAIN page /\ page'.held = page.held
      /\ page'.shown = page.shown
      /\ page'.steady = (page.steady /\ InFlight = {})
    BY DEF Ask, PageInv
<1>3. \A q \in Asks : JobShape(q)'
    BY <1>1 DEF PageInv, JobShape
<1>4. ASSUME page'.steady PROVE SteadyPage'
  <2>1. SteadyPage /\ InFlight = {}
      BY <1>2, <1>4 DEF PageInv
  <2>2. \A q \in Asks : job[q].step \in {"idle", "shown"}
      BY <2>1 DEF InFlight
  <2>3. page.held # None => InStep(page.held) /\ InStep(page.held)'
      BY <1>1, <1>2, <2>1, <2>2 DEF SteadyPage, InStep
  <2>4. PageKnows(r)'
      BY <1>1, <1>2, <2>3 DEF PageKnows, InStep
  <2>5. \A q \in Asks \ {r} : PageKnows(q)' /\ q \notin InFlight'
      BY <1>1, <2>2 DEF PageKnows, InFlight
  <2> QED
      BY <1>2, <2>3, <2>4, <2>5 DEF SteadyPage, InFlight
<1>5. \A p \in Planners : PlannerShape(p)'
    BY <1>1 DEF PageInv, PlannerShape
<1> QED
    BY <1>1, <1>2, <1>3, <1>4, <1>5 DEF PageInv

LEMMA OpenKeeps ==
    ASSUME IInv, PageInv, NEW r \in Asks, Open(r)
    PROVE  PageInv'
<1> USE OpenersApart
<1>1. /\ job[r].step = "asked" /\ job'[r].step = "opened"
      /\ job'[r].refused = job[r].refused /\ job'[r].held = None
      /\ job'[r].plan = job[r].plan
      /\ \A q \in Openers \ {r} : job'[q] = job[q]
      /\ UNCHANGED page
    BY DEF Open, IInv, ReverseInv, ReverseShape, Idle
<1>2. \/ /\ job'[r].conv = job[r].held /\ job[r].held # None /\ UNCHANGED conv
      \/ /\ job'[r].conv = r /\ conv'[r].recs = <<>> /\ conv'[r].plan = NoPlan
         /\ \A c \in Openers \ {r} : conv'[c] = conv[c]
    BY Constants
    DEF Open, OpenNew, Continues, Fresh, IInv, ReverseInv, ReverseShape, Idle
<1>3. r \in InFlight
    BY <1>1 DEF InFlight
<1>4. JobShape(r)'
    BY <1>1, <1>2, Constants DEF PageInv, JobShape
<1>5. \A c \in Openers : DOMAIN conv'[c].plan = DOMAIN NoPlan
    BY <1>2 DEF PageInv
<1>6. \A c : InStep(c) => InStep(c)'
    BY <1>1, <1>2, Constants DEF InStep
<1>7. ASSUME page.steady
      PROVE  /\ PageKnows(r)'
             /\ page'.held # None => InStep(page.held)'
  <2>1. SteadyPage /\ PageKnows(r)
      BY <1>7 DEF PageInv, SteadyPage
  <2>2. InStep(job[r].conv)'
    <3>1. CASE job'[r].conv = r /\ conv'[r].recs = <<>>
        BY <3>1 DEF InStep
    <3>2. CASE job'[r].conv = job[r].held /\ job[r].held # None
      <4>1. InStep(job[r].held)
          BY <1>1, <2>1, <3>2 DEF PageKnows
      <4>2. conv'[job[r].held].recs \in {page.shown, <<>>}
          BY <1>2, <4>1, Constants DEF InStep
      <4> QED
          BY <1>1, <3>2, <4>1, <4>2 DEF InStep
    <3> QED
        BY <1>2, <3>1, <3>2
  <2>3. page.held # None => InStep(page.held)
      BY <1>1, <1>3, <2>1, WaitsForOne DEF SteadyPage
  <2> QED
      BY <1>1, <1>6, <2>2, <2>3 DEF PageKnows
<1> QED
    BY <1>1, <1>3, <1>4, <1>5, <1>7, OneJob DEF PageInv

LEMMA UnderstandKeeps ==
    ASSUME IInv, PageInv, NEW r \in Asks, Understand(r)
    PROVE  PageInv'
<1> USE OpenersApart
<1> DEFINE c == conv[job[r].conv]
<1>1. PICK raw \in Understandings :
         \/ /\ raw.intent = "reverse_target"
            /\ job' = [job EXCEPT ![r].step = "planned",
                          ![r].plan = [goal |-> r, numbers |-> <<>>]]
         \/ /\ raw.intent # "reverse_target" /\ SelectedBy(r, raw) # <<>>
            /\ job' = [job EXCEPT ![r].step = "planned",
                          ![r].plan = [c.plan EXCEPT !.numbers = SelectedBy(r, raw)]]
         \/ /\ raw.intent # "reverse_target" /\ SelectedBy(r, raw) = <<>>
            /\ job' = [job EXCEPT ![r].step = "drawn", ![r].refused = TRUE,
                          ![r].plan = c.plan, ![r].recs = c.recs]
    BY DEF Understand
<1>2. /\ job[r].step = "opened" /\ UNCHANGED <<conv, page>>
      /\ DOMAIN job = Openers /\ DOMAIN job[r] = DOMAIN Idle
      /\ JobShape(r) /\ job[r].conv \in Openers
      /\ DOMAIN c.plan = DOMAIN NoPlan
    BY DEF Understand, IInv, ReverseInv, ReverseShape, SameScenario, Attached,
        PageInv
<1>3. /\ job'[r].conv = job[r].conv /\ job'[r].held = job[r].held
      /\ \A q \in Openers \ {r} : job'[q] = job[q]
      /\ DOMAIN job'[r].plan = DOMAIN NoPlan
      /\ \/ /\ job'[r].step = "planned" /\ job'[r].refused = job[r].refused
            /\ job'[r].plan.numbers \in Seq(Int)
         \/ /\ job'[r].step = "drawn" /\ job'[r].refused
            /\ job'[r].recs = c.recs
  <2>1. SelectedBy(r, raw) \in Seq(Int) /\ <<>> \in Seq(Int)
      BY SelectedType
  <2> HIDE DEF c
  <2>2. CASE job' = [job EXCEPT ![r].step = "planned",
                         ![r].plan = [goal |-> r, numbers |-> <<>>]]
      BY <1>2, <2>1, <2>2 DEF Idle, NoPlan
  <2>3. CASE job' = [job EXCEPT ![r].step = "planned",
                         ![r].plan = [c.plan EXCEPT !.numbers = SelectedBy(r, raw)]]
      BY <1>2, <2>1, <2>3 DEF Idle, NoPlan
  <2>4. CASE job' = [job EXCEPT ![r].step = "drawn", ![r].refused = TRUE,
                         ![r].plan = c.plan, ![r].recs = c.recs]
      BY <1>2, <2>4 DEF Idle, NoPlan
  <2> QED
      BY <1>1, <2>2, <2>3, <2>4
<1>4. r \in InFlight
    BY <1>2 DEF InFlight
<1>5. JobShape(r)'
    BY <1>2, <1>3 DEF JobShape
<1>6. ASSUME page.steady
      PROVE  /\ PageKnows(r)'
             /\ page'.held # None => InStep(page.held)'
  <2>1. SteadyPage /\ PageKnows(r)
      BY <1>6 DEF PageInv, SteadyPage
  <2>2. InStep(job[r].conv) /\ InStep(job[r].conv)'
      BY <1>2, <1>3, <2>1 DEF PageKnows, InStep
  <2>3. page.held # None => InStep(page.held) /\ InStep(page.held)'
      BY <1>2, <1>4, <2>1, WaitsForOne DEF SteadyPage, InStep
  <2> QED
      BY <1>2, <1>3, <2>2, <2>3 DEF PageKnows, InStep
<1> QED
    BY <1>2, <1>3, <1>4, <1>5, <1>6, OneJob DEF PageInv

LEMMA ExecuteKeeps ==
    ASSUME IInv, PageInv, NEW r \in Asks, Execute(r)
    PROVE  PageInv'
<1> USE OpenersApart
<1> DEFINE numbers == job[r].plan.numbers
           recs == conv[job[r].conv].recs
<1>1. /\ job[r].step = "planned" /\ UNCHANGED <<conv, page>>
      /\ DOMAIN job = Openers /\ DOMAIN job[r] = DOMAIN Idle
      /\ JobShape(r) /\ ~job[r].refused
    BY DEF Execute, IInv, ReverseInv, ReverseShape, PageInv, JobShape
<1>2. \/ /\ numbers = <<>>
         /\ \E n \in 0..MaxProposals :
               job' = [job EXCEPT ![r].step = "drawn", ![r].recs = Numbered(r, n)]
      \/ /\ numbers # <<>>
         /\ \A i \in DOMAIN numbers : numbers[i] \in DOMAIN recs
         /\ job' = [job EXCEPT ![r].step = "drawn",
                       ![r].recs = Picked(recs, numbers)]
      \/ job' = [job EXCEPT ![r] = Closed(r, "failed")]
    BY DEF Execute
<1>3. /\ \A q \in Openers \ {r} : job'[q] = job[q]
      /\ \/ /\ job'[r].step = "drawn" /\ job'[r].refused = job[r].refused
            /\ job'[r].conv = job[r].conv /\ job'[r].held = job[r].held
            /\ job'[r].plan = job[r].plan
            /\ numbers # <<>> =>
                   /\ \A i \in DOMAIN numbers : numbers[i] \in DOMAIN recs
                   /\ job'[r].recs = Picked(recs, numbers)
         \/ /\ job'[r].step = "failed" /\ ~job'[r].refused
            /\ job'[r].conv = None /\ job'[r].held = None
            /\ job'[r].plan = NoPlan
  <2>1. ASSUME NEW new, job' = [job EXCEPT ![r].step = "drawn", ![r].recs = new]
        PROVE  /\ \A q \in Openers \ {r} : job'[q] = job[q]
               /\ job'[r].step = "drawn" /\ job'[r].refused = job[r].refused
               /\ job'[r].conv = job[r].conv /\ job'[r].held = job[r].held
               /\ job'[r].plan = job[r].plan /\ job'[r].recs = new
      BY <1>1, <2>1 DEF Idle
  <2>2. ASSUME job' = [job EXCEPT ![r] = Closed(r, "failed")]
        PROVE  /\ \A q \in Openers \ {r} : job'[q] = job[q]
               /\ job'[r].step = "failed" /\ ~job'[r].refused
               /\ job'[r].conv = None /\ job'[r].held = None
               /\ job'[r].plan = NoPlan
      BY <1>1, <2>2 DEF Closed, Idle
  <2> HIDE DEF numbers, recs
  <2> QED
      BY <1>2, <2>1, <2>2
<1>4. r \in InFlight
    BY <1>1 DEF InFlight
<1>5. JobShape(r)'
    BY <1>1, <1>3 DEF JobShape
<1>6. ASSUME page.steady
      PROVE  /\ PageKnows(r)'
             /\ page'.held # None => InStep(page.held)'
  <2>1. SteadyPage /\ PageKnows(r)
      BY <1>6 DEF PageInv, SteadyPage
  <2>2. InStep(job[r].conv) /\ numbers \in Seq(Int)
      BY <1>1, <2>1 DEF PageKnows
  <2>3. page.held # None => InStep(page.held) /\ InStep(page.held)'
      BY <1>1, <1>4, <2>1, WaitsForOne DEF SteadyPage, InStep
  <2>4. numbers # <<>> => 1 \in DOMAIN numbers
    <3> HIDE DEF numbers
    <3> QED
        BY <2>2
  <2>5. (\A i \in DOMAIN numbers : numbers[i] \in DOMAIN recs) /\ numbers # <<>>
            => recs = page.shown
      BY <2>2, <2>4 DEF InStep
  <2>6. CASE job'[r].step = "drawn"
    <3>1. InStep(job[r].conv)'
        BY <1>1, <1>3, <2>2, <2>6 DEF InStep
    <3>2. /\ job'[r].plan.numbers = numbers
          /\ ~job'[r].refused
        BY <1>1, <1>3, <2>6
    <3>3. numbers # <<>> =>
              /\ \A i \in DOMAIN numbers : numbers[i] \in DOMAIN page.shown
              /\ job'[r].recs = Picked(page.shown, numbers)
        BY <1>3, <2>5, <2>6
    <3> HIDE DEF numbers
    <3> QED
        BY <1>1, <2>2, <2>3, <2>6, <3>1, <3>2, <3>3 DEF PageKnows
  <2>7. CASE job'[r].step = "failed"
      BY <1>1, <2>3, <2>7 DEF PageKnows
  <2> QED
      BY <1>3, <2>6, <2>7
<1> QED
    BY <1>1, <1>3, <1>4, <1>5, <1>6, OneJob DEF PageInv

LEMMA RecordKeeps ==
    ASSUME IInv, PageInv, NEW r \in Asks, Record(r)
    PROVE  PageInv'
<1> USE OpenersApart
<1>1. /\ job[r].step = "drawn" /\ UNCHANGED page
      /\ DOMAIN job = Openers /\ DOMAIN job[r] = DOMAIN Idle
      /\ JobShape(r) /\ job[r].conv \in Openers
      /\ DOMAIN conv = Openers /\ \A c \in Openers : DOMAIN conv[c] = DOMAIN NotMade
    BY DEF Record, IInv, ReverseInv, ReverseShape, SameScenario, Attached, PageInv
<1>2. /\ \A q \in Openers \ {r} : job'[q] = job[q]
      /\ job'[r].step = "answered" /\ job'[r].refused = job[r].refused
      /\ job'[r].conv = job[r].conv /\ job'[r].held = job[r].held
      /\ job'[r].plan = job[r].plan /\ job'[r].recs = job[r].recs
    BY <1>1 DEF Record, Idle
<1>3. /\ conv'[job[r].conv].recs = job[r].recs
      /\ conv'[job[r].conv].plan = job[r].plan
      /\ \A c \in Openers \ {job[r].conv} : conv'[c] = conv[c]
    BY <1>1 DEF Record, NotMade
<1>4. r \in InFlight
    BY <1>1 DEF InFlight
<1>5. /\ JobShape(r)'
      /\ \A c \in Openers : DOMAIN conv'[c].plan = DOMAIN NoPlan
    BY <1>1, <1>2, <1>3 DEF JobShape, PageInv
<1>6. ASSUME page.steady PROVE PageKnows(r)'
  <2>1. PageKnows(r)
      BY <1>6 DEF PageInv, SteadyPage
  <2>2. job[r].conv \in Asks
      BY <1>1, <2>1 DEF PageKnows, InStep
  <2> QED
      BY <1>1, <1>2, <1>3, <2>1, <2>2 DEF PageKnows
<1> QED
    BY <1>1, <1>2, <1>4, <1>5, <1>6, OneJob DEF PageInv

LEMMA EndKeeps ==
    ASSUME IInv, PageInv, NEW r \in Asks, Fail(r) \/ Receive(r) \/ Lose(r)
    PROVE  PageInv'
<1> USE OpenersApart
<1>1. /\ job[r].step \in {"opened", "planned", "drawn", "answered", "failed"}
      /\ \E step \in {"failed", "shown"} : job' = [job EXCEPT ![r] = Closed(r, step)]
      /\ UNCHANGED conv
      /\ DOMAIN job = Openers /\ JobShape(r)
    BY DEF Fail, Receive, Lose, IInv, ReverseInv, ReverseShape, PageInv
<1>2. /\ \A q \in Openers \ {r} : job'[q] = job[q]
      /\ job'[r].step \in {"failed", "shown"} /\ ~job'[r].refused
      /\ job'[r].conv = None /\ job'[r].held = None /\ job'[r].plan = NoPlan
    BY <1>1 DEF Closed, Idle
<1>3. r \in InFlight /\ JobShape(r)' /\ PageKnows(r)'
    BY <1>1, <1>2 DEF InFlight, JobShape, PageKnows
<1>4. CASE Fail(r)
  <2>1. UNCHANGED page /\ job[r].step # "answered"
      BY <1>4 DEF Fail
  <2>2. ASSUME page.steady, page.held # None PROVE InStep(page.held)'
      BY <1>1, <1>3, <2>1, <2>2, WaitsForOne DEF PageInv, SteadyPage, InStep
  <2> QED
      BY <1>1, <1>2, <1>3, <2>1, <2>2, OneJob DEF PageInv
<1>5. CASE Lose(r)
  <2>1. /\ DOMAIN page' = DOMAIN page /\ page'.held = page.held
        /\ page'.steady = FALSE
      BY <1>5 DEF Lose, PageInv
  <2> QED
      BY <1>1, <1>2, <1>3, <2>1, OneJob DEF PageInv
<1>6. CASE Receive(r) /\ job[r].step = "failed"
  <2>1. UNCHANGED page
      BY <1>6 DEF Receive
  <2>2. ASSUME page.steady, page.held # None PROVE InStep(page.held)'
      BY <1>1, <1>3, <1>6, <2>1, <2>2, WaitsForOne DEF PageInv, SteadyPage, InStep
  <2> QED
      BY <1>1, <1>2, <1>3, <2>1, <2>2, OneJob DEF PageInv
<1>7. CASE Receive(r) /\ job[r].step = "answered"
  <2>1. /\ DOMAIN page' = DOMAIN page /\ page'.held = job[r].conv
        /\ page'.steady = page.steady
        /\ page'.shown = IF job[r].refused THEN page.shown ELSE job[r].recs
      BY <1>7 DEF Receive, PageInv
  <2>2. page'.held \in Asks \cup {None}
      BY <1>1, <2>1 DEF JobShape
  <2>3. ASSUME page.steady PROVE InStep(page.held)'
    <3>1. PageKnows(r)
        BY <2>3 DEF PageInv, SteadyPage
    <3> QED
        BY <1>1, <1>7, <2>1, <3>1 DEF PageKnows, InStep
  <2> QED
      BY <1>1, <1>2, <1>3, <2>1, <2>2, <2>3, OneJob DEF PageInv
<1> QED
    BY <1>4, <1>5, <1>6, <1>7 DEF Receive

\* The chat works on conversations of its own.
LEMMA PlannerStep ==
    ASSUME IInv, PageInv, NEW p \in Planners,
           \A q \in Openers \ {p} : job'[q] = job[q], PlannerShape(p)',
           \A c \in Openers \ {p} : conv'[c] = conv[c],
           DOMAIN conv'[p].plan = DOMAIN NoPlan, UNCHANGED page
    PROVE  PageInv'
<1>1. /\ \A q \in Asks : job'[q] = job[q] /\ conv'[q] = conv[q]
      /\ \A q \in Planners \ {p} : job'[q] = job[q]
      /\ p \in Openers
    BY Constants
<1>2. \A c \in Openers : DOMAIN conv'[c].plan = DOMAIN NoPlan
    BY DEF PageInv
<1>3. \A q \in Planners : PlannerShape(q)'
    BY <1>1 DEF PageInv, PlannerShape
<1> QED
    BY <1>1, <1>2, <1>3
    DEF PageInv, JobShape, SteadyPage, PageKnows, InStep, InFlight

LEMMA PlannerKeepsPage ==
    ASSUME IInv, PageInv, NEW p \in Planners, Answer(p)
    PROVE  PageInv'
<1>1. /\ p \in Openers /\ DOMAIN job = Openers /\ DOMAIN job[p] = DOMAIN Idle
      /\ PlannerShape(p) /\ DOMAIN conv = Openers
      /\ \A c \in Openers : DOMAIN conv[c] = DOMAIN NotMade
                             /\ DOMAIN conv[c].plan = DOMAIN NoPlan
      /\ job[p].step \in {"opened", "planned", "drawn"} => job[p].conv = p
    BY Constants
    DEF IInv, ReverseInv, ReverseShape, SameScenario, Attached, PageInv,
        PlannerShape
<1>2. CASE Open(p)
  <2>1. /\ job' = [job EXCEPT ![p].step = "opened", ![p].held = None, ![p].conv = p]
        /\ OpenNew(p, job[p].scenario) /\ UNCHANGED page
    BY <1>1, <1>2 DEF Open, Continues, PlannerShape
  <2>2. PlannerShape(p)' /\ \A q \in Openers \ {p} : job'[q] = job[q]
    BY <1>1, <2>1 DEF PlannerShape, Idle
  <2>3. /\ \A c \in Openers \ {p} : conv'[c] = conv[c]
        /\ DOMAIN conv'[p].plan = DOMAIN NoPlan
    BY <1>1, <2>1 DEF OpenNew, Fresh
  <2>4. QED
    BY <2>1, <2>2, <2>3, PlannerStep
<1>3. CASE Understand(p)
  <2> DEFINE c == conv[job[p].conv]
  <2>1. PICK raw \in Understandings :
           \/ job' = [job EXCEPT ![p].step = "planned",
                            ![p].plan = [goal |-> p, numbers |-> <<>>]]
           \/ job' = [job EXCEPT ![p].step = "planned",
                            ![p].plan = [c.plan EXCEPT !.numbers = SelectedBy(p, raw)]]
           \/ job' = [job EXCEPT ![p].step = "drawn", ![p].refused = TRUE,
                            ![p].plan = c.plan, ![p].recs = c.recs]
    BY <1>3 DEF Understand
  <2>2. DOMAIN c.plan = DOMAIN NoPlan /\ UNCHANGED <<conv, page>>
    BY <1>1, <1>3 DEF Understand
  <2> HIDE DEF c
  <2>3. PlannerShape(p)' /\ \A q \in Openers \ {p} : job'[q] = job[q]
    BY <1>1, <2>1, <2>2 DEF PlannerShape, Idle, NoPlan
  <2>4. QED
    BY <1>1, <2>2, <2>3, PlannerStep
<1>4. CASE Execute(p)
  <2>1. /\ UNCHANGED <<conv, page>>
        /\ \/ \E new : job' = [job EXCEPT ![p].step = "drawn", ![p].recs = new]
           \/ job' = [job EXCEPT ![p] = Closed(p, "failed")]
    BY <1>4 DEF Execute
  <2>2. PlannerShape(p)' /\ \A q \in Openers \ {p} : job'[q] = job[q]
    BY <1>1, <2>1 DEF PlannerShape, Closed, Idle
  <2>3. QED
    BY <1>1, <2>1, <2>2, PlannerStep
<1>5. CASE Fail(p)
  <2>1. PlannerShape(p)' /\ \A q \in Openers \ {p} : job'[q] = job[q]
    BY <1>1, <1>5 DEF Fail, PlannerShape, Closed, Idle
  <2>2. QED
    BY <1>1, <1>5, <2>1, PlannerStep DEF Fail
<1>6. CASE Record(p)
  <2>1. /\ job' = [job EXCEPT ![p].step = "answered"] /\ job[p].step = "drawn"
        /\ conv' = [conv EXCEPT ![p] =
                       [@ EXCEPT !.plan = job[p].plan, !.recs = job[p].recs,
                                 !.updated = now]]
        /\ UNCHANGED page
    BY <1>1, <1>6 DEF Record
  <2>2. PlannerShape(p)' /\ \A q \in Openers \ {p} : job'[q] = job[q]
    BY <1>1, <2>1 DEF PlannerShape, Idle
  <2>3. /\ \A c \in Openers \ {p} : conv'[c] = conv[c]
        /\ conv'[p].plan = job[p].plan
    BY <1>1, <2>1 DEF NotMade
  <2>4. QED
    BY <1>1, <2>1, <2>2, <2>3, PlannerStep DEF PlannerShape
<1>7. QED
    BY <1>2, <1>3, <1>4, <1>5, <1>6 DEF Answer

LEMMA ChatKeepsPage ==
    ASSUME IInv, PageInv, NextAgent
    PROVE  PageInv'
<1>1. PICK r \in Chats : ChatStep(r)
    BY ChatSteps DEF NextAgent
<1>2. CASE UNCHANGED reverseVars
    BY <1>2
    DEF reverseVars, PageInv, JobShape, PlannerShape, SteadyPage, PageKnows, InStep,
        InFlight
<1>3. ASSUME NEW p \in Planners, NEW record, record.held = None, record.conv = None,
             record.plan = NoPlan, job' = [job EXCEPT ![p] = record],
             UNCHANGED <<conv, kept, page, cut>>
      PROVE  PageInv'
  <2>1. /\ p \in Openers /\ DOMAIN job = Openers
        /\ DOMAIN conv[p].plan = DOMAIN NoPlan
    BY Constants DEF IInv, ReverseInv, ReverseShape, PageInv
  <2>2. job'[p] = record /\ \A q \in Openers \ {p} : job'[q] = job[q]
    BY <1>3, <2>1
  <2>3. QED
    BY <1>3, <2>1, <2>2, PlannerStep DEF PlannerShape
<1>4. ASSUME NEW p \in Planners, NEW s,
             job' = [job EXCEPT ![p] = [Idle EXCEPT !.step = "asked", !.scenario = s]],
             UNCHANGED <<conv, kept, page, cut>>
      PROVE  PageInv'
    BY <1>3, <1>4 DEF Idle
<1>5. ASSUME NEW p \in Planners, job' = [job EXCEPT ![p] = Closed(p, "shown")],
             UNCHANGED <<conv, kept, page, cut>>
      PROVE  PageInv'
    BY <1>3, <1>5 DEF Closed, Idle
<1>6. ASSUME NEW p \in Planners, Answer(p) PROVE PageInv'
    BY <1>6, PlannerKeepsPage
<1>7. QED
    BY <1>1, <1>2, <1>4, <1>5, <1>6 DEF ChatStep

LEMMA NextPageInv == IInv /\ PageInv /\ [Next]_vars => PageInv'
<1> SUFFICES ASSUME IInv, PageInv, [Next]_vars PROVE PageInv'
    OBVIOUS
<1>1. CASE NextReverse
    BY <1>1, AskKeeps, OpenKeeps, UnderstandKeeps, ExecuteKeeps, RecordKeeps,
       EndKeeps DEF NextReverse, Serve, Answer
<1>2. CASE NextAgent
    BY <1>2, ChatKeepsPage
<1>3. CASE ForgetReverse
    BY <1>3
    DEF ForgetReverse, PageInv, JobShape, PlannerShape, SteadyPage, PageKnows, InStep,
        InFlight
<1>4. CASE UNCHANGED reverseVars
    BY <1>4
    DEF reverseVars, PageInv, JobShape, PlannerShape, SteadyPage, PageKnows, InStep,
        InFlight
<1> QED
    BY <1>1, <1>2, <1>3, <1>4 DEF Next, vars

\* For a page that asks one question at a time and gets its replies, an answer
\* about "recommendation n" is about the nth one the page shows, whatever is
\* refused, fails, expires, is narrowed or is asked in another scenario
\* meanwhile (_validate_plan and _execute_plan read the conversation twice,
\* record replaces it).  Requests of a page that overlap are not covered.
THEOREM NumbersAreWhatWasShown == Spec => []NumbersMeanWhatWasShown
<1>1. ASSUME PageInv PROVE NumbersMeanWhatWasShown
  <2> SUFFICES ASSUME page.steady, NEW r \in Asks, job[r].step = "answered",
                      ~job[r].refused, job[r].plan.numbers # <<>>
               PROVE  /\ Len(job[r].recs) = Len(job[r].plan.numbers)
                      /\ \A i \in DOMAIN job[r].recs :
                            /\ job[r].recs[i] = page.shown[job[r].plan.numbers[i]]
                            /\ NumberedFromOne(page.shown) =>
                                   job[r].recs[i].number = job[r].plan.numbers[i]
      BY DEF NumbersMeanWhatWasShown
  <2> DEFINE numbers == job[r].plan.numbers
  <2>1. /\ numbers \in Seq(Int)
        /\ \A i \in DOMAIN numbers : numbers[i] \in DOMAIN page.shown
        /\ job[r].recs = Picked(page.shown, numbers)
      BY <1>1 DEF PageInv, SteadyPage, PageKnows
  <2>2. job[r].recs = [i \in 1..Len(numbers) |-> page.shown[numbers[i]]]
        /\ Len(numbers) \in Nat
      BY <2>1 DEF Picked
  <2> QED
      BY <2>1, <2>2 DEF NumberedFromOne
<1>2. Init => PageInv
    BY InitPageInv
<1> QED
    BY <1>1, <1>2, NextPageInv, AlwaysIInv, PTL DEF Spec
=============================================================================
