------------------------------ MODULE Sessions ------------------------------
(***************************************************************************)
(* What the three question services share: the wall clock their            *)
(* conversations expire by, the scenarios a question can be about, and the *)
(* requests a behaviour is made of.  The services run in the threads of    *)
(* one ThreadingHTTPServer and keep their conversations in memory.         *)
(***************************************************************************)
EXTENDS Integers, Sequences

CONSTANTS
    Scenarios,  \* scenarios the page can show
    Baseline,   \* the one it starts with
    Ttl,        \* clock ticks a conversation outlives its last record
    Loads,      \* bound: what a behaviour may be made of, see below
    None        \* no conversation, no request

\* A load names the requests of a behaviour and its bounds: the clock ticks, the
\* changes of the scenario list, the questions of the page in flight, and the
\* plans the chat's model may propose.

ASSUME SessionsAssumption ==
    /\ Baseline \in Scenarios /\ None \notin Scenarios /\ Ttl \in Nat
    /\ \A l \in Loads : l.ticks \in Nat

VARIABLES
    now,        \* datetime.now()
    load,       \* the requests and the bounds of this behaviour
    scenario,   \* state.scenarioId of the page
    switches    \* changes of it so far

sessionVars == <<now, load, scenario, switches>>

InitSessions ==
    now = 0 /\ load \in Loads /\ scenario = Baseline /\ switches = 0

Expired(updated) == now - updated > Ttl

Tick ==
    now < load.ticks /\ now' = now + 1 /\ UNCHANGED <<load, scenario, switches>>

SwitchScenario ==
    /\ switches < load.switches /\ switches' = switches + 1
    /\ scenario' \in Scenarios \ {scenario}
    /\ UNCHANGED <<now, load>>
=============================================================================
