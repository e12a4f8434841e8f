--------------------------- MODULE BaselineLedger ---------------------------
(***************************************************************************)
(* What the service promises about its baseline, with the start-up steps   *)
(* and the tables left out: the ledger holds at most one baseline, the one *)
(* a source and a rule version determine, unless a client edits it; saved  *)
(* What-if scenarios live next to it and are discarded only together with  *)
(* a baseline of another source or version; the ledger is open for         *)
(* requests only while its baseline is one of the current ones.            *)
(***************************************************************************)
CONSTANTS
    Sources,     \* fingerprints the three workbooks can have
    Versions,    \* calculation versions of the deployed rules
    Ids,         \* identifiers of What-if scenarios
    None         \* no value

VARIABLES
    source,      \* fingerprint of the workbooks in the data directory
    version,     \* calculation version of the deployed rules
    open,        \* TRUE while requests are served
    baseline,    \* the calculation stored as BASELINE, or None
    scenarios    \* the calculation behind each saved scenario, or None

vars == <<source, version, open, baseline, scenarios>>

\* A result is determined by the asset, category and block rows it was
\* computed from, the workload rows, the rules that were applied, and a
\* client's assumptions where there are any.
Calculation(r, w, v, a) ==
    [rows |-> r, workload |-> w, rules |-> v, assumed |-> a]

Built == Calculation(source, source, version, FALSE)

Assumed == Calculation(source, source, version, TRUE)

NoScenarios == [s \in Ids |-> None]

Init ==
    /\ source \in Sources
    /\ version \in Versions
    /\ open = FALSE
    /\ baseline = None
    /\ scenarios = NoScenarios

\* New workbooks are installed, or new rules deployed.
Change ==
    /\ ~open
    /\ source' \in Sources
    /\ version' \in Versions
    /\ UNCHANGED <<open, baseline, scenarios>>

\* A baseline that is not the current one goes, and every scenario with it.
Discard ==
    /\ ~open
    /\ baseline \notin {Built, Assumed}
    /\ baseline' = None
    /\ scenarios' = NoScenarios
    /\ UNCHANGED <<source, version, open>>

Build ==
    /\ ~open
    /\ baseline = None
    /\ baseline' = Built
    /\ UNCHANGED <<source, version, open, scenarios>>

Open ==
    /\ ~open
    /\ baseline \in {Built, Assumed}
    /\ open' = TRUE
    /\ UNCHANGED <<source, version, baseline, scenarios>>

Close ==
    /\ open
    /\ open' = FALSE
    /\ UNCHANGED <<source, version, baseline, scenarios>>

\* A scenario is computed from the same workbooks and rules as the baseline.
Save(s) ==
    /\ open
    /\ scenarios' = [scenarios EXCEPT ![s] = Assumed]
    /\ UNCHANGED <<source, version, open, baseline>>

\* A client replaces the baseline by one with its own assumptions.
Edit ==
    /\ open
    /\ baseline' = Assumed
    /\ UNCHANGED <<source, version, open, scenarios>>

Delete(s) ==
    /\ open
    /\ scenarios[s] # None
    /\ scenarios' = [scenarios EXCEPT ![s] = None]
    /\ UNCHANGED <<source, version, open, baseline>>

Next ==
    \/ Change
    \/ Discard
    \/ Build
    \/ Open
    \/ Close
    \/ Edit
    \/ \E s \in Ids : Save(s) \/ Delete(s)

Spec == Init /\ [][Next]_vars
=============================================================================
