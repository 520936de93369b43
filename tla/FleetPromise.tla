---------------------------- MODULE FleetPromise ----------------------------
(***************************************************************************)
(* What the download fleet promises about one attempt of a worker at a      *)
(* task, whatever leases, upload generations, row locks and coordinator     *)
(* crashes lie behind it.  DownloadFleet implements this specification; the *)
(* worker's side (WorkerSpool) is composed with it.                         *)
(***************************************************************************)
CONSTANTS PTasks, PWorkers

PAttempts == PTasks \X PWorkers
POutcomes == {"none", "working", "accepted", "done", "failed", "expired", "forgotten"}
PLive     == {"working", "accepted"}

VARIABLES
    outcome,   \* what a receipt for the attempt says
    stored     \* attempts whose bytes the archive has been given
promiseVars == <<outcome, stored>>

PromiseInit ==
    /\ outcome = [a \in PAttempts |-> "none"]
    /\ stored = {}

\* Nobody works on t, its result is not accepted and it is not finished.
PFree(t) == \A w \in PWorkers : outcome[<<t, w>>] \notin PLive \cup {"done", "forgotten"}

Become(S, o) == outcome' = [a \in PAttempts |-> IF a \in S THEN o ELSE outcome[a]]

\* A claim gives tasks nobody works on to one worker that never had them.
PAssign(w, T) ==
    /\ T # {} /\ \A t \in T : PFree(t) /\ outcome[<<t, w>>] = "none"
    /\ Become(T \X {w}, "working") /\ UNCHANGED stored
PAccept(a) == outcome[a] = "working" /\ Become({a}, "accepted") /\ UNCHANGED stored
PRefuse(a) == outcome[a] = "working" /\ Become({a}, "failed") /\ UNCHANGED stored
PExpire(S) ==
    /\ S # {} /\ \A a \in S : outcome[a] \in PLive
    /\ Become(S, "expired") /\ UNCHANGED stored
\* Bytes reach the archive only after they were accepted, but possibly late.
PStore(a) ==
    /\ outcome[a] \in {"accepted", "done", "expired", "forgotten"}
    /\ stored' = stored \cup {a} /\ UNCHANGED outcome
PFinish(a) ==
    /\ outcome[a] = "accepted" /\ a \in stored
    /\ Become({a}, "done") /\ UNCHANGED stored
\* Retention drops a task nobody works on, with all its receipts.
PForget(t) ==
    /\ \A w \in PWorkers : outcome[<<t, w>>] \notin PLive \cup {"forgotten"}
    /\ Become({t} \X PWorkers, "forgotten") /\ UNCHANGED stored

PromiseNext ==
    \/ \E w \in PWorkers, T \in SUBSET PTasks : PAssign(w, T)
    \/ \E a \in PAttempts : PAccept(a) \/ PRefuse(a) \/ PStore(a) \/ PFinish(a)
    \/ \E S \in SUBSET PAttempts : PExpire(S)
    \/ \E t \in PTasks : PForget(t)

PromiseSpec == PromiseInit /\ [][PromiseNext]_promiseVars
=============================================================================
