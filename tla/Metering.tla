------------------------------- MODULE Metering -------------------------------
(***************************************************************************)
(* Metered search (internal/usage, routes/search_agentic.go,                *)
(* search_survey.go, search_scoring.go, admin_usage.go, internal/agentic):  *)
(* a call reads the caller's daily limit, reserves one unit of the day's    *)
(* bucket, asks the backend and refunds the unit when the backend failed.   *)
(* The scoring routes are admitted by process-local gates first.            *)
(* Meanwhile days and minutes pass, clients leave, administrators edit      *)
(* plans and quotas and the janitor sweeps old sandboxes.                   *)
(***************************************************************************)
EXTENDS Integers, FiniteSets, FiniteSetsExt

CONSTANTS
    Subscribers,    \* user records
    Searchers,      \* concurrent calls
    SearcherUser,     \* the user behind each call, or SystemPat
    SystemPat,      \* the credential without a user record
    DefaultAllowance,   \* cfg.AgenticDailyLimit
    Allowances,     \* limits an administrator may set
    GateTotal, GateUser, GatePerMinute,  \* of each gate
    LastDay, LastMinute,    \* bounds: midnights and minutes that pass
    MaxEdits        \* bound: edits of plans and quotas

Routes == {"agentic", "survey", "generate", "ranked"}
Gates == {"generate", "ranked"}

ASSUME MeteringConfig ==
    /\ DefaultAllowance \in Nat /\ Allowances \subseteq Nat
    /\ LastDay \in Nat /\ LastMinute \in Nat /\ MaxEdits \in Nat
    /\ IsFiniteSet(Searchers) /\ SystemPat \notin Subscribers
    /\ SearcherUser \in [Searchers -> Subscribers \cup {SystemPat}]
    /\ DOMAIN GateTotal = Gates /\ DOMAIN GateUser = Gates
    /\ \A g \in Gates : GateTotal[g] \in Nat /\ GateUser[g] \in Nat

UserDays == Subscribers \X (0 .. LastDay)
\* scoringUser: calls with the system PAT share one key.
GateKeys == Subscribers \cup {SystemPat}
NoBucket == -1
NoOverride == -1

VARIABLES
    today, minute,
    freeLimit,      \* plans.daily_agentic_search_limit of the plan "free"
    quotaRow,       \* user_quotas: whether there is a row, and its override
    used,           \* usage_daily.count, or NoBucket
    gate,           \* in flight, in all and per user, and the rate windows
    sandbox,        \* the day the sandbox of a run was made, while it exists
    call,           \* each call's progress
    edits,
    granted,        \* history: reserved on this day and not refunded on it
    late,           \* history: refunds applied to a day for an earlier one
    ceiling         \* history: the largest limit a reservation was made under

meterVars == <<today, minute, freeLimit, quotaRow, used, gate, sandbox, call, edits,
               granted, late, ceiling>>

Unasked == [at |-> "idle", route |-> "none", limit |-> 0, day |-> 0, gone |-> FALSE,
            spent |-> FALSE, holds |-> FALSE]
Outcomes == {"served", "failed"}

MeterTypeOK ==
    /\ today \in 0 .. LastDay /\ minute \in 0 .. LastMinute /\ edits \in 0 .. MaxEdits
    /\ freeLimit \in Allowances \cup {DefaultAllowance}
    /\ used \in [UserDays -> {NoBucket} \cup Nat]
    /\ \A u \in Subscribers : quotaRow[u].override \in Allowances \cup {NoOverride}
    /\ \A c \in Searchers :
          /\ call[c].at \in {"idle", "admitted", "parsed", "limited", "reserved", "running"}
                            \cup Outcomes \cup {"accounted"}
          /\ call[c].route \in Routes \cup {"none"}

EmptyGate == [active |-> 0, users |-> [k \in GateKeys |-> 0],
              start |-> [k \in GateKeys |-> -1], count |-> [k \in GateKeys |-> 0]]
MeterInit ==
    /\ today = 0 /\ minute = 0 /\ edits = 0 /\ freeLimit = DefaultAllowance
    /\ quotaRow = [u \in Subscribers |-> [row |-> FALSE, override |-> NoOverride]]
    /\ used = [ud \in UserDays |-> NoBucket]
    /\ gate = [g \in Gates |-> EmptyGate]
    /\ sandbox = [c \in Searchers |-> -1] /\ call = [c \in Searchers |-> Unasked]
    /\ granted = [ud \in UserDays |-> 0] /\ late = [ud \in UserDays |-> 0]
    /\ ceiling = [ud \in UserDays |-> 0]

-----------------------------------------------------------------------------
(* Arriving.                                                                 *)

Bucket(c) == <<SearcherUser[c], today>>
To(c, at) == call' = [call EXCEPT ![c].at = at]
Store == <<freeLimit, quotaRow, edits>>
Clock == <<today, minute>>
Counts == <<used, granted, late, ceiling>>

\* A gate released by the deferred function on every way out.
Release(g, k) ==
    [gate EXCEPT ![g].active = @ - 1, ![g].users[k] = @ - 1]
Leave(c) ==
    /\ call' = [call EXCEPT ![c] = Unasked]
    /\ gate' = IF call[c].holds THEN Release(call[c].route, SearcherUser[c]) ELSE gate

\* RegisterSearchAgentic and RegisterSearchSurvey up to the meter: a user-bound
\* credential and a valid, non-empty entry.
ArriveUngated(c, route) ==
    /\ call[c].at = "idle" /\ SearcherUser[c] # SystemPat
    /\ call' = [call EXCEPT ![c] = [Unasked EXCEPT !.at = "parsed", !.route = route]]
    /\ UNCHANGED <<Clock, Store, Counts, gate, sandbox>>
\* The rate window of a user at a gate: a new one after a minute.
WindowCount(g, k) == IF gate[g].start[k] < minute THEN 0 ELSE gate[g].count[k]
Admits(g, k) ==
    /\ gate[g].active < GateTotal[g] /\ gate[g].users[k] < GateUser[g]
    /\ WindowCount(g, k) < GatePerMinute[g]
Acquire(c, g) ==
    LET k == SearcherUser[c] IN
    /\ call[c].at = "idle" /\ (g = "generate" => k # SystemPat)
    /\ Admits(g, k)
    /\ gate' = [gate EXCEPT ![g].active = @ + 1, ![g].users[k] = @ + 1,
                            ![g].start[k] = IF @ < minute THEN minute ELSE @,
                            ![g].count[k] = WindowCount(g, k) + 1]
    /\ call' = [call EXCEPT ![c] = [Unasked EXCEPT !.at = "admitted", !.route = g, !.holds = TRUE]]
    /\ UNCHANGED <<Clock, Store, Counts, sandbox>>
\* scoringBody and the checks after it refuse the body: 400, 413 or 422.
BadBody(c) ==
    /\ call[c].at = "admitted" /\ Leave(c)
    /\ UNCHANGED <<Clock, Store, Counts, sandbox>>
GoodBody(c) ==
    /\ call[c].at = "admitted"
    /\ To(c, IF call[c].route = "generate" THEN "parsed" ELSE "reserved")
    /\ UNCHANGED <<Clock, Store, Counts, gate, sandbox>>

-----------------------------------------------------------------------------
(* Reserving.                                                                *)

\* ResolveEffectiveLimit: override, else the plan's limit, else the default.
EffectiveLimit(u) ==
    IF ~quotaRow[u].row THEN DefaultAllowance
    ELSE IF quotaRow[u].override # NoOverride THEN quotaRow[u].override ELSE freeLimit
ReadLimit(c) ==
    LET limit == EffectiveLimit(SearcherUser[c]) IN
    /\ call[c].at = "parsed"
    /\ \/ /\ call[c].route = "generate" => limit > 0
          /\ call' = [call EXCEPT ![c].at = "limited", ![c].limit = limit]
          /\ UNCHANGED gate
       \/ Leave(c)      \* a limit of zero at /generate; the store failed
    /\ UNCHANGED <<Clock, Store, Counts, sandbox>>

\* A variant: the last unit is given out twice.
MayReserveOnce(count, limit) == count = NoBucket \/ count <= limit
\* CheckAndReserve: the insert takes the first unit whatever the limit, the
\* update takes one while the count is below it.
MayReserve(count, limit) == count = NoBucket \/ count < limit
CheckAndReserve(count) == IF count = NoBucket THEN 1 ELSE count + 1
Reserve(c) ==
    LET b == Bucket(c) IN
    /\ call[c].at = "limited" /\ MayReserve(used[b], call[c].limit)
    /\ used' = [used EXCEPT ![b] = CheckAndReserve(@)]
    /\ ceiling' = [ceiling EXCEPT ![b] = Max({@, call[c].limit})]
    /\ \/ /\ call' = [call EXCEPT ![c].at = "reserved", ![c].day = today]
          /\ granted' = [granted EXCEPT ![b] = @ + 1] /\ UNCHANGED gate
       \/ Leave(c) /\ UNCHANGED granted     \* committed, but the answer was lost
    /\ UNCHANGED <<Clock, Store, sandbox, late>>
\* The limit is reached (429), or the store is unavailable (503, 500).
NotReserved(c) ==
    /\ call[c].at = "limited" /\ Leave(c)
    /\ UNCHANGED <<Clock, Store, Counts, sandbox>>

-----------------------------------------------------------------------------
(* The backend.                                                              *)

Metered(c) == call[c].route # "ranked"
\* NewSandbox and query.json, results.json, prompt.txt, run/: the local runner.
OpenSandbox(c) ==
    /\ call[c].at = "reserved" /\ call[c].route = "agentic"
    /\ sandbox' = [sandbox EXCEPT ![c] = today] /\ To(c, "running")
    /\ UNCHANGED <<Clock, Store, Counts, gate>>
\* execClaude, parseEnvelope, normalizeAnswer, response.json.  The run fails
\* when the process does, when the envelope is bad, when the client is gone
\* and when the sandbox was swept.  What stays on disk for audit is not followed.
RunClaude(c) ==
    /\ call[c].at = "running"
    /\ \/ /\ sandbox[c] # -1
          /\ call' = [call EXCEPT ![c].at = "served", ![c].spent = TRUE]
       \/ To(c, "failed")
    /\ sandbox' = [sandbox EXCEPT ![c] = -1]
    /\ UNCHANGED <<Clock, Store, Counts, gate>>
Upstream(c, at, spent) ==
    /\ call' = [call EXCEPT ![c].at = at, ![c].spent = spent]
    /\ UNCHANGED <<Clock, Store, Counts, gate, sandbox>>
\* SearchSurvey, or SearchAgentic of the remote service: an error says nothing
\* of tokens.
AskService(c) ==
    /\ call[c].at = "reserved" /\ call[c].route \notin Gates
    /\ \/ \E spent \in BOOLEAN : Upstream(c, "served", spent)
       \/ Upstream(c, "failed", FALSE)
\* GenerateScorer: an error, or an answer that is no valid program, may come
\* with the tokens it cost.
AskScorer(c) ==
    /\ call[c].at = "reserved" /\ call[c].route = "generate"
    /\ \E at \in Outcomes, spent \in BOOLEAN : Upstream(c, at, spent)
\* SearchRanked: an answer not ranked by the scorer is an error.
AskRanked(c) ==
    /\ call[c].at = "reserved" /\ call[c].route = "ranked"
    /\ \E at \in Outcomes : Upstream(c, at, FALSE)
\* The request context ends; the writes of the gated routes do not depend on it.
ClientLeaves(c) ==
    /\ call[c].at \in {"reserved", "running", "failed", "served"} /\ ~call[c].gone
    /\ call[c].route \notin Gates
    /\ call' = [call EXCEPT ![c].gone = TRUE]
    /\ UNCHANGED <<Clock, Store, Counts, gate, sandbox>>

-----------------------------------------------------------------------------
(* Settling.                                                                 *)

\* Writes of /generate use a detached context, those of the others the
\* request's.
Detached(c) == call[c].route = "generate"
\* Tokens are recorded after a success, or after any answer of /generate.  What it
\* adds to llm_tokens is only reported; a missing bucket is made, with count 0.
RecordTokens(count) == IF count = NoBucket THEN 0 ELSE count
Account(c) ==
    /\ call[c].at \in Outcomes
    /\ \/ /\ call[c].spent /\ Metered(c) /\ (Detached(c) \/ ~call[c].gone)
          /\ call[c].at = "served" \/ Detached(c)
          /\ used' = [used EXCEPT ![Bucket(c)] = RecordTokens(@)]
       \/ UNCHANGED used
    /\ IF call[c].at = "served" THEN Leave(c) ELSE To(c, "accounted") /\ UNCHANGED gate
    /\ UNCHANGED <<Clock, Store, sandbox, granted, late, ceiling>>
\* Refund: one unit back to the bucket of the current day, never below zero.
Refund(count) == IF count = NoBucket THEN count ELSE Max({count - 1, 0})
GiveBack(c) ==
    LET b == Bucket(c) IN
    /\ call[c].at = "accounted" /\ Metered(c) /\ (Detached(c) \/ ~call[c].gone)
    /\ used' = [used EXCEPT ![b] = Refund(@)]
    /\ IF call[c].day = today THEN granted' = [granted EXCEPT ![b] = @ - 1] /\ UNCHANGED late
       ELSE late' = [late EXCEPT ![b] = @ + 1] /\ UNCHANGED granted
    /\ Leave(c) /\ UNCHANGED <<Clock, Store, sandbox, ceiling>>
\* The refund fails, is cancelled with the request, or nothing was reserved.
NoRefund(c) ==
    /\ call[c].at = "accounted" /\ Leave(c)
    /\ UNCHANGED <<Clock, Store, Counts, sandbox>>

-----------------------------------------------------------------------------
(* Administration and time.                                                  *)

Edited == edits < MaxEdits /\ edits' = edits + 1
\* adminUpsertPlanHandler and UpsertPlan.
EditPlan(limit) ==
    /\ Edited /\ freeLimit' = limit
    /\ UNCHANGED <<Clock, Counts, gate, sandbox, call, quotaRow>>
\* adminUpsertQuotaHandler and UpsertUserQuota: an absent override clears it.
\* decodeAdminBody answers a malformed body itself and returns no error, so
\* the handler goes on with the empty body: that is an absent override too.
UpsertUserQuota(override) == [row |-> TRUE, override |-> override]
EditQuota(u, override) ==
    /\ Edited /\ quotaRow' = [quotaRow EXCEPT ![u] = UpsertUserQuota(override)]
    /\ UNCHANGED <<Clock, Counts, gate, sandbox, call, freeLimit>>
\* SweepOnce: sandboxes older than the retention, here a day.
SweepOnce ==
    /\ \E c \in Searchers : sandbox[c] \in 0 .. today - 1
    /\ sandbox' = [c \in Searchers |-> IF sandbox[c] < today THEN -1 ELSE sandbox[c]]
    /\ UNCHANGED <<Clock, Store, Counts, gate, call>>
Midnight ==
    /\ today < LastDay /\ today' = today + 1
    /\ UNCHANGED <<minute, Store, Counts, gate, sandbox, call>>
MinutePasses ==
    /\ minute < LastMinute /\ minute' = minute + 1
    /\ UNCHANGED <<today, Store, Counts, gate, sandbox, call>>

MeterNext ==
    \/ \E c \in Searchers :
          \/ \E route \in Routes \ Gates : ArriveUngated(c, route)
          \/ \E g \in Gates : Acquire(c, g)
          \/ BadBody(c) \/ GoodBody(c) \/ ReadLimit(c) \/ Reserve(c) \/ NotReserved(c)
          \/ OpenSandbox(c) \/ RunClaude(c) \/ AskService(c) \/ AskScorer(c)
          \/ AskRanked(c) \/ ClientLeaves(c) \/ Account(c) \/ GiveBack(c) \/ NoRefund(c)
    \/ \E limit \in Allowances : EditPlan(limit)
    \/ \E u \in Subscribers, o \in Allowances \cup {NoOverride} : EditQuota(u, o)
    \/ SweepOnce \/ Midnight \/ MinutePasses

MeterSpec == MeterInit /\ [][MeterNext]_meterVars

-----------------------------------------------------------------------------
(* Properties.                                                               *)

\* The calls reserved for a day and not given back on it stay within the
\* largest limit a reservation of that day was made under - one at least, for
\* the insert of CheckAndReserve - plus the refunds that came after midnight
\* for calls of the day before.
QuotaHolds ==
    \A ud \in UserDays : granted[ud] <= Max({1, ceiling[ud]}) + late[ud]
\* A gate counts exactly the calls in flight, in all and for each user, and
\* never more than its limits, whichever way the calls end.
GatesBalanced ==
    \A g \in Gates :
        LET inside == {c \in Searchers : call[c].holds /\ call[c].route = g} IN
        /\ gate[g].active = Cardinality(inside) /\ gate[g].active <= GateTotal[g]
        /\ \A k \in GateKeys :
              /\ gate[g].users[k] = Cardinality({c \in inside : SearcherUser[c] = k})
              /\ gate[g].users[k] <= GateUser[g]
\* A user is never served beyond the allowance, concurrently, across midnight
\* or through refunds, and a scoring gate never leaks a place.
AllowanceHolds == QuotaHolds /\ GatesBalanced
==============================================================================
