-------------------------- MODULE Platform_proofs --------------------------
(***************************************************************************)
(* What the platform's services keep for every value of their constants:    *)
(* the meter its daily allowance and its gates (AllowanceHolds).            *)
(***************************************************************************)
EXTENDS Metering, Plugins, FiniteSetTheorems, SequenceTheorems, TLAPS

-----------------------------------------------------------------------------
(* Metered search: what a day's bucket counts.                               *)

\* A call in the model's variable call.
MeterCall == [at : {"idle", "admitted", "parsed", "limited", "reserved", "running"}
                   \cup Outcomes \cup {"accounted"},
              route : Routes \cup {"none"}, limit : Nat, day : Nat,
              gone : BOOLEAN, spent : BOOLEAN, holds : BOOLEAN]
QuotaRows == [row : BOOLEAN, override : Nat \cup {NoOverride}]
MeterTyped ==
    /\ today \in Nat /\ freeLimit \in Nat
    /\ quotaRow \in [Subscribers -> QuotaRows]
    /\ used \in [UserDays -> {NoBucket} \cup Nat]
    /\ granted \in [UserDays -> Int] /\ late \in [UserDays -> Int]
    /\ ceiling \in [UserDays -> Int]
    /\ call \in [Searchers -> MeterCall]
\* The credential without a user record only gets as far as the ranked gate.
OnPath(r) ==
    \/ r.at \in {"parsed", "limited"}
    \/ r.at = "admitted" /\ r.route = "generate"
OnlyUsersMetered ==
    \A c \in Searchers : OnPath(call[c]) => SearcherUser[c] \in Subscribers

Counted(ud) == IF used[ud] = NoBucket THEN 0 ELSE used[ud]
\* A bucket counts every call granted on its day, but for the refunds that came
\* late, and never more than the largest limit it was raised under.
BucketSound(ud) ==
    /\ granted[ud] <= Counted(ud) + late[ud]
    /\ Counted(ud) <= 1 \/ Counted(ud) <= ceiling[ud]
MeterInv == MeterTyped /\ OnlyUsersMetered /\ \A ud \in UserDays : BucketSound(ud)

\* The larger of two integers, as the code's limits use it.
LEMMA MaxOfTwo ==
  ASSUME NEW a \in Int, NEW b \in Int
  PROVE  Max({a, b}) = IF a >= b THEN a ELSE b
<1>1. Max({a, b}) \in {a, b} /\ \A y \in {a, b} : Max({a, b}) >= y
  <2> DEFINE m == IF a >= b THEN a ELSE b
  <2>1. m \in {a, b} /\ \A y \in {a, b} : m >= y
    OBVIOUS
  <2> HIDE DEF m
  <2> QED
    BY <2>1 DEF Max
<1> QED
  BY <1>1

\* Updating a function keeps its range.
LEMMA Updated ==
  ASSUME NEW D, NEW T, NEW f \in [D -> T], NEW b, NEW v, b \in D => v \in T
  PROVE  [f EXCEPT ![b] = v] \in [D -> T]
OBVIOUS

\* Initially no bucket exists and no call is under way.
LEMMA MeterInvInit == MeterInit => MeterInv
<1>1. ASSUME MeterInit PROVE MeterTyped
  BY <1>1, MeteringConfig
     DEF MeterInit, MeterTyped, MeterCall, QuotaRows, Unasked, NoOverride, NoBucket, Routes,
         Outcomes
<1>2. ASSUME MeterInit PROVE OnlyUsersMetered /\ \A ud \in UserDays : BucketSound(ud)
  BY <1>2 DEF MeterInit, OnlyUsersMetered, OnPath, BucketSound, Counted, Unasked, NoBucket
<1> QED
  BY <1>1, <1>2 DEF MeterInv

\* The limit that is read is a number, whatever administrators set.
LEMMA LimitIsNumber ==
  ASSUME MeterTyped, NEW u \in Subscribers
  PROVE  EffectiveLimit(u) \in Nat
BY MeteringConfig DEF MeterTyped, EffectiveLimit, QuotaRows, NoOverride

\* A call may step to another record without the bucket moving.
LEMMA CallMoves ==
  ASSUME MeterInv, UNCHANGED <<Counts, Store, today>>,
         NEW c \in Searchers, NEW r \in MeterCall, call' = [call EXCEPT ![c] = r],
         OnPath(r) => SearcherUser[c] \in Subscribers
  PROVE  MeterInv'
<1>1. MeterTyped'
  BY DEF MeterInv, MeterTyped, Counts, Store
<1>2. OnlyUsersMetered'
  BY DEF MeterInv, MeterTyped, OnlyUsersMetered
<1>3. \A ud \in UserDays : BucketSound(ud)'
  BY DEF MeterInv, BucketSound, Counted, Counts
<1> QED
  BY <1>1, <1>2, <1>3 DEF MeterInv

\* The steps that only move one call.
LEMMA CallSteps ==
  ASSUME MeterInv, NEW c \in Searchers,
         \/ \E route \in Routes \ Gates : ArriveUngated(c, route)
         \/ \E g \in Gates : Acquire(c, g)
         \/ BadBody(c) \/ GoodBody(c) \/ ReadLimit(c) \/ NotReserved(c)
         \/ OpenSandbox(c) \/ RunClaude(c) \/ AskService(c) \/ AskScorer(c)
         \/ AskRanked(c) \/ ClientLeaves(c) \/ NoRefund(c)
  PROVE  MeterInv'
<1> DEFINE Rec == call[c]
<1>0. Rec \in MeterCall /\ call \in [Searchers -> MeterCall]
  BY DEF MeterInv, MeterTyped
<1>1. Unasked \in MeterCall /\ ~OnPath(Unasked)
  BY DEF Unasked, MeterCall, OnPath
<1>2. ASSUME Leave(c), UNCHANGED <<Counts, Store, today>>
      PROVE  MeterInv'
  BY <1>1, <1>2, CallMoves DEF Leave
<1>3. ASSUME NEW at \in {"running", "failed"}, To(c, at), UNCHANGED <<Counts, Store, today>>
      PROVE  MeterInv'
  <2> DEFINE r == [Rec EXCEPT !.at = at]
  <2>1. r \in MeterCall /\ ~OnPath(r) /\ call' = [call EXCEPT ![c] = r]
    BY <1>0, <1>3 DEF To, MeterCall, Outcomes, OnPath
  <2> QED
    BY <1>3, <2>1, CallMoves
<1>4. ASSUME NEW at \in Outcomes, NEW spent \in BOOLEAN, Upstream(c, at, spent) PROVE MeterInv'
  <2> DEFINE r == [Rec EXCEPT !.at = at, !.spent = spent]
  <2>1. r \in MeterCall /\ ~OnPath(r) /\ call' = [call EXCEPT ![c] = r]
    BY <1>0, <1>4 DEF Upstream, MeterCall, Outcomes, OnPath
  <2> QED
    BY <1>4, <2>1, CallMoves DEF Upstream, Clock
<1>5. ASSUME NEW route \in Routes \ Gates, ArriveUngated(c, route) PROVE MeterInv'
  <2> DEFINE r == [Unasked EXCEPT !.at = "parsed", !.route = route]
  <2>1. r \in MeterCall /\ call' = [call EXCEPT ![c] = r]
    BY <1>1, <1>5 DEF ArriveUngated, MeterCall, Unasked
  <2>2. SearcherUser[c] \in Subscribers
    BY <1>5, MeteringConfig DEF ArriveUngated
  <2> QED
    BY <1>5, <2>1, <2>2, CallMoves DEF ArriveUngated, Clock
<1>6. ASSUME NEW g \in Gates, Acquire(c, g) PROVE MeterInv'
  <2> DEFINE r == [Unasked EXCEPT !.at = "admitted", !.route = g, !.holds = TRUE]
  <2>1. r \in MeterCall /\ call' = [call EXCEPT ![c] = r]
    BY <1>1, <1>6 DEF Acquire, MeterCall, Unasked, Gates, Routes
  <2>2. OnPath(r) => SearcherUser[c] \in Subscribers
    BY <1>6, MeteringConfig DEF Acquire, OnPath, Unasked
  <2> QED
    BY <1>6, <2>1, <2>2, CallMoves DEF Acquire, Clock
<1>7. CASE GoodBody(c)
  <2> DEFINE r == [Rec EXCEPT !.at = IF Rec.route = "generate" THEN "parsed" ELSE "reserved"]
  <2>1. r \in MeterCall /\ call' = [call EXCEPT ![c] = r]
    BY <1>0, <1>7 DEF GoodBody, To, MeterCall
  <2>2. OnPath(r) => SearcherUser[c] \in Subscribers
    BY <1>0, <1>7 DEF GoodBody, MeterInv, OnlyUsersMetered, OnPath, MeterCall
  <2> QED
    BY <1>7, <2>1, <2>2, CallMoves DEF GoodBody, Clock
<1>8. CASE ReadLimit(c)
  <2>1. SearcherUser[c] \in Subscribers
    BY <1>8 DEF MeterInv, OnlyUsersMetered, OnPath, ReadLimit
  <2>4. UNCHANGED <<Counts, Store, today>>
    BY <1>8 DEF ReadLimit, Clock
  <2> DEFINE limit == EffectiveLimit(SearcherUser[c])
             r == [Rec EXCEPT !.at = "limited", !.limit = limit]
  <2>2. r \in MeterCall
    BY <1>0, <2>1, LimitIsNumber DEF MeterCall, MeterInv
  <2>3. call' = [call EXCEPT ![c] = r] \/ Leave(c)
    BY <1>8 DEF ReadLimit
  <2> QED
    BY <1>2, <2>1, <2>2, <2>3, <2>4, CallMoves
<1>9. CASE RunClaude(c)
  <2> DEFINE r == [Rec EXCEPT !.at = "served", !.spent = TRUE]
  <2>1. r \in MeterCall /\ ~OnPath(r)
    BY <1>0 DEF MeterCall, Outcomes, OnPath
  <2>2. call' = [call EXCEPT ![c] = r] \/ To(c, "failed")
    BY <1>9 DEF RunClaude
  <2>3. UNCHANGED <<Counts, Store, today>>
    BY <1>9 DEF RunClaude, Clock
  <2> QED
    BY <1>3, <2>1, <2>2, <2>3, CallMoves
<1>10. CASE ClientLeaves(c)
  <2> DEFINE r == [Rec EXCEPT !.gone = TRUE]
  <2>1. r \in MeterCall /\ ~OnPath(r) /\ call' = [call EXCEPT ![c] = r]
    BY <1>0, <1>10 DEF ClientLeaves, MeterCall, OnPath
  <2> QED
    BY <1>10, <2>1, CallMoves DEF ClientLeaves, Clock
<1>11. CASE AskService(c)
  BY <1>4, <1>11 DEF AskService, Outcomes
<1>12. CASE AskScorer(c)
  BY <1>4, <1>12 DEF AskScorer
<1>13. CASE AskRanked(c)
  BY <1>4, <1>13 DEF AskRanked
<1> QED
  BY <1>2, <1>3, <1>5, <1>6, <1>7, <1>8, <1>9, <1>10, <1>11, <1>12, <1>13
     DEF BadBody, NotReserved, OpenSandbox, NoRefund, Clock

\* A reservation: the first unit whatever the limit, the next ones below it.
LEMMA ReserveStep ==
  ASSUME MeterInv, NEW c \in Searchers, Reserve(c)
  PROVE  MeterInv'
<1> DEFINE b == Bucket(c)
           n == call[c].limit
<1>1. b \in UserDays \/ b \notin UserDays
  OBVIOUS
<1>2. n \in Nat /\ call[c] \in MeterCall /\ call[c].at = "limited"
  BY DEF MeterInv, MeterTyped, MeterCall, Reserve
<1>3. /\ UNCHANGED <<today, freeLimit, quotaRow, late>>
      /\ used' = [used EXCEPT ![b] = CheckAndReserve(@)]
      /\ ceiling' = [ceiling EXCEPT ![b] = Max({@, n})]
      /\ granted' = [granted EXCEPT ![b] = @ + 1] \/ granted' = granted
      /\ MayReserve(used[b], n)
  BY DEF Reserve, Clock, Store
<1>4. MeterTyped'
  <2>1. used' \in [UserDays -> {NoBucket} \cup Nat]
    <3>1. b \in UserDays => CheckAndReserve(used[b]) \in {NoBucket} \cup Nat
      BY DEF MeterInv, MeterTyped, CheckAndReserve, NoBucket
    <3> QED
      BY <1>3, <3>1, Updated DEF MeterInv, MeterTyped
  <2>2. ceiling' \in [UserDays -> Int]
    <3>1. b \in UserDays => Max({ceiling[b], n}) \in Int
      BY <1>2, MaxOfTwo DEF MeterInv, MeterTyped
    <3> QED
      BY <1>3, <3>1, Updated DEF MeterInv, MeterTyped
  <2>4. granted' \in [UserDays -> Int]
    <3>1. b \in UserDays => granted[b] + 1 \in Int
      BY DEF MeterInv, MeterTyped
    <3> QED
      BY <1>3, <3>1, Updated DEF MeterInv, MeterTyped
  <2>3. call' \in [Searchers -> MeterCall]
    <3>1. [call[c] EXCEPT !.at = "reserved", !.day = today] \in MeterCall /\ Unasked \in MeterCall
      BY <1>2 DEF MeterInv, MeterTyped, MeterCall, Unasked
    <3> QED
      BY <3>1 DEF Reserve, Leave, MeterInv, MeterTyped
  <2> QED
    BY <1>3, <2>1, <2>2, <2>3, <2>4 DEF MeterInv, MeterTyped
<1>5. OnlyUsersMetered'
  <2>1. ASSUME NEW d \in Searchers PROVE call'[d] = call[d] \/ ~OnPath(call'[d])
    <3>1. \/ call' = [call EXCEPT ![c] = [call[c] EXCEPT !.at = "reserved", !.day = today]]
          \/ call' = [call EXCEPT ![c] = Unasked]
      BY DEF Reserve, Leave
    <3>2. ~OnPath([call[c] EXCEPT !.at = "reserved", !.day = today]) /\ ~OnPath(Unasked)
      BY <1>2 DEF MeterCall, OnPath, Unasked
    <3> QED
      BY <3>1, <3>2 DEF MeterInv, MeterTyped
  <2> QED
    BY <2>1 DEF MeterInv, OnlyUsersMetered
<1>6. ASSUME NEW ud \in UserDays PROVE BucketSound(ud)'
  <2>1. CASE ud = b
    <3>1. /\ used[ud] \in {NoBucket} \cup Nat /\ granted[ud] \in Int /\ late[ud] \in Int
          /\ ceiling[ud] \in Int
      BY DEF MeterInv, MeterTyped
    <3>2. used'[ud] = Counted(ud) + 1 /\ used'[ud] # NoBucket /\ late'[ud] = late[ud]
      BY <1>3, <2>1, <3>1 DEF MeterInv, MeterTyped, CheckAndReserve, Counted, NoBucket
    <3>3. granted'[ud] \in {granted[ud], granted[ud] + 1}
      BY <1>3, <2>1, <3>1 DEF MeterInv, MeterTyped
    <3>4. ceiling'[ud] >= n
      BY <1>2, <1>3, <2>1, <3>1, MaxOfTwo, SMTT(30) DEF MeterInv, MeterTyped
    <3>5. Counted(ud) = 0 \/ Counted(ud) < n
      BY <1>3, <2>1 DEF MayReserve, Counted
    <3>6. ceiling'[ud] \in Int /\ Counted(ud) \in Nat
      BY <1>4, <3>1 DEF MeterTyped, Counted, NoBucket
    <3> QED
      BY <1>2, <3>1, <3>2, <3>3, <3>4, <3>5, <3>6 DEF MeterInv, BucketSound, Counted
  <2>2. CASE ud # b
    BY <1>3, <2>2 DEF MeterInv, MeterTyped, BucketSound, Counted
  <2> QED
    BY <2>1, <2>2
<1> QED
  BY <1>4, <1>5, <1>6 DEF MeterInv

\* Recording tokens makes a missing bucket, with nothing in it.
LEMMA AccountStep ==
  ASSUME MeterInv, NEW c \in Searchers, Account(c)
  PROVE  MeterInv'
<1>1. UNCHANGED <<today, freeLimit, quotaRow, granted, late, ceiling>>
  BY DEF Account, Clock, Store
<1>2. used' \in [UserDays -> {NoBucket} \cup Nat]
  BY DEF MeterInv, MeterTyped, Account, RecordTokens, NoBucket
<1>3. \A ud \in UserDays : Counted(ud)' = Counted(ud)
  BY DEF MeterInv, MeterTyped, Account, RecordTokens, Counted, NoBucket
<1>4. \E r \in MeterCall : call' = [call EXCEPT ![c] = r] /\ ~OnPath(r)
  <2>1. [call[c] EXCEPT !.at = "accounted"] \in MeterCall /\ Unasked \in MeterCall
    BY DEF MeterInv, MeterTyped, MeterCall, Unasked
  <2>2. call' = [call EXCEPT ![c] = Unasked] \/ call' = [call EXCEPT ![c] = [call[c] EXCEPT !.at = "accounted"]]
    BY DEF Account, Leave, To
  <2> QED
    BY <2>1, <2>2 DEF MeterInv, MeterTyped, Unasked, MeterCall, OnPath
<1>5. MeterTyped' /\ OnlyUsersMetered'
  BY <1>1, <1>2, <1>4 DEF MeterInv, MeterTyped, OnlyUsersMetered
<1> QED
  BY <1>1, <1>3, <1>5 DEF MeterInv, BucketSound

\* A refund goes to the bucket of the day it is made on.
LEMMA GiveBackStep ==
  ASSUME MeterInv, NEW c \in Searchers, GiveBack(c)
  PROVE  MeterInv'
<1> DEFINE b == Bucket(c)
<1>1. /\ UNCHANGED <<today, freeLimit, quotaRow, ceiling>>
      /\ used' = [used EXCEPT ![b] = Refund(@)]
      /\ \/ granted' = [granted EXCEPT ![b] = @ - 1] /\ late' = late
         \/ late' = [late EXCEPT ![b] = @ + 1] /\ granted' = granted
      /\ call' = [call EXCEPT ![c] = Unasked]
  BY DEF GiveBack, Clock, Store, Leave
<1>2. ASSUME NEW k \in {NoBucket} \cup Nat
      PROVE  Refund(k) = IF k \in {NoBucket, 0} THEN k ELSE k - 1
  BY MaxOfTwo DEF Refund, NoBucket
<1>3. MeterTyped'
  <2>1. used' \in [UserDays -> {NoBucket} \cup Nat]
    <3>1. b \in UserDays => Refund(used[b]) \in {NoBucket} \cup Nat
      BY <1>2 DEF MeterInv, MeterTyped, NoBucket
    <3> QED
      BY <1>1, <3>1, Updated DEF MeterInv, MeterTyped
  <2>2. granted' \in [UserDays -> Int] /\ late' \in [UserDays -> Int]
    BY <1>1 DEF MeterInv, MeterTyped
  <2>3. call' \in [Searchers -> MeterCall]
    BY <1>1 DEF MeterInv, MeterTyped, MeterCall, Unasked
  <2> QED
    BY <1>1, <2>1, <2>2, <2>3 DEF MeterInv, MeterTyped
<1>4. OnlyUsersMetered'
  BY <1>1 DEF MeterInv, MeterTyped, OnlyUsersMetered, OnPath, Unasked
<1>5. ASSUME NEW ud \in UserDays PROVE BucketSound(ud)'
  <2>1. CASE ud = b
    <3>1. /\ used[ud] \in {NoBucket} \cup Nat /\ granted[ud] \in Int /\ late[ud] \in Int
          /\ ceiling[ud] \in Int /\ ceiling'[ud] = ceiling[ud]
      BY <1>1 DEF MeterInv, MeterTyped
    <3>2. Counted(ud)' = IF Counted(ud) = 0 THEN 0 ELSE Counted(ud) - 1
      BY <1>1, <1>2, <2>1, <3>1 DEF MeterInv, MeterTyped, Counted, NoBucket
    <3>3. Counted(ud) \in Nat
      BY <3>1 DEF Counted, NoBucket
    <3>4. \/ granted'[ud] = granted[ud] - 1 /\ late'[ud] = late[ud]
          \/ granted'[ud] = granted[ud] /\ late'[ud] = late[ud] + 1
      BY <1>1, <2>1 DEF MeterInv, MeterTyped
    <3> QED
      BY <3>1, <3>2, <3>3, <3>4 DEF MeterInv, BucketSound
  <2>2. CASE ud # b
    BY <1>1, <2>2 DEF MeterInv, MeterTyped, BucketSound, Counted
  <2> QED
    BY <2>1, <2>2
<1> QED
  BY <1>3, <1>4, <1>5 DEF MeterInv

\* Administrators, the janitor and the clock.
LEMMA OfficeSteps ==
  ASSUME MeterInv,
         \/ \E limit \in Allowances : EditPlan(limit)
         \/ \E u \in Subscribers, o \in Allowances \cup {NoOverride} : EditQuota(u, o)
         \/ SweepOnce \/ Midnight \/ MinutePasses
  PROVE  MeterInv'
<1>1. UNCHANGED <<Counts, call>>
  BY DEF EditPlan, EditQuota, SweepOnce, Midnight, MinutePasses, Counts
<1>2. today' \in Nat /\ freeLimit' \in Nat
  BY MeteringConfig
     DEF MeterInv, MeterTyped, EditPlan, EditQuota, SweepOnce, Midnight, MinutePasses, Clock, Store
<1>3. quotaRow' \in [Subscribers -> QuotaRows]
  <2>1. ASSUME NEW u \in Subscribers, NEW o \in Allowances \cup {NoOverride}, EditQuota(u, o)
        PROVE  quotaRow' \in [Subscribers -> QuotaRows]
    <3>1. UpsertUserQuota(o) \in QuotaRows
      BY MeteringConfig DEF UpsertUserQuota, QuotaRows
    <3> QED
      BY <2>1, <3>1 DEF EditQuota, MeterInv, MeterTyped
  <2> QED
    BY <2>1 DEF MeterInv, MeterTyped, EditPlan, SweepOnce, Midnight, MinutePasses, Store
<1> QED
  BY <1>1, <1>2, <1>3
     DEF MeterInv, MeterTyped, OnlyUsersMetered, BucketSound, Counted, Counts

\* Every step keeps what the buckets count.
LEMMA MeterInvNext == MeterInv /\ [MeterNext]_meterVars => MeterInv'
<1>1. ASSUME MeterInv, MeterNext PROVE MeterInv'
  BY <1>1, CallSteps, ReserveStep, AccountStep, GiveBackStep, OfficeSteps DEF MeterNext
<1>2. ASSUME MeterInv, UNCHANGED meterVars PROVE MeterInv'
  BY <1>2 DEF meterVars, MeterInv, MeterTyped, OnlyUsersMetered, BucketSound, Counted
<1> QED
  BY <1>1, <1>2

\* What the buckets count is within the limits they were raised under.
LEMMA QuotaFollows == MeterInv => QuotaHolds
<1> SUFFICES ASSUME MeterInv, NEW ud \in UserDays
             PROVE  granted[ud] <= Max({1, ceiling[ud]}) + late[ud]
  BY DEF QuotaHolds
<1>1. /\ used[ud] \in {NoBucket} \cup Nat /\ granted[ud] \in Int /\ late[ud] \in Int
      /\ ceiling[ud] \in Int
  BY DEF MeterInv, MeterTyped
<1>2. Max({1, ceiling[ud]}) = IF 1 >= ceiling[ud] THEN 1 ELSE ceiling[ud]
  BY <1>1, MaxOfTwo
<1> QED
  BY <1>1, <1>2 DEF MeterInv, BucketSound, Counted, NoBucket

-----------------------------------------------------------------------------
(* Metered search: the gates.                                                *)

Inside(g) == {c \in Searchers : call[c].holds /\ call[c].route = g}
InsideAs(g, k) == {c \in Inside(g) : SearcherUser[c] = k}
GateRecord == [active : Int, users : [GateKeys -> Int], start : [GateKeys -> Int],
               count : [GateKeys -> Int]]
GateTyped ==
    /\ gate \in [Gates -> GateRecord] /\ minute \in Int
    /\ \A c \in Searchers : /\ call[c].holds => call[c].route \in Gates
                            /\ call[c].at = "idle" => ~call[c].holds
GateCounts(g) ==
    /\ gate[g].active = Cardinality(Inside(g)) /\ gate[g].active <= GateTotal[g]
    /\ \A k \in GateKeys : /\ gate[g].users[k] = Cardinality(InsideAs(g, k))
                           /\ gate[g].users[k] <= GateUser[g]
GateInv == GateTyped /\ \A g \in Gates : GateCounts(g)

\* The calls inside a gate are finitely many.
LEMMA InsideFinite ==
  ASSUME NEW g, NEW k
  PROVE  IsFiniteSet(Inside(g)) /\ IsFiniteSet(InsideAs(g, k))
<1>1. Inside(g) \in SUBSET Searchers /\ InsideAs(g, k) \in SUBSET Searchers
  BY DEF Inside, InsideAs
<1> QED
  BY <1>1, FS_Subset, MeteringConfig

\* Initially the gates are empty.
LEMMA GateInvInit == MeterInit => GateInv
<1> SUFFICES ASSUME MeterInit PROVE GateInv
  OBVIOUS
<1>1. GateTyped
  BY DEF MeterInit, GateTyped, GateRecord, EmptyGate, Unasked
<1>2. \A g \in Gates : Inside(g) = {} /\ \A k \in GateKeys : InsideAs(g, k) = {}
  BY DEF MeterInit, Inside, InsideAs, Unasked
<1>3. Cardinality({}) = 0
  BY FS_EmptySet
<1>4. ASSUME NEW g \in Gates PROVE GateCounts(g)
  <2>1. gate[g].active = 0 /\ \A k \in GateKeys : gate[g].users[k] = 0
    BY DEF MeterInit, EmptyGate
  <2>2. 0 <= GateTotal[g] /\ 0 <= GateUser[g]
    BY MeteringConfig
  <2>3. Cardinality(Inside(g)) = 0 /\ \A k \in GateKeys : Cardinality(InsideAs(g, k)) = 0
    BY <1>2, <1>3
  <2> QED
    BY <2>1, <2>2, <2>3 DEF GateCounts
<1> QED
  BY <1>1, <1>4 DEF GateInv

\* Steps that leave every call inside its gate, or outside.
LEMMA GateRests ==
  ASSUME GateInv, gate' = gate, minute' \in Int,
         \A c \in Searchers : /\ call'[c].holds = call[c].holds
                              /\ call[c].holds => call'[c].route = call[c].route
                              /\ call'[c].at = "idle" => ~call'[c].holds
  PROVE  GateInv'
<1>1. \A g : Inside(g)' = Inside(g) /\ \A k : InsideAs(g, k)' = InsideAs(g, k)
  BY DEF Inside, InsideAs
<1> QED
  BY <1>1 DEF GateInv, GateTyped, GateCounts

\* One call moves on, inside its gate or outside.
LEMMA CallRests ==
  ASSUME GateInv, MeterTyped, gate' = gate, minute' \in Int, NEW c \in Searchers, NEW r,
         call' = [call EXCEPT ![c] = r], r.holds = call[c].holds,
         r.holds => r.route = call[c].route, r.at = "idle" => ~r.holds
  PROVE  GateInv'
<1>1. ASSUME NEW d \in Searchers
      PROVE  /\ call'[d].holds = call[d].holds
             /\ call[d].holds => call'[d].route = call[d].route
             /\ call'[d].at = "idle" => ~call'[d].holds
  <2>1. CASE d = c
    <3>1. call'[d] = r
      BY <2>1 DEF MeterTyped
    <3> QED
      BY <2>1, <3>1
  <2>2. CASE d # c
    <3>1. call'[d] = call[d]
      BY <2>2 DEF MeterTyped
    <3> QED
      BY <3>1 DEF GateInv, GateTyped
  <2> QED
    BY <2>1, <2>2
<1> QED
  BY <1>1, GateRests

\* Whoever leaves gives its place back, and only its own.
LEMMA GateLeft ==
  ASSUME GateInv, MeterTyped, NEW c \in Searchers, Leave(c), minute' \in Int
  PROVE  GateInv'
<1>1. CASE ~call[c].holds
  <2>1. call' = [call EXCEPT ![c] = Unasked] /\ gate' = gate
    BY <1>1 DEF Leave
  <2>2. call[c].holds = FALSE
    BY <1>1 DEF MeterTyped, MeterCall
  <2> QED
    BY <2>1, <2>2, CallRests DEF Unasked
<1>2. CASE call[c].holds
  <2>1. PICK h \in Gates, u \in GateKeys : h = call[c].route /\ u = SearcherUser[c]
    BY <1>2, MeteringConfig DEF GateInv, GateTyped, GateKeys
  <2>2. gate' = [gate EXCEPT ![h].active = @ - 1, ![h].users[u] = @ - 1]
    BY <1>2, <2>1 DEF Leave, Release
  <2>3. call' = [call EXCEPT ![c] = Unasked]
    BY DEF Leave
  <2>4. gate \in [Gates -> GateRecord]
    BY DEF GateInv, GateTyped
  <2>5. gate'[h].active = gate[h].active - 1
    BY <2>1, <2>2, <2>4 DEF GateRecord
  <2>6. \A k \in GateKeys :
           gate'[h].users[k] = IF k = u THEN gate[h].users[k] - 1 ELSE gate[h].users[k]
    BY <2>1, <2>2, <2>4 DEF GateRecord
  <2>7. \A g \in Gates : g # h => gate'[g] = gate[g]
    BY <2>1, <2>2, <2>4
  <2>8. gate' \in [Gates -> GateRecord]
    <3> DEFINE r == [gate[h] EXCEPT !.active = @ - 1, !.users[u] = @ - 1]
    <3>1. r \in GateRecord
      <4>1. PICK w : w = gate[h] /\ w \in GateRecord
        BY <2>1, <2>4
      <4>2. w.active - 1 \in Int /\ [w.users EXCEPT ![u] = @ - 1] \in [GateKeys -> Int]
        BY <4>1 DEF GateRecord
      <4>3. [w EXCEPT !.active = @ - 1, !.users[u] = @ - 1]
              = [w EXCEPT !.active = w.active - 1, !.users = [w.users EXCEPT ![u] = @ - 1]]
        BY <4>1, Zenon DEF GateRecord
      <4>4. [w EXCEPT !.active = w.active - 1, !.users = [w.users EXCEPT ![u] = @ - 1]] \in GateRecord
        BY <4>1, <4>2, Zenon DEF GateRecord
      <4> QED
        BY <4>1, <4>3, <4>4
    <3>2. gate' = [gate EXCEPT ![h] = r]
      BY <2>2
    <3> HIDE DEF r
    <3> QED
      BY <2>4, <3>1, <3>2
  <2>9. GateTyped'
    BY <2>3, <2>8 DEF GateInv, GateTyped, MeterTyped, Unasked
  <2>10. /\ Inside(h)' = Inside(h) \ {c} /\ c \in Inside(h)
         /\ InsideAs(h, u)' = InsideAs(h, u) \ {c} /\ c \in InsideAs(h, u)
         /\ \A k \in GateKeys : k # u => InsideAs(h, k)' = InsideAs(h, k)
         /\ \A g \in Gates : g # h => /\ Inside(g)' = Inside(g)
                                      /\ \A k \in GateKeys : InsideAs(g, k)' = InsideAs(g, k)
    <3>1. \A d \in Searchers : call'[d] = IF d = c THEN Unasked ELSE call[d]
      BY <2>3 DEF MeterTyped
    <3>2. ~Unasked.holds
      BY DEF Unasked
    <3>3. \A g : Inside(g)' = IF g = h THEN Inside(g) \ {c} ELSE Inside(g)
      BY <1>2, <2>1, <3>1, <3>2 DEF Inside
    <3>4. \A g : c \in Inside(g) <=> g = h
      BY <1>2, <2>1 DEF Inside
    <3>5. \A g, k : InsideAs(g, k)' = IF g = h THEN InsideAs(g, k) \ {c} ELSE InsideAs(g, k)
      BY <3>3 DEF InsideAs
    <3>6. \A k : c \in InsideAs(h, k) <=> k = u
      BY <2>1, <3>4 DEF InsideAs
    <3> QED
      BY <3>3, <3>4, <3>5, <3>6
  <2>11. /\ Cardinality(Inside(h)') = Cardinality(Inside(h)) - 1
         /\ Cardinality(InsideAs(h, u)') = Cardinality(InsideAs(h, u)) - 1
    <3>1. IsFiniteSet(Inside(h)) /\ IsFiniteSet(InsideAs(h, u))
      BY InsideFinite
    <3>2. Cardinality(Inside(h) \ {c}) = Cardinality(Inside(h)) - 1
      BY <2>10, <3>1, FS_RemoveElement
    <3>3. Cardinality(InsideAs(h, u) \ {c}) = Cardinality(InsideAs(h, u)) - 1
      BY <2>10, <3>1, FS_RemoveElement
    <3> QED
      BY <2>10, <3>2, <3>3
  <2>12. ASSUME NEW g \in Gates PROVE GateCounts(g)'
    <3>1. CASE g # h
      BY <2>7, <2>10, <3>1 DEF GateInv, GateCounts
    <3>2. CASE g = h
      <4>1. GateCounts(h) /\ gate[h] \in GateRecord
        BY <2>1, <2>4 DEF GateInv
      <4>2. gate'[h].active = Cardinality(Inside(h)') /\ gate'[h].active <= GateTotal[h]
        BY <2>1, <2>5, <2>11, <4>1, MeteringConfig DEF GateCounts, GateRecord
      <4>3. ASSUME NEW k \in GateKeys
            PROVE  /\ gate'[h].users[k] = Cardinality(InsideAs(h, k)')
                   /\ gate'[h].users[k] <= GateUser[h]
        <5>1. /\ gate[h].users[k] = Cardinality(InsideAs(h, k)) /\ gate[h].users[k] \in Int
              /\ gate[h].users[k] <= GateUser[h] /\ GateUser[h] \in Int
          BY <2>1, <4>1, MeteringConfig DEF GateCounts, GateRecord
        <5>2. CASE k = u
          BY <2>6, <2>11, <5>1, <5>2
        <5>3. CASE k # u
          BY <2>6, <2>10, <5>1, <5>3
        <5> QED
          BY <5>2, <5>3
      <4> QED
        BY <3>2, <4>2, <4>3 DEF GateCounts
    <3> QED
      BY <3>1, <3>2
  <2> QED
    BY <2>9, <2>12 DEF GateInv
<1> QED
  BY <1>1, <1>2

\* A place is taken only below both limits.
LEMMA GateTaken ==
  ASSUME GateInv, MeterTyped, NEW c \in Searchers, NEW h \in Gates, Acquire(c, h)
  PROVE  GateInv'
<1> DEFINE u == SearcherUser[c]
<1>1. u \in GateKeys /\ gate \in [Gates -> GateRecord] /\ minute \in Int /\ minute' = minute
  BY MeteringConfig DEF GateInv, GateTyped, GateKeys, Acquire, Clock
<1>2. gate' = [gate EXCEPT ![h].active = @ + 1, ![h].users[u] = @ + 1,
                           ![h].start[u] = IF @ < minute THEN minute ELSE @,
                           ![h].count[u] = WindowCount(h, u) + 1]
  BY DEF Acquire
<1>3. /\ call[c].at = "idle" /\ ~call[c].holds
      /\ call' = [call EXCEPT ![c] =
                    [Unasked EXCEPT !.at = "admitted", !.route = h, !.holds = TRUE]]
      /\ gate[h].active < GateTotal[h] /\ gate[h].users[u] < GateUser[h]
  BY DEF Acquire, Admits, GateInv, GateTyped
<1>4. WindowCount(h, u) \in Int
  BY <1>1 DEF WindowCount, GateRecord
<1>5. gate'[h].active = gate[h].active + 1
  BY <1>1, <1>2 DEF GateRecord
<1>6. \A k \in GateKeys :
         gate'[h].users[k] = IF k = u THEN gate[h].users[k] + 1 ELSE gate[h].users[k]
  BY <1>1, <1>2 DEF GateRecord
<1>7. \A g \in Gates : g # h => gate'[g] = gate[g]
  BY <1>1, <1>2
<1>8. gate' \in [Gates -> GateRecord]
  BY <1>1, <1>2, <1>4 DEF GateRecord
<1>9. GateTyped'
  BY <1>1, <1>3, <1>8 DEF GateInv, GateTyped, MeterTyped, Unasked
<1>10. /\ Inside(h)' = Inside(h) \cup {c} /\ c \notin Inside(h)
       /\ InsideAs(h, u)' = InsideAs(h, u) \cup {c} /\ c \notin InsideAs(h, u)
       /\ \A k \in GateKeys : k # u => InsideAs(h, k)' = InsideAs(h, k)
       /\ \A g \in Gates : g # h => /\ Inside(g)' = Inside(g)
                                    /\ \A k \in GateKeys : InsideAs(g, k)' = InsideAs(g, k)
  BY <1>3 DEF MeterTyped, Inside, InsideAs, Unasked
<1>11. /\ Cardinality(Inside(h)') = Cardinality(Inside(h)) + 1
       /\ Cardinality(InsideAs(h, u)') = Cardinality(InsideAs(h, u)) + 1
  <2>1. IsFiniteSet(Inside(h)) /\ IsFiniteSet(InsideAs(h, u))
    BY InsideFinite
  <2>2. Cardinality(Inside(h) \cup {c}) = Cardinality(Inside(h)) + 1
    BY <1>10, <2>1, FS_AddElement
  <2>3. Cardinality(InsideAs(h, u) \cup {c}) = Cardinality(InsideAs(h, u)) + 1
    BY <1>10, <2>1, FS_AddElement
  <2> QED
    BY <1>10, <2>2, <2>3
<1>12. ASSUME NEW g \in Gates PROVE GateCounts(g)'
  <2>1. CASE g # h
    BY <1>7, <1>10, <2>1 DEF GateInv, GateCounts
  <2>2. CASE g = h
    <3>1. GateCounts(h) /\ gate[h] \in GateRecord
      BY <1>1 DEF GateInv
    <3>2. gate'[h].active = Cardinality(Inside(h)') /\ gate'[h].active <= GateTotal[h]
      BY <1>3, <1>5, <1>11, <3>1, MeteringConfig DEF GateCounts, GateRecord
    <3>3. ASSUME NEW k \in GateKeys
          PROVE  /\ gate'[h].users[k] = Cardinality(InsideAs(h, k)')
                 /\ gate'[h].users[k] <= GateUser[h]
      <4>1. /\ gate[h].users[k] = Cardinality(InsideAs(h, k)) /\ gate[h].users[k] \in Int
            /\ gate[h].users[k] <= GateUser[h] /\ GateUser[h] \in Int
        BY <3>1, MeteringConfig DEF GateCounts, GateRecord
      <4>2. CASE k = u
        BY <1>3, <1>6, <1>11, <4>1, <4>2
      <4>3. CASE k # u
        BY <1>6, <1>10, <4>1, <4>3
      <4> QED
        BY <4>2, <4>3
    <3> QED
      BY <2>2, <3>2, <3>3 DEF GateCounts
  <2> QED
    BY <2>1, <2>2
<1> QED
  BY <1>9, <1>12 DEF GateInv

\* Every step keeps the gates balanced.
LEMMA GateInvNext == MeterTyped /\ GateInv /\ [MeterNext]_meterVars => GateInv'
<1> SUFFICES ASSUME MeterTyped, GateInv, [MeterNext]_meterVars PROVE GateInv'
  OBVIOUS
<1>0. minute \in Int
  BY DEF GateInv, GateTyped
<1>1. ASSUME NEW c \in Searchers, Leave(c), minute' = minute PROVE GateInv'
  BY <1>0, <1>1, GateLeft
<1>2. ASSUME NEW c \in Searchers, NEW r, call' = [call EXCEPT ![c] = r], gate' = gate,
             minute' = minute, r.holds = call[c].holds, r.route = call[c].route,
             r.at # "idle"
      PROVE  GateInv'
  BY <1>0, <1>2, CallRests
<1>3. ASSUME NEW c \in Searchers, NEW at, at # "idle", To(c, at), gate' = gate, minute' = minute
      PROVE  GateInv'
  <2> DEFINE r == [call[c] EXCEPT !.at = at]
  <2>1. call' = [call EXCEPT ![c] = r]
    BY <1>3 DEF To
  <2>2. call[c] \in MeterCall
    BY DEF MeterTyped
  <2>3. r.holds = call[c].holds /\ r.route = call[c].route /\ r.at # "idle"
    BY <1>3, <2>2 DEF MeterCall
  <2> QED
    BY <1>2, <1>3, <2>1, <2>2, <2>3
<1>4. ASSUME NEW c \in Searchers, NEW route \in Routes \ Gates, ArriveUngated(c, route)
      PROVE  GateInv'
  <2>1. /\ call' = [call EXCEPT ![c] = [Unasked EXCEPT !.at = "parsed", !.route = route]]
        /\ gate' = gate /\ minute' = minute /\ ~call[c].holds
    BY <1>4 DEF ArriveUngated, Clock, GateInv, GateTyped
  <2>2. call[c].holds = FALSE
    BY <2>1 DEF MeterTyped, MeterCall
  <2> QED
    BY <1>0, <2>1, <2>2, CallRests DEF Unasked
<1>5. ASSUME NEW c \in Searchers, GoodBody(c) PROVE GateInv'
  BY <1>3, <1>5 DEF GoodBody, Clock
<1>6. ASSUME NEW c \in Searchers, ReadLimit(c) PROVE GateInv'
  <2> DEFINE r == [call[c] EXCEPT !.at = "limited", !.limit = EffectiveLimit(SearcherUser[c])]
  <2>1. \/ Leave(c)
        \/ call' = [call EXCEPT ![c] = r] /\ gate' = gate
    BY <1>6 DEF ReadLimit
  <2>2. minute' = minute /\ call[c] \in MeterCall
    BY <1>6 DEF ReadLimit, Clock, MeterTyped
  <2>3. r.holds = call[c].holds /\ r.route = call[c].route /\ r.at # "idle"
    BY <2>2 DEF MeterCall
  <2> QED
    BY <1>1, <1>2, <2>1, <2>2, <2>3
<1>7. ASSUME NEW c \in Searchers, Reserve(c) PROVE GateInv'
  <2> DEFINE r == [call[c] EXCEPT !.at = "reserved", !.day = today]
  <2>1. \/ Leave(c)
        \/ call' = [call EXCEPT ![c] = r] /\ gate' = gate
    BY <1>7 DEF Reserve
  <2>2. minute' = minute /\ call[c] \in MeterCall
    BY <1>7 DEF Reserve, Clock, MeterTyped
  <2>3. r.holds = call[c].holds /\ r.route = call[c].route /\ r.at # "idle"
    BY <2>2 DEF MeterCall
  <2> QED
    BY <1>1, <1>2, <2>1, <2>2, <2>3
<1>8. ASSUME NEW c \in Searchers, RunClaude(c) PROVE GateInv'
  <2> DEFINE r == [call[c] EXCEPT !.at = "served", !.spent = TRUE]
  <2>1. \/ To(c, "failed")
        \/ call' = [call EXCEPT ![c] = r]
    BY <1>8 DEF RunClaude
  <2>2. minute' = minute /\ gate' = gate /\ call[c] \in MeterCall
    BY <1>8 DEF RunClaude, Clock, MeterTyped
  <2>3. r.holds = call[c].holds /\ r.route = call[c].route /\ r.at # "idle"
    BY <2>2 DEF MeterCall
  <2> QED
    BY <1>2, <1>3, <2>1, <2>2, <2>3
<1>9. ASSUME NEW c \in Searchers, NEW at \in Outcomes, NEW spent, Upstream(c, at, spent)
      PROVE  GateInv'
  <2> DEFINE r == [call[c] EXCEPT !.at = at, !.spent = spent]
  <2>1. /\ call' = [call EXCEPT ![c] = r] /\ gate' = gate /\ minute' = minute
        /\ call[c] \in MeterCall /\ at # "idle"
    BY <1>9 DEF Upstream, Clock, MeterTyped, Outcomes
  <2>2. r.holds = call[c].holds /\ r.route = call[c].route /\ r.at # "idle"
    BY <2>1 DEF MeterCall
  <2> QED
    BY <1>2, <2>1, <2>2
<1>10. ASSUME NEW c \in Searchers, ClientLeaves(c) PROVE GateInv'
  <2> DEFINE r == [call[c] EXCEPT !.gone = TRUE]
  <2>1. /\ call' = [call EXCEPT ![c] = r] /\ gate' = gate /\ minute' = minute
        /\ call[c] \in MeterCall /\ call[c].at # "idle"
    BY <1>10 DEF ClientLeaves, Clock, MeterTyped
  <2>2. r.holds = call[c].holds /\ r.route = call[c].route /\ r.at # "idle"
    BY <2>1 DEF MeterCall
  <2> QED
    BY <1>2, <2>1, <2>2
<1>11. ASSUME NEW c \in Searchers, Account(c) PROVE GateInv'
  <2>1. minute' = minute
    BY <1>11 DEF Account, Clock
  <2>2. \/ Leave(c)
        \/ To(c, "accounted") /\ gate' = gate
    BY <1>11 DEF Account
  <2> QED
    BY <1>1, <1>3, <2>1, <2>2
<1>12. ASSUME NEW c \in Searchers, BadBody(c) \/ NotReserved(c) \/ GiveBack(c) \/ NoRefund(c)
       PROVE  GateInv'
  BY <1>1, <1>12 DEF BadBody, NotReserved, GiveBack, NoRefund, Clock
<1>13. ASSUME NEW c \in Searchers, AskService(c) \/ AskScorer(c) \/ AskRanked(c) PROVE GateInv'
  BY <1>9, <1>13 DEF AskService, AskScorer, AskRanked, Outcomes
<1>14. ASSUME \/ \E limit \in Allowances : EditPlan(limit)
              \/ \E u \in Subscribers, o \in Allowances \cup {NoOverride} : EditQuota(u, o)
              \/ SweepOnce \/ Midnight \/ MinutePasses
       PROVE  GateInv'
  <2>1. UNCHANGED <<gate, call>> /\ minute' \in Int
    BY <1>0, <1>14 DEF EditPlan, EditQuota, SweepOnce, Midnight, MinutePasses, Clock, Edited
  <2> QED
    BY <2>1, GateRests DEF GateInv, GateTyped
<1>15. CASE UNCHANGED meterVars
  BY <1>0, <1>15, GateRests DEF meterVars, GateInv, GateTyped
<1>16. ASSUME NEW c \in Searchers, OpenSandbox(c) PROVE GateInv'
  BY <1>3, <1>16 DEF OpenSandbox, Clock
<1> QED
  BY <1>4, <1>5, <1>6, <1>7, <1>8, <1>10, <1>11, <1>12, <1>13, <1>14, <1>15, <1>16, GateTaken
     DEF MeterNext

\* A gate's counters are the calls inside it.
LEMMA GatesFollow == GateInv => GatesBalanced
BY DEF GateInv, GateCounts, GatesBalanced, Inside, InsideAs

\* Search allowances hold for any number of users, calls and administrators: a
\* day's reservations stay within the largest limit they were made under, but
\* for refunds that came after midnight, and a scoring gate counts exactly the
\* calls inside it and never more than it may admit (internal/usage,
\* routes/search_scoring.go).
THEOREM AllowancesAlwaysHold == MeterSpec => []AllowanceHolds
<1>1. MeterInit => MeterInv /\ GateInv
  BY MeterInvInit, GateInvInit
<1>2. MeterInv /\ GateInv /\ [MeterNext]_meterVars => MeterInv' /\ GateInv'
  BY MeterInvNext, GateInvNext DEF MeterInv
<1>3. MeterInv /\ GateInv => AllowanceHolds
  BY QuotaFollows, GatesFollow DEF AllowanceHolds
<1> QED
  BY <1>1, <1>2, <1>3, PTL DEF MeterSpec

-----------------------------------------------------------------------------
(* Plugins: types.                                                           *)

ConnRecord == [at : {"unborn", "open", "authed", "marked", "serving"} \cup Gone,
               plugin : SUBSET PluginIds, slot : Nat,
               queue : Seq(Nat), sent : Seq(Nat), pump : BOOLEAN]
Slots == PluginConns \cup {NoConn}
PlugTyped ==
    /\ plugin \in [PluginIds -> [enabled : BOOLEAN,
                      status : {"connected", "disconnected", "disabled", "incompatible"}]]
    /\ conn \in [PluginConns -> ConnRecord]
    /\ subscribers \in Seq(Slots)
    /\ publishing \in [PluginConns -> [event : Nat, todo : Seq(Slots)]]
    /\ publisher \in Seq(PluginConns)
    /\ probing \in [Remotes -> {"none", "ok", "down"}]

\* Before anything is heard of a plugin it is not shown connected, unless it
\* is a remote one, and never disabled.
LEMMA UnheardStatus ==
  ASSUME NEW p \in PluginIds
  PROVE  /\ Unheard(p) \in {"connected", "disconnected", "incompatible"}
         /\ Unheard(p) = "connected" => p \in Remotes
BY DEF Unheard

\* A record that only changes its position is a record.
LEMMA ConnAtTyped ==
  ASSUME PlugTyped, NEW c \in PluginConns,
         NEW at \in {"unborn", "open", "authed", "marked", "serving"} \cup Gone, ConnAt(c, at)
  PROVE  /\ conn' \in [PluginConns -> ConnRecord]
         /\ conn'[c] = [conn[c] EXCEPT !.at = at]
         /\ \A d \in PluginConns : d # c => conn'[d] = conn[d]
BY ZenonT(30) DEF PlugTyped, ConnAt, ConnRecord

\* Marking a plugin connected or disconnected keeps the registry's types.
LEMMA MarkTyped ==
  ASSUME PlugTyped, NEW p, MarkConnected(p) \/ MarkDisconnected(p)
  PROVE  plugin' \in [PluginIds -> [enabled : BOOLEAN,
                      status : {"connected", "disconnected", "disabled", "incompatible"}]]
BY ZenonT(30) DEF PlugTyped, MarkConnected, MarkDisconnected, Becomes

\* Emptying a slot keeps the slots.
LEMMA VacatedSlots ==
  ASSUME PlugTyped, NEW slot
  PROVE  /\ Vacated(slot) \in Seq(Slots) /\ Len(Vacated(slot)) = Len(subscribers)
         /\ \A i \in 1 .. Len(subscribers) :
               Vacated(slot)[i] = IF i = slot THEN NoConn ELSE subscribers[i]
<1>1. subscribers \in Seq(Slots) /\ NoConn \in Slots
  BY DEF PlugTyped, Slots
<1>2. CASE slot \in 1 .. Len(subscribers)
  BY <1>1, <1>2, ExceptSeq DEF Vacated
<1>3. CASE slot \notin 1 .. Len(subscribers)
  BY <1>1, <1>3 DEF Vacated
<1> QED
  BY <1>2, <1>3

\* Initially everything has its type.
LEMMA PlugTypedInit == PluginsInit => PlugTyped
<1> SUFFICES ASSUME PluginsInit PROVE PlugTyped
  OBVIOUS
<1>1. \A p \in PluginIds : addManifest(p) \in [enabled : BOOLEAN,
           status : {"connected", "disconnected", "disabled", "incompatible"}]
  BY UnheardStatus DEF addManifest, activeInSets
<1>2. \A S : <<>> \in Seq(S)
  BY EmptySeq
<1>3. [event |-> 0, todo |-> <<>>] \in [event : Nat, todo : Seq(Slots)]
  BY <1>2
<1>4. [at |-> "unborn", plugin |-> {}, slot |-> 0, queue |-> <<>>, sent |-> <<>>, pump |-> TRUE]
        \in ConnRecord
  BY <1>2 DEF ConnRecord
<1> QED
  BY <1>1, <1>2, <1>3, <1>4 DEF PluginsInit, PlugTyped, NotPublishing

\* What a connection's steps do to its own record, and to no other.
ConnMoves(c) ==
    /\ conn' \in [PluginConns -> ConnRecord]
    /\ \A d \in PluginConns : d # c => conn'[d] = conn[d]
KeepsFlow(c) == conn'[c].sent = conn[c].sent /\ conn'[c].queue = conn[c].queue

\* The steps of a connection up to its service, and its end.
LEMMA PlainMoves ==
  ASSUME PlugTyped, NEW c \in PluginConns,
         \/ Connects(c) \/ Registers(c) \/ HangUp(c) \/ Leaves(c)
         \/ \E p \in PluginIds : authenticate(c, p)
         \/ subscribeConnection(c)
  PROVE  ConnMoves(c) /\ KeepsFlow(c)
<1>0. conn[c] \in ConnRecord /\ conn \in [PluginConns -> ConnRecord]
  BY DEF PlugTyped
<1>1. ASSUME NEW at \in {"unborn", "open", "authed", "marked", "serving"} \cup Gone, ConnAt(c, at)
      PROVE  ConnMoves(c) /\ KeepsFlow(c)
  <2>1. /\ conn' \in [PluginConns -> ConnRecord] /\ conn'[c] = [conn[c] EXCEPT !.at = at]
        /\ \A d \in PluginConns : d # c => conn'[d] = conn[d]
    BY <1>1, ConnAtTyped
  <2> QED
    BY <1>0, <2>1 DEF ConnMoves, KeepsFlow, ConnRecord
<1>2. ASSUME NEW r \in ConnRecord, conn' = [conn EXCEPT ![c] = r],
             r.sent = conn[c].sent, r.queue = conn[c].queue
      PROVE  ConnMoves(c) /\ KeepsFlow(c)
  BY <1>0, <1>2 DEF ConnMoves, KeepsFlow
<1>3. ASSUME NEW p \in PluginIds, authenticate(c, p) PROVE ConnMoves(c) /\ KeepsFlow(c)
  <2> DEFINE r == [conn[c] EXCEPT !.at = "authed", !.plugin = {p}]
  <2>1. r \in ConnRecord /\ r.sent = conn[c].sent /\ r.queue = conn[c].queue
    BY <1>0 DEF ConnRecord
  <2>2. conn' = [conn EXCEPT ![c] = r] \/ ConnAt(c, "over")
    BY <1>3 DEF authenticate
  <2> QED
    BY <1>1, <1>2, <2>1, <2>2 DEF Gone
<1>4. CASE subscribeConnection(c)
  <2> DEFINE r == [conn[c] EXCEPT !.at = "serving", !.slot = Len(subscribers) + 1]
  <2>1. r \in ConnRecord /\ r.sent = conn[c].sent /\ r.queue = conn[c].queue
    <3>1. Len(subscribers) + 1 \in Nat
      BY LenProperties DEF PlugTyped
    <3> QED
      BY <1>0, <3>1 DEF ConnRecord
  <2>2. conn' = [conn EXCEPT ![c] = r] \/ ConnAt(c, "serving")
    BY <1>4 DEF subscribeConnection
  <2> QED
    BY <1>1, <1>2, <2>1, <2>2
<1> QED
  BY <1>1, <1>3, <1>4 DEF Connects, Registers, HangUp, Leaves, Gone

\* The event goroutine's step.
LEMMA PushMoves ==
  ASSUME PlugTyped, NEW c \in PluginConns, Push(c)
  PROVE  /\ ConnMoves(c) /\ conn[c].queue \in Seq(Nat) /\ conn[c].queue # <<>>
         /\ conn'[c].queue = Tail(conn[c].queue)
         /\ conn'[c].sent \in {conn[c].sent, Append(conn[c].sent, Head(conn[c].queue))}
         /\ conn'[c].at = conn[c].at /\ conn'[c].plugin = conn[c].plugin
         /\ conn'[c].slot = conn[c].slot
<1> DEFINE q == conn[c].queue
           s == conn[c].sent
           r1 == [conn[c] EXCEPT !.queue = Tail(q), !.sent = Append(s, Head(q))]
           r2 == [conn[c] EXCEPT !.queue = Tail(q), !.pump = FALSE]
<1>1. /\ conn[c] \in ConnRecord /\ conn \in [PluginConns -> ConnRecord]
      /\ q \in Seq(Nat) /\ s \in Seq(Nat) /\ q # <<>>
  BY DEF PlugTyped, Push, ConnRecord
<1>2. Tail(q) \in Seq(Nat) /\ Head(q) \in Nat
  BY <1>1, HeadTailProperties
<1>3. Append(s, Head(q)) \in Seq(Nat)
  BY <1>1, <1>2, AppendProperties
<1>4. r1 \in ConnRecord /\ r2 \in ConnRecord
  BY <1>1, <1>2, <1>3 DEF ConnRecord
<1>5. conn' = [conn EXCEPT ![c] = r1] \/ conn' = [conn EXCEPT ![c] = r2]
  BY DEF Push
<1>6. conn'[c] = r1 \/ conn'[c] = r2
  BY <1>1, <1>5
<1>7. ConnMoves(c)
  BY <1>1, <1>4, <1>5 DEF ConnMoves
<1> QED
  BY <1>1, <1>6, <1>7 DEF ConnRecord

\* One handler call: the next connection of the list takes the event, or not.
LEMMA PublishMoves ==
  ASSUME PlugTyped, NEW c \in PluginConns, Publish(c)
  PROVE  /\ publishing[c].todo \in Seq(Slots) /\ publishing[c].todo # <<>>
         /\ publishing' \in [PluginConns -> [event : Nat, todo : Seq(Slots)]]
         /\ \A d \in PluginConns : d # c => publishing'[d] = publishing[d]
         /\ \/ publishing'[c] = NotPublishing
            \/ publishing'[c] = [event |-> publishing[c].event, todo |-> Tail(publishing[c].todo)]
         /\ \/ conn' = conn
            \/ LET d == publishing[c].todo[1]
               IN  /\ d \in PluginConns /\ ConnMoves(d)
                   /\ conn[d].at \notin {"unsubscribed", "over"}
                   /\ conn'[d] = [conn[d] EXCEPT !.queue = Append(@, publishing[c].event)]
<1> DEFINE s == publishing[c].todo
           e == publishing[c].event
<1>1. /\ publishing \in [PluginConns -> [event : Nat, todo : Seq(Slots)]]
      /\ s \in Seq(Slots) /\ s # <<>> /\ e \in Nat
  BY DEF PlugTyped, Publish
<1>2. Tail(s) \in Seq(Slots) /\ Len(s) \in Nat /\ Len(s) # 0 /\ s[1] \in Slots
  <2>1. Tail(s) \in Seq(Slots) /\ Len(s) \in Nat /\ Len(s) # 0
    BY <1>1, HeadTailProperties, EmptySeq
  <2>2. 1 \in 1 .. Len(s)
    BY <2>1
  <2> QED
    BY <1>1, <2>1, <2>2, ElementOfSeq
<1>3. NotPublishing \in [event : Nat, todo : Seq(Slots)]
  BY EmptySeq DEF NotPublishing
<1>4. /\ publishing'[c] \in {NotPublishing, [event |-> e, todo |-> Tail(s)]}
      /\ \A d \in PluginConns : d # c => publishing'[d] = publishing[d]
      /\ publishing' \in [PluginConns -> [event : Nat, todo : Seq(Slots)]]
  BY <1>1, <1>2, <1>3 DEF Publish
<1>5. CASE conn' = conn
  BY <1>1, <1>4, <1>5
<1>6. CASE conn' # conn
  <2> DEFINE d == s[1]
             r == [conn[d] EXCEPT !.queue = Append(@, e)]
  <2>1. /\ d # NoConn /\ conn[d].at \notin {"unsubscribed", "over"}
        /\ conn' = [conn EXCEPT ![d] = r]
    BY <1>6 DEF Publish
  <2>2. d \in PluginConns
    BY <1>2, <2>1 DEF Slots
  <2>3. conn[d] \in ConnRecord /\ conn \in [PluginConns -> ConnRecord]
    BY <2>2 DEF PlugTyped
  <2>4. Append(conn[d].queue, e) \in Seq(Nat)
    BY <1>1, <2>3, AppendProperties DEF ConnRecord
  <2>5. r \in ConnRecord
    BY <2>3, <2>4 DEF ConnRecord
  <2>6. /\ conn' \in [PluginConns -> ConnRecord] /\ conn'[d] = r
        /\ \A x \in PluginConns : x # d => conn'[x] = conn[x]
    BY <2>1, <2>2, <2>3, <2>5
  <2> QED
    BY <1>1, <1>4, <2>1, <2>2, <2>6 DEF ConnMoves
<1> QED
  BY <1>5, <1>6

\* The deferred unsubscription.
LEMMA UnsubscribeMoves ==
  ASSUME PlugTyped, NEW c \in PluginConns, Unsubscribes(c)
  PROVE  /\ ConnMoves(c)
         /\ conn'[c] = [conn[c] EXCEPT !.at = "unsubscribed", !.queue = <<>>]
<1>1. conn[c] \in ConnRecord /\ conn \in [PluginConns -> ConnRecord]
  BY DEF PlugTyped
<1>2. [conn[c] EXCEPT !.at = "unsubscribed", !.queue = <<>>] \in ConnRecord
  BY <1>1, EmptySeq DEF ConnRecord, Gone
<1> QED
  BY <1>1, <1>2 DEF Unsubscribes, ConnMoves

\* Everything else the registry and the bus do, apart from the steps above.
LEMMA RegistrySteps ==
  ASSUME PlugTyped,
         \/ \E p \in PluginIds : Enable(p) \/ Disable(p)
         \/ \E r \in Remotes : SetProbeResult(r) \/ \E a \in {"ok", "down"} : probeHealthz(r, a)
  PROVE  PlugTyped' /\ UNCHANGED <<conn, subscribers, publishing, publisher>>
<1>1. UNCHANGED <<conn, subscribers, publishing, publisher>>
  BY DEF Enable, Disable, SetProbeResult, probeHealthz
<1>2. plugin' \in [PluginIds -> [enabled : BOOLEAN,
                      status : {"connected", "disconnected", "disabled", "incompatible"}]]
  <2>1. ASSUME NEW p \in PluginIds, Enable(p) \/ Disable(p)
        PROVE  plugin' \in [PluginIds -> [enabled : BOOLEAN,
                      status : {"connected", "disconnected", "disabled", "incompatible"}]]
    <3>1. \/ plugin' = [plugin EXCEPT ![p] = [enabled |-> TRUE, status |-> Unheard(p)]]
          \/ plugin' = [plugin EXCEPT ![p] = [enabled |-> FALSE, status |-> "disabled"]]
      BY <2>1 DEF Enable, Disable
    <3>2. Unheard(p) \in {"connected", "disconnected", "incompatible"}
      BY UnheardStatus
    <3> QED
      <4> DEFINE R == [enabled : BOOLEAN,
                        status : {"connected", "disconnected", "disabled", "incompatible"}]
      <4>1. [enabled |-> TRUE, status |-> Unheard(p)] \in R
        BY <3>2
      <4>2. [enabled |-> FALSE, status |-> "disabled"] \in R
        OBVIOUS
      <4>3. plugin \in [PluginIds -> R]
        BY DEF PlugTyped
      <4> HIDE DEF R
      <4>4. plugin' \in [PluginIds -> R]
        BY <3>1, <4>1, <4>2, <4>3, Updated
      <4> QED
        BY <4>4 DEF R
  <2>2. ASSUME NEW r \in Remotes,
               SetProbeResult(r) \/ \E a \in {"ok", "down"} : probeHealthz(r, a)
        PROVE  plugin' \in [PluginIds -> [enabled : BOOLEAN,
                      status : {"connected", "disconnected", "disabled", "incompatible"}]]
    <3>1. \/ plugin' = plugin
          \/ \E st \in {"connected", "disconnected"} : Becomes(r, st)
      BY <2>2 DEF SetProbeResult, probeHealthz
    <3>2. plugin \in [PluginIds -> [enabled : BOOLEAN,
                      status : {"connected", "disconnected", "disabled", "incompatible"}]]
      BY DEF PlugTyped
    <3> QED
      BY <3>1, <3>2 DEF Becomes
  <2> QED
    BY <2>1, <2>2
<1>3. probing' \in [Remotes -> {"none", "ok", "down"}]
  BY DEF PlugTyped, Enable, Disable, SetProbeResult, probeHealthz
<1> QED
  BY <1>1, <1>2, <1>3 DEF PlugTyped

\* Every step keeps the types.
LEMMA PlugTypedNext == PlugTyped /\ [PluginsNext]_pluginVars => PlugTyped'
<1> SUFFICES ASSUME PlugTyped, [PluginsNext]_pluginVars PROVE PlugTyped'
  OBVIOUS
<1>1. ASSUME NEW c \in PluginConns,
             \/ Connects(c) \/ Registers(c) \/ HangUp(c) \/ Leaves(c)
             \/ \E p \in PluginIds : authenticate(c, p)
             \/ subscribeConnection(c)
      PROVE  PlugTyped'
  <2>1. conn' \in [PluginConns -> ConnRecord]
    BY <1>1, PlainMoves DEF ConnMoves
  <2>2. UNCHANGED <<publishing, publisher, probing>>
    BY <1>1 DEF Connects, Registers, HangUp, Leaves, authenticate, subscribeConnection
  <2>3. plugin' \in [PluginIds -> [enabled : BOOLEAN,
                      status : {"connected", "disconnected", "disabled", "incompatible"}]]
    BY <1>1, MarkTyped
       DEF Connects, Registers, HangUp, Leaves, authenticate, subscribeConnection, PlugTyped
  <2>4. subscribers' \in Seq(Slots)
    <3>1. Append(subscribers, c) \in Seq(Slots)
      BY AppendProperties DEF PlugTyped, Slots
    <3> QED
      BY <1>1, <3>1
         DEF Connects, Registers, HangUp, Leaves, authenticate, subscribeConnection, Subscribe,
             PlugTyped
  <2> QED
    BY <2>1, <2>2, <2>3, <2>4 DEF PlugTyped
<1>2. ASSUME NEW c \in PluginConns, Push(c) PROVE PlugTyped'
  BY <1>2, PushMoves DEF Push, PlugTyped, ConnMoves
<1>3. ASSUME NEW c \in PluginConns, Publish(c) PROVE PlugTyped'
  <2>1. UNCHANGED <<plugin, subscribers, publisher, probing>>
    BY <1>3 DEF Publish
  <2>2. /\ publishing' \in [PluginConns -> [event : Nat, todo : Seq(Slots)]]
        /\ conn' = conn \/ conn' \in [PluginConns -> ConnRecord]
    BY <1>3, PublishMoves DEF ConnMoves
  <2> QED
    BY <2>1, <2>2 DEF PlugTyped
<1>4. ASSUME NEW c \in PluginConns, Unsubscribes(c) PROVE PlugTyped'
  <2>1. conn' \in [PluginConns -> ConnRecord]
    BY <1>4, UnsubscribeMoves DEF ConnMoves
  <2>2. subscribers' \in Seq(Slots)
    BY <1>4, VacatedSlots DEF Unsubscribes
  <2> QED
    BY <1>4, <2>1, <2>2 DEF Unsubscribes, PlugTyped
<1>5. ASSUME NEW c \in PluginConns, eventsPublish(c) PROVE PlugTyped'
  <2>1. publisher' \in Seq(PluginConns) /\ Len(publisher) + 1 \in Nat
    BY <1>5, AppendProperties, LenProperties DEF eventsPublish, PlugTyped
  <2>2. publishing' \in [PluginConns -> [event : Nat, todo : Seq(Slots)]]
    BY <1>5, <2>1 DEF eventsPublish, PlugTyped
  <2> QED
    BY <1>5, <2>1, <2>2 DEF eventsPublish, PlugTyped
<1>6. ASSUME NEW c \in PluginConns, PublishNobody(c) PROVE PlugTyped'
  <2>1. NotPublishing \in [event : Nat, todo : Seq(Slots)]
    BY EmptySeq DEF NotPublishing
  <2> QED
    BY <1>6, <2>1 DEF PublishNobody, PlugTyped
<1>7. CASE UNCHANGED pluginVars
  BY <1>7 DEF pluginVars, PlugTyped
<1> QED
  BY <1>1, <1>2, <1>3, <1>4, <1>5, <1>6, <1>7, RegistrySteps DEF PluginsNext

-----------------------------------------------------------------------------
(* Plugins: what the registry shows.                                         *)

\* A connection has the external plugin it authenticated as, from then on.
ConnPlugin(c) ==
    /\ conn[c].at \in {"unborn", "open"} => conn[c].plugin = {}
    /\ conn[c].at \in {"authed", "marked", "serving", "closing", "unsubscribed"} =>
          \E p \in Externals : conn[c].plugin = {p}
\* Shown connected, an external plugin has a connection that will say that it
\* leaves, and that the registry will believe.
Connected(p) ==
    plugin[p].status = "connected" =>
       /\ Compatible(p)
       /\ \E c \in PluginConns : p \in conn[c].plugin /\ conn[c].at # "over"
StatusInv ==
    /\ \A p \in PluginIds : (plugin[p].status = "disabled") = ~plugin[p].enabled
    /\ \A p \in Externals : Connected(p)
    /\ \A c \in PluginConns : ConnPlugin(c)

\* The plugin a connection authenticated as.
LEMMA PluginOfConn ==
  ASSUME NEW c, NEW p, conn[c].plugin = {p}
  PROVE  PluginOf(c) = p
BY DEF PluginOf

\* Initially no plugin is connected but the remote ones, and none has a connection.
LEMMA StatusInit == PluginsInit => StatusInv
<1> SUFFICES ASSUME PluginsInit PROVE StatusInv
  OBVIOUS
<1>2. ASSUME NEW p \in PluginIds PROVE (plugin[p].status = "disabled") = ~plugin[p].enabled
  <2>1. CASE activeInSets(p)
    <3>1. plugin[p] = [enabled |-> TRUE, status |-> Unheard(p)]
      BY <2>1 DEF PluginsInit, addManifest
    <3>2. plugin[p].enabled = TRUE
      BY <3>1
    <3>3. plugin[p].status = Unheard(p)
      BY <3>1
    <3> QED
      BY <3>2, <3>3, UnheardStatus
  <2>2. CASE ~activeInSets(p)
    <3>1. plugin[p] = [enabled |-> FALSE, status |-> "disabled"]
      BY <2>2 DEF PluginsInit, addManifest
    <3>2. plugin[p].enabled = FALSE
      BY <3>1
    <3>3. plugin[p].status = "disabled"
      BY <3>1
    <3> QED
      BY <3>2, <3>3
  <2> QED
    BY <2>1, <2>2
<1>3. ASSUME NEW p \in Externals PROVE plugin[p].status # "connected"
  <2>1. p \in PluginIds /\ p \notin Remotes
    BY PluginsConfig DEF PluginIds
  <2>2. Unheard(p) # "connected"
    BY <2>1, UnheardStatus
  <2>3. \/ plugin[p] = [enabled |-> TRUE, status |-> Unheard(p)]
        \/ plugin[p] = [enabled |-> FALSE, status |-> "disabled"]
    BY <2>1 DEF PluginsInit, addManifest
  <2> QED
    BY <2>2, <2>3
<1>4. ASSUME NEW c \in PluginConns PROVE ConnPlugin(c)
  BY DEF PluginsInit, ConnPlugin
<1> QED
  BY <1>2, <1>3, <1>4 DEF StatusInv, Connected

\* A step that moves connections without ending one, and leaves the registry.
LEMMA StatusRests ==
  ASSUME StatusInv, plugin' = plugin,
         \A c \in PluginConns : /\ conn'[c].plugin = conn[c].plugin
                                /\ conn[c].at # "over" => conn'[c].at # "over"
                                /\ ConnPlugin(c)'
  PROVE  StatusInv'
BY DEF StatusInv, Connected, Compatible

\* Enabling, disabling and probes show an external plugin connected to nobody
\* who is not there.
LEMMA StatusRegistry ==
  ASSUME PlugTyped, StatusInv,
         \/ \E p \in PluginIds : Enable(p) \/ Disable(p)
         \/ \E r \in Remotes : SetProbeResult(r) \/ \E a \in {"ok", "down"} : probeHealthz(r, a)
  PROVE  StatusInv'
<1>1. conn' = conn
  BY RegistrySteps
<1>2. \A c \in PluginConns : ConnPlugin(c)'
  BY <1>1 DEF StatusInv, ConnPlugin
<1>3. ASSUME NEW p \in PluginIds, Enable(p) \/ Disable(p) PROVE StatusInv'
  <2>1. /\ plugin'[p].status # "disabled" => plugin'[p].enabled /\ plugin'[p].status = Unheard(p)
        /\ plugin'[p].status = "disabled" => ~plugin'[p].enabled
        /\ \A q \in PluginIds : q # p => plugin'[q] = plugin[q]
    <3>1. CASE Enable(p)
      <4>1. plugin' = [plugin EXCEPT ![p] = [enabled |-> TRUE, status |-> Unheard(p)]]
        BY <3>1 DEF Enable
      <4>2. Unheard(p) # "disabled"
        BY UnheardStatus
      <4> QED
        BY <4>1, <4>2 DEF PlugTyped
    <3>2. CASE Disable(p)
      <4>1. plugin' = [plugin EXCEPT ![p] = [enabled |-> FALSE, status |-> "disabled"]]
        BY <3>2 DEF Disable
      <4> QED
        BY <4>1 DEF PlugTyped
    <3> QED
      BY <1>3, <3>1, <3>2
  <2>2. p \in Externals => plugin'[p].status # "connected"
    BY <2>1, UnheardStatus, PluginsConfig DEF PluginIds
  <2>3. \A q \in PluginIds : (plugin'[q].status = "disabled") = ~plugin'[q].enabled
    <3> SUFFICES ASSUME NEW q \in PluginIds
                 PROVE  (plugin'[q].status = "disabled") = ~plugin'[q].enabled
      OBVIOUS
    <3>1. CASE q = p
      <4>1. plugin'[p].enabled \in BOOLEAN
        BY RegistrySteps DEF PlugTyped
      <4> QED
        BY <2>1, <3>1, <4>1
    <3>2. CASE q # p
      BY <2>1, <3>2 DEF StatusInv
    <3> QED
      BY <3>1, <3>2
  <2>4. \A q \in Externals : Connected(q)'
    BY <1>1, <2>1, <2>2 DEF StatusInv, Connected, Compatible, PluginIds
  <2> QED
    BY <1>2, <2>3, <2>4 DEF StatusInv
<1>4. ASSUME NEW r \in Remotes, SetProbeResult(r) \/ \E a \in {"ok", "down"} : probeHealthz(r, a)
      PROVE  StatusInv'
  <2>1. /\ \A q \in PluginIds : q # r => plugin'[q] = plugin[q]
        /\ \/ plugin'[r] = plugin[r]
           \/ /\ plugin[r].enabled /\ plugin'[r].enabled = plugin[r].enabled
              /\ plugin'[r].status \in {"connected", "disconnected"}
    BY <1>4 DEF SetProbeResult, probeHealthz, Becomes, PlugTyped, PluginIds
  <2>2. \A q \in PluginIds : (plugin'[q].status = "disabled") = ~plugin'[q].enabled
    BY <2>1 DEF StatusInv
  <2>3. \A q \in Externals : Connected(q)'
    BY <1>1, <2>1, PluginsConfig DEF StatusInv, Connected, Compatible, PluginIds
  <2> QED
    BY <1>2, <2>2, <2>3 DEF StatusInv
<1> QED
  BY <1>3, <1>4

\* A handshake registers only an enabled plugin of the host's ABI.
LEMMA StatusRegisters ==
  ASSUME PlugTyped, StatusInv, NEW c \in PluginConns, Registers(c)
  PROVE  StatusInv'
<1>1. PICK p \in Externals : conn[c].plugin = {p} /\ conn[c].at = "authed"
  BY DEF Registers, StatusInv, ConnPlugin
<1>2. PluginOf(c) = p
  BY <1>1, PluginOfConn
<1>3. /\ conn'[c] = [conn[c] EXCEPT !.at = "marked"]
      /\ \A d \in PluginConns : d # c => conn'[d] = conn[d]
  BY ConnAtTyped DEF Registers
<1>4. /\ \A q \in PluginIds : q # p => plugin'[q] = plugin[q]
      /\ \/ plugin'[p] = plugin[p]
         \/ /\ plugin[p].enabled /\ Compatible(p) /\ plugin'[p].enabled = plugin[p].enabled
            /\ plugin'[p].status = "connected"
  BY <1>2 DEF Registers, MarkConnected, Becomes, PlugTyped, PluginIds
<1>5. conn'[c].plugin = {p} /\ conn'[c].at = "marked"
  BY <1>1, <1>3 DEF PlugTyped, ConnRecord
<1>6. \A d \in PluginConns : ConnPlugin(d)'
  BY <1>3, <1>5 DEF StatusInv, ConnPlugin
<1>7. \A q \in PluginIds : (plugin'[q].status = "disabled") = ~plugin'[q].enabled
  BY <1>4 DEF StatusInv
<1>8. ASSUME NEW q \in Externals PROVE Connected(q)'
  <2>1. CASE q = p
    BY <1>4, <1>5, <2>1 DEF StatusInv, Connected, Compatible
  <2>2. CASE q # p
    <3>1. plugin'[q] = plugin[q]
      BY <1>4, <2>2 DEF PluginIds
    <3>2. ASSUME NEW d \in PluginConns, q \in conn[d].plugin, conn[d].at # "over"
          PROVE  q \in conn'[d].plugin /\ conn'[d].at # "over"
      BY <1>1, <1>3, <2>2, <3>2
    <3> QED
      BY <3>1, <3>2 DEF StatusInv, Connected, Compatible
  <2> QED
    BY <2>1, <2>2
<1> QED
  BY <1>6, <1>7, <1>8 DEF StatusInv

\* A connection that leaves takes the plugin's status with it.
LEMMA StatusLeaves ==
  ASSUME PlugTyped, StatusInv, NEW c \in PluginConns, Leaves(c)
  PROVE  StatusInv'
<1>1. PICK p \in Externals : conn[c].plugin = {p} /\ conn[c].at = "unsubscribed"
  BY DEF Leaves, StatusInv, ConnPlugin
<1>2. PluginOf(c) = p
  BY <1>1, PluginOfConn
<1>3. /\ conn'[c] = [conn[c] EXCEPT !.at = "over"]
      /\ \A d \in PluginConns : d # c => conn'[d] = conn[d]
  BY ConnAtTyped DEF Leaves, Gone
<1>4. /\ \A q \in PluginIds : q # p => plugin'[q] = plugin[q]
      /\ \/ plugin'[p] = plugin[p] /\ ~(plugin[p].enabled /\ Compatible(p))
         \/ /\ plugin[p].enabled /\ plugin'[p].enabled = plugin[p].enabled
            /\ plugin'[p].status = "disconnected"
  BY <1>2, PluginsConfig DEF Leaves, MarkDisconnected, Becomes, PlugTyped, PluginIds
<1>5. conn'[c].plugin = {p} /\ conn'[c].at = "over"
  BY <1>1, <1>3 DEF PlugTyped, ConnRecord
<1>6. \A d \in PluginConns : ConnPlugin(d)'
  BY <1>3, <1>5 DEF StatusInv, ConnPlugin
<1>7. \A q \in PluginIds : (plugin'[q].status = "disabled") = ~plugin'[q].enabled
  BY <1>4 DEF StatusInv
<1>8. ASSUME NEW q \in Externals PROVE Connected(q)'
  <2>1. CASE q = p
    <3>1. plugin'[p].status # "connected"
      BY <1>4 DEF StatusInv, Connected, PluginIds
    <3> QED
      BY <2>1, <3>1 DEF Connected
  <2>2. CASE q # p
    <3>1. plugin'[q] = plugin[q]
      BY <1>4, <2>2 DEF PluginIds
    <3>2. ASSUME NEW d \in PluginConns, q \in conn[d].plugin, conn[d].at # "over"
          PROVE  q \in conn'[d].plugin /\ conn'[d].at # "over"
      BY <1>1, <1>3, <2>2, <3>2
    <3> QED
      BY <3>1, <3>2 DEF StatusInv, Connected, Compatible
  <2> QED
    BY <2>1, <2>2
<1> QED
  BY <1>6, <1>7, <1>8 DEF StatusInv

\* Every step keeps what the registry shows true.
LEMMA StatusNext == PlugTyped /\ StatusInv /\ [PluginsNext]_pluginVars => StatusInv'
<1> SUFFICES ASSUME PlugTyped, StatusInv, [PluginsNext]_pluginVars PROVE StatusInv'
  OBVIOUS
<1>0. conn \in [PluginConns -> ConnRecord]
  BY DEF PlugTyped
<1>1. ASSUME NEW c \in PluginConns, NEW at, ConnAt(c, at), plugin' = plugin,
             \/ conn[c].at = "unborn" /\ at = "open"
             \/ conn[c].at = "marked" /\ at = "serving"
             \/ conn[c].at = "serving" /\ at = "closing"
      PROVE  StatusInv'
  <2>1. /\ conn'[c] = [conn[c] EXCEPT !.at = at]
        /\ \A d \in PluginConns : d # c => conn'[d] = conn[d]
    BY <1>1, ConnAtTyped DEF Gone
  <2>2. conn'[c].at = at /\ conn'[c].plugin = conn[c].plugin
    BY <1>0, <2>1 DEF ConnRecord
  <2>3. ASSUME NEW d \in PluginConns PROVE ConnPlugin(d)'
    <3>1. CASE d = c
      <4>1. ConnPlugin(c)
        BY DEF StatusInv
      <4> QED
        BY <1>1, <2>2, <3>1, <4>1 DEF ConnPlugin
    <3>2. CASE d # c
      BY <2>1, <3>2 DEF StatusInv, ConnPlugin
    <3> QED
      BY <3>1, <3>2
  <2> QED
    BY <1>1, <2>1, <2>2, <2>3, StatusRests
<1>2. ASSUME NEW c \in PluginConns, ConnAt(c, "over"), conn[c].at = "open", plugin' = plugin
      PROVE  StatusInv'
  <2>1. /\ conn'[c] = [conn[c] EXCEPT !.at = "over"]
        /\ \A d \in PluginConns : d # c => conn'[d] = conn[d]
    BY <1>2, ConnAtTyped DEF Gone
  <2>2. conn'[c].at = "over" /\ conn[c].plugin = {}
    BY <1>0, <1>2, <2>1 DEF ConnRecord, StatusInv, ConnPlugin
  <2>3. \A d \in PluginConns : ConnPlugin(d)'
    BY <2>1, <2>2, ZenonT(30) DEF StatusInv, ConnPlugin
  <2>4. \A q \in Externals : Connected(q)'
    BY <1>2, <2>1, <2>2 DEF StatusInv, Connected, Compatible
  <2> QED
    BY <1>2, <2>3, <2>4 DEF StatusInv
<1>3. ASSUME NEW c \in PluginConns, NEW p \in PluginIds, authenticate(c, p) PROVE StatusInv'
  <2>1. CASE ConnAt(c, "over")
    BY <1>2, <1>3, <2>1 DEF authenticate
  <2>2. CASE /\ p \in Externals
             /\ conn' = [conn EXCEPT ![c].at = "authed", ![c].plugin = {p}]
    <3>1. /\ conn'[c].at = "authed" /\ conn'[c].plugin = {p}
          /\ \A d \in PluginConns : d # c => conn'[d] = conn[d]
      BY <1>0, <2>2 DEF ConnRecord
    <3>2. conn[c].plugin = {} /\ plugin' = plugin
      BY <1>3 DEF authenticate, StatusInv, ConnPlugin
    <3>3. \A d \in PluginConns : ConnPlugin(d)'
      BY <2>2, <3>1 DEF StatusInv, ConnPlugin
    <3>4. \A q \in Externals : Connected(q)'
      BY <3>1, <3>2 DEF StatusInv, Connected, Compatible
    <3> QED
      BY <3>2, <3>3, <3>4 DEF StatusInv
  <2> QED
    BY <1>3, <2>1, <2>2 DEF authenticate
<1>4. ASSUME NEW c \in PluginConns, subscribeConnection(c) PROVE StatusInv'
  <2>1. CASE ConnAt(c, "serving")
    BY <1>1, <1>4, <2>1 DEF subscribeConnection
  <2>2. CASE conn' = [conn EXCEPT ![c].at = "serving", ![c].slot = Len(subscribers) + 1]
    <3>1. /\ conn'[c].at = "serving" /\ conn'[c].plugin = conn[c].plugin
          /\ \A d \in PluginConns : d # c => conn'[d] = conn[d]
      BY <1>0, <2>2 DEF ConnRecord
    <3>2. conn[c].at = "marked" /\ plugin' = plugin
      BY <1>4 DEF subscribeConnection
    <3>3. \A d \in PluginConns : ConnPlugin(d)'
      BY <3>1, <3>2 DEF StatusInv, ConnPlugin
    <3> QED
      BY <3>1, <3>2, <3>3, StatusRests
  <2> QED
    BY <1>4, <2>1, <2>2 DEF subscribeConnection
<1>5. ASSUME NEW c \in PluginConns, Unsubscribes(c) PROVE StatusInv'
  <2>1. /\ conn'[c].at = "unsubscribed" /\ conn'[c].plugin = conn[c].plugin
        /\ \A d \in PluginConns : d # c => conn'[d] = conn[d]
    <3>1. /\ ConnMoves(c)
          /\ conn'[c] = [conn[c] EXCEPT !.at = "unsubscribed", !.queue = <<>>]
      BY <1>5, UnsubscribeMoves
    <3>2. conn[c] \in ConnRecord
      BY <1>0
    <3>3. conn'[c].at = "unsubscribed" /\ conn'[c].plugin = conn[c].plugin
      BY <3>1, <3>2 DEF ConnRecord
    <3> QED
      BY <3>1, <3>3 DEF ConnMoves
  <2>2. conn[c].at = "closing" /\ plugin' = plugin
    BY <1>5 DEF Unsubscribes
  <2>3. \A d \in PluginConns : ConnPlugin(d)'
    BY <2>1, <2>2 DEF StatusInv, ConnPlugin
  <2> QED
    BY <2>1, <2>2, <2>3, StatusRests
<1>6. ASSUME plugin' = plugin,
             \A d \in PluginConns : conn'[d].at = conn[d].at /\ conn'[d].plugin = conn[d].plugin
      PROVE  StatusInv'
  <2>1. \A d \in PluginConns : ConnPlugin(d)'
    BY <1>6 DEF StatusInv, ConnPlugin
  <2> QED
    BY <1>6, <2>1, StatusRests
<1>7. ASSUME NEW c \in PluginConns, Push(c) PROVE StatusInv'
  BY <1>6, <1>7, PushMoves DEF Push, ConnMoves
<1>8. ASSUME NEW c \in PluginConns, Publish(c) PROVE StatusInv'
  <2>1. plugin' = plugin
    BY <1>8 DEF Publish
  <2>2. CASE conn' = conn
    BY <1>6, <2>1, <2>2
  <2>3. ASSUME NEW d \in PluginConns, NEW e, ConnMoves(d),
               conn'[d] = [conn[d] EXCEPT !.queue = Append(@, e)]
        PROVE  StatusInv'
    <3>1. conn'[d].at = conn[d].at /\ conn'[d].plugin = conn[d].plugin
      BY <1>0, <2>3 DEF ConnRecord
    <3> QED
      BY <1>6, <2>1, <2>3, <3>1 DEF ConnMoves
  <2> QED
    BY <1>8, <2>2, <2>3, PublishMoves
<1>9. ASSUME NEW c \in PluginConns, HangUp(c) PROVE StatusInv'
  BY <1>1, <1>2, <1>9 DEF HangUp
<1>10. ASSUME NEW c \in PluginConns, Connects(c) PROVE StatusInv'
  BY <1>1, <1>10 DEF Connects
<1>11. ASSUME NEW c \in PluginConns, eventsPublish(c) \/ PublishNobody(c) PROVE StatusInv'
  BY <1>6, <1>11 DEF eventsPublish, PublishNobody
<1>12. CASE UNCHANGED pluginVars
  BY <1>6, <1>12 DEF pluginVars
<1> QED
  BY <1>3, <1>4, <1>5, <1>7, <1>8, <1>9, <1>10, <1>11, <1>12, StatusRegistry, StatusRegisters,
     StatusLeaves DEF PluginsNext

-----------------------------------------------------------------------------
(* Plugins: whose the slots of the bus are.                                  *)

\* The connection's subscription stands: it is of a plugin that subscribes, and
\* has not unsubscribed yet.
Subscribed(c) ==
    /\ conn[c].at \in {"serving", "closing"}
    /\ \E p \in conn[c].plugin : p \in Subscribing
SlotInv ==
    \A c \in PluginConns :
       /\ \A i \in 1 .. Len(subscribers) :
             subscribers[i] = c <=> Subscribed(c) /\ i = conn[c].slot
       /\ Subscribed(c) => conn[c].slot \in 1 .. Len(subscribers)
       /\ ~Subscribed(c) /\ conn[c].at \notin {"unsubscribed", "over"} => conn[c].slot = 0

\* A step that leaves the bus, and moves nobody to or from a subscription.
LEMMA SlotRests ==
  ASSUME SlotInv, subscribers' = subscribers,
         \A c \in PluginConns :
            /\ conn'[c].slot = conn[c].slot /\ Subscribed(c)' = Subscribed(c)
            /\ conn'[c].at \notin {"unsubscribed", "over"} =>
                  conn[c].at \notin {"unsubscribed", "over"}
  PROVE  SlotInv'
BY DEF SlotInv

\* A connection that moves on without reaching or leaving a subscription.
LEMMA SlotOnward ==
  ASSUME PlugTyped, SlotInv, subscribers' = subscribers, NEW c \in PluginConns, ConnMoves(c),
         conn'[c].slot = conn[c].slot, conn'[c].plugin = conn[c].plugin,
         \/ conn'[c].at = conn[c].at
         \/ conn[c].at = "serving" /\ conn'[c].at = "closing"
         \/ conn[c].at = "marked" /\ conn'[c].at = "serving" /\ ~Subscribed(c)'
         \/ /\ conn[c].at \notin {"serving", "closing"}
            /\ conn'[c].at \notin {"serving", "closing", "unsubscribed"}
            /\ conn[c].at = "unsubscribed" => conn'[c].at = "over"
            /\ conn[c].at # "over"
  PROVE  SlotInv'
<1>1. ASSUME NEW d \in PluginConns, d # c
      PROVE  /\ conn'[d].slot = conn[d].slot /\ Subscribed(d)' = Subscribed(d)
             /\ conn'[d].at = conn[d].at
  BY <1>1 DEF ConnMoves, Subscribed
<1>2. Subscribed(c)' = Subscribed(c)
  BY DEF Subscribed
<1>3. conn'[c].at \notin {"unsubscribed", "over"} => conn[c].at \notin {"unsubscribed", "over"}
  OBVIOUS
<1>4. ASSUME NEW d \in PluginConns
      PROVE  /\ conn'[d].slot = conn[d].slot /\ Subscribed(d)' = Subscribed(d)
             /\ conn'[d].at \notin {"unsubscribed", "over"} =>
                   conn[d].at \notin {"unsubscribed", "over"}
  <2>1. CASE d = c
    BY <1>2, <1>3, <2>1
  <2>2. CASE d # c
    BY <1>1, <2>2
  <2> QED
    BY <2>1, <2>2
<1> QED
  BY <1>4, SlotRests

\* Subscribing takes a slot nobody has had.
LEMMA SlotTaken ==
  ASSUME PlugTyped, StatusInv, SlotInv, NEW c \in PluginConns, subscribeConnection(c)
  PROVE  SlotInv'
<1>0. /\ conn[c] \in ConnRecord /\ conn \in [PluginConns -> ConnRecord]
      /\ subscribers \in Seq(Slots) /\ Len(subscribers) \in Nat /\ conn[c].at = "marked"
  BY LenProperties DEF PlugTyped, subscribeConnection
<1>1. PICK p \in Externals : conn[c].plugin = {p}
  BY <1>0 DEF StatusInv, ConnPlugin
<1>2. PluginOf(c) = p
  BY <1>1, PluginOfConn
<1>3. CASE p \notin Subscribing
  <2>1. ConnAt(c, "serving") /\ subscribers' = subscribers
    BY <1>2, <1>3 DEF subscribeConnection
  <2>2. /\ ConnMoves(c) /\ conn'[c] = [conn[c] EXCEPT !.at = "serving"]
    BY <2>1, ConnAtTyped DEF ConnMoves
  <2>3. conn'[c].slot = conn[c].slot /\ conn'[c].plugin = {p} /\ conn'[c].at = "serving"
    BY <1>0, <1>1, <2>2 DEF ConnRecord
  <2>4. ~Subscribed(c)'
    BY <1>3, <2>3 DEF Subscribed
  <2> QED
    BY <1>0, <1>1, <2>1, <2>2, <2>3, <2>4, SlotOnward
<1>4. CASE p \in Subscribing
  <2>1. /\ subscribers' = Append(subscribers, c)
        /\ conn' = [conn EXCEPT ![c].at = "serving", ![c].slot = Len(subscribers) + 1]
    BY <1>2, <1>4 DEF subscribeConnection, Subscribe
  <2>2. /\ conn'[c].at = "serving" /\ conn'[c].slot = Len(subscribers) + 1
        /\ conn'[c].plugin = {p}
        /\ \A d \in PluginConns : d # c => conn'[d] = conn[d]
    BY <1>0, <1>1, <2>1 DEF ConnRecord
  <2>3. c \in Slots
    BY DEF Slots
  <2>4. /\ Len(subscribers') = Len(subscribers) + 1
        /\ subscribers'[Len(subscribers) + 1] = c
        /\ \A i \in 1 .. Len(subscribers) : subscribers'[i] = subscribers[i]
    BY <1>0, <2>1, <2>3, AppendProperties
  <2>5. ~Subscribed(c) /\ Subscribed(c)'
    BY <1>0, <1>4, <2>2 DEF Subscribed
  <2>6. \A d \in PluginConns : d # c => Subscribed(d)' = Subscribed(d)
    BY <2>2 DEF Subscribed
  <2>7. ASSUME NEW d \in PluginConns, NEW i \in 1 .. Len(subscribers')
        PROVE  subscribers'[i] = d <=> Subscribed(d)' /\ i = conn'[d].slot
    <3>1. i \in 1 .. Len(subscribers) \/ i = Len(subscribers) + 1
      BY <1>0, <2>4, <2>7
    <3>2. CASE d = c
      <4>1. i \in 1 .. Len(subscribers) => subscribers[i] # c
        BY <2>5 DEF SlotInv
      <4> QED
        BY <1>0, <2>2, <2>4, <2>5, <3>1, <3>2, <4>1
    <3>3. CASE d # c
      <4>1. conn'[d].slot = conn[d].slot /\ Subscribed(d)' = Subscribed(d)
        BY <2>2, <2>6, <3>3
      <4>2. CASE i \in 1 .. Len(subscribers)
        BY <2>4, <4>1, <4>2 DEF SlotInv
      <4>3. CASE i = Len(subscribers) + 1
        <5>1. ~(Subscribed(d) /\ i = conn[d].slot)
          BY <1>0, <4>3 DEF SlotInv
        <5> QED
          BY <2>4, <3>3, <4>1, <4>3, <5>1
      <4> QED
        BY <3>1, <4>2, <4>3
    <3> QED
      BY <3>2, <3>3
  <2>8. ASSUME NEW d \in PluginConns
        PROVE  /\ Subscribed(d)' => conn'[d].slot \in 1 .. Len(subscribers')
               /\ ~Subscribed(d)' /\ conn'[d].at \notin {"unsubscribed", "over"} =>
                     conn'[d].slot = 0
    <3>1. CASE d = c
      BY <1>0, <2>2, <2>4, <2>5, <3>1
    <3>2. CASE d # c
      BY <1>0, <2>2, <2>4, <2>6, <3>2 DEF SlotInv
    <3> QED
      BY <3>1, <3>2
  <2> QED
    BY <2>7, <2>8 DEF SlotInv
<1> QED
  BY <1>3, <1>4

\* Leaving empties the connection's own slot, if it has one, and no other.
LEMMA SlotLeft ==
  ASSUME PlugTyped, SlotInv, NEW c \in PluginConns, Unsubscribes(c)
  PROVE  SlotInv'
<1>0. /\ conn[c] \in ConnRecord /\ conn[c].at = "closing" /\ Len(subscribers) \in Nat
      /\ NoConn \notin PluginConns
  BY LenProperties, PluginsConfig DEF PlugTyped, Unsubscribes, NoConn
<1>1. /\ ConnMoves(c)
      /\ conn'[c] = [conn[c] EXCEPT !.at = "unsubscribed", !.queue = <<>>]
  BY UnsubscribeMoves, Zenon
<1>2. conn'[c].at = "unsubscribed" /\ conn'[c].slot = conn[c].slot
  BY <1>0, <1>1 DEF ConnRecord
<1>3. /\ Len(subscribers') = Len(subscribers)
      /\ \A i \in 1 .. Len(subscribers) :
            subscribers'[i] = IF i = conn[c].slot THEN NoConn ELSE subscribers[i]
  BY VacatedSlots DEF Unsubscribes
<1>4. /\ ~Subscribed(c)'
      /\ \A d \in PluginConns : d # c => Subscribed(d)' = Subscribed(d) /\ conn'[d] = conn[d]
  BY <1>1, <1>2 DEF ConnMoves, Subscribed
<1>5. ASSUME NEW d \in PluginConns, NEW i \in 1 .. Len(subscribers)
      PROVE  subscribers'[i] = d <=> Subscribed(d)' /\ i = conn'[d].slot
  <2>1. CASE d = c
    <3>1. subscribers'[i] # c
      <4>1. CASE i = conn[c].slot
        BY <1>0, <1>3, <4>1
      <4>2. CASE i # conn[c].slot
        BY <1>3, <4>2 DEF SlotInv
      <4> QED
        BY <4>1, <4>2
    <3> QED
      BY <1>4, <2>1, <3>1
  <2>2. CASE d # c
    <3>1. Subscribed(d)' = Subscribed(d) /\ conn'[d].slot = conn[d].slot
      BY <1>4, <2>2
    <3>2. CASE i = conn[c].slot
      <4>1. Subscribed(c)
        BY <1>0, <3>2 DEF SlotInv
      <4>2. subscribers[i] = c
        BY <3>2, <4>1 DEF SlotInv
      <4>3. ~(Subscribed(d) /\ i = conn[d].slot)
        BY <2>2, <4>2 DEF SlotInv
      <4> QED
        BY <1>0, <1>3, <3>1, <3>2, <4>3
    <3>3. CASE i # conn[c].slot
      BY <1>3, <3>1, <3>3 DEF SlotInv
    <3> QED
      BY <3>2, <3>3
  <2> QED
    BY <2>1, <2>2
<1>6. ASSUME NEW d \in PluginConns
      PROVE  /\ Subscribed(d)' => conn'[d].slot \in 1 .. Len(subscribers)
             /\ ~Subscribed(d)' /\ conn'[d].at \notin {"unsubscribed", "over"} =>
                   conn'[d].slot = 0
  <2>1. CASE d = c
    BY <1>2, <1>4, <2>1
  <2>2. CASE d # c
    BY <1>4, <2>2 DEF SlotInv
  <2> QED
    BY <2>1, <2>2
<1> QED
  BY <1>3, <1>5, <1>6 DEF SlotInv

\* Every step keeps the slots.
LEMMA SlotNext == PlugTyped /\ StatusInv /\ SlotInv /\ [PluginsNext]_pluginVars => SlotInv'
<1> SUFFICES ASSUME PlugTyped, StatusInv, SlotInv, [PluginsNext]_pluginVars PROVE SlotInv'
  OBVIOUS
<1>0. \A d \in PluginConns : conn[d] \in ConnRecord
  BY DEF PlugTyped
<1>1. ASSUME NEW c \in PluginConns, NEW at \in {"open", "over", "marked", "closing"},
             ConnAt(c, at), subscribers' = subscribers, conn[c].at # "over",
             conn[c].at \in {"serving", "closing"} => (at = "closing" /\ conn[c].at = "serving"),
             at = "closing" => conn[c].at = "serving",
             conn[c].at = "unsubscribed" => at = "over"
      PROVE  SlotInv'
  <2>1. /\ ConnMoves(c) /\ conn'[c] = [conn[c] EXCEPT !.at = at]
    BY <1>1, ConnAtTyped DEF ConnMoves, Gone
  <2>2. /\ conn'[c].at = at /\ conn'[c].plugin = conn[c].plugin /\ conn'[c].slot = conn[c].slot
    BY <1>0, <2>1 DEF ConnRecord
  <2> QED
    BY <1>1, <2>1, <2>2, SlotOnward
<1>2. ASSUME NEW c \in PluginConns, NEW p \in PluginIds, authenticate(c, p) PROVE SlotInv'
  <2>1. conn[c].at = "open" /\ subscribers' = subscribers
    BY <1>2 DEF authenticate
  <2>2. CASE ConnAt(c, "over")
    BY <1>1, <2>1, <2>2
  <2>3. CASE conn' = [conn EXCEPT ![c].at = "authed", ![c].plugin = {p}]
    <3>1. /\ conn'[c].at = "authed" /\ conn'[c].slot = conn[c].slot
          /\ \A d \in PluginConns : d # c => conn'[d] = conn[d]
      BY <1>0, <2>3 DEF PlugTyped, ConnRecord
    <3>2. \A d \in PluginConns :
             /\ conn'[d].slot = conn[d].slot /\ Subscribed(d)' = Subscribed(d)
             /\ conn'[d].at \notin {"unsubscribed", "over"} =>
                   conn[d].at \notin {"unsubscribed", "over"}
      <4> TAKE d \in PluginConns
      <4>1. CASE d = c
        BY <2>1, <3>1, <4>1 DEF Subscribed
      <4>2. CASE d # c
        BY <3>1, <4>2 DEF Subscribed
      <4> QED
        BY <4>1, <4>2
    <3> QED
      BY <2>1, <3>2, SlotRests
  <2> QED
    BY <1>2, <2>2, <2>3 DEF authenticate
<1>3. ASSUME NEW c \in PluginConns,
             Connects(c) \/ Registers(c) \/ HangUp(c) \/ Leaves(c)
      PROVE  SlotInv'
  BY <1>1, <1>3 DEF Connects, Registers, HangUp, Leaves
<1>4. ASSUME subscribers' = subscribers,
             \A d \in PluginConns : /\ conn'[d].at = conn[d].at /\ conn'[d].slot = conn[d].slot
                                    /\ conn'[d].plugin = conn[d].plugin
      PROVE  SlotInv'
  <2>1. \A d \in PluginConns : Subscribed(d)' = Subscribed(d)
    BY <1>4 DEF Subscribed
  <2> QED
    BY <1>4, <2>1, SlotRests
<1>5. ASSUME NEW c \in PluginConns, Push(c) PROVE SlotInv'
  BY <1>4, <1>5, PushMoves DEF Push, ConnMoves
<1>6. ASSUME NEW c \in PluginConns, Publish(c) PROVE SlotInv'
  <2>1. subscribers' = subscribers
    BY <1>6 DEF Publish
  <2>2. CASE conn' = conn
    BY <1>4, <2>1, <2>2
  <2>3. ASSUME NEW d \in PluginConns, NEW e, ConnMoves(d),
               conn'[d] = [conn[d] EXCEPT !.queue = Append(@, e)]
        PROVE  SlotInv'
    <3>1. /\ conn'[d].at = conn[d].at /\ conn'[d].plugin = conn[d].plugin
          /\ conn'[d].slot = conn[d].slot
      BY <1>0, <2>3 DEF ConnRecord
    <3> QED
      BY <1>4, <2>1, <2>3, <3>1 DEF ConnMoves
  <2> QED
    BY <1>6, <2>2, <2>3, PublishMoves
<1>7. ASSUME NEW c \in PluginConns, eventsPublish(c) \/ PublishNobody(c) PROVE SlotInv'
  BY <1>4, <1>7 DEF eventsPublish, PublishNobody
<1>8. CASE UNCHANGED pluginVars
  BY <1>4, <1>8 DEF pluginVars
<1>9. ASSUME UNCHANGED <<conn, subscribers>> PROVE SlotInv'
  BY <1>4, <1>9
<1> QED
  BY <1>2, <1>3, <1>5, <1>6, <1>7, <1>8, <1>9, SlotTaken, SlotLeft, RegistrySteps DEF PluginsNext

\* What the slots come to: the bus calls exactly the subscribers that serve.
LEMMA SlotsFollow ==
  ASSUME PlugTyped, StatusInv, SlotInv, NEW c \in PluginConns
  PROVE  SlotsOf(c) = IF conn[c].at \in {"serving", "closing"} /\ PluginOf(c) \in Subscribing
                      THEN {conn[c].slot} ELSE {}
<1>1. conn[c].at \in {"serving", "closing"} => (Subscribed(c) <=> PluginOf(c) \in Subscribing)
  <2> SUFFICES ASSUME conn[c].at \in {"serving", "closing"}
               PROVE  Subscribed(c) <=> PluginOf(c) \in Subscribing
    OBVIOUS
  <2>1. PICK p \in Externals : conn[c].plugin = {p}
    BY DEF StatusInv, ConnPlugin
  <2>2. PluginOf(c) = p
    BY <2>1, PluginOfConn
  <2> QED
    BY <2>1, <2>2 DEF Subscribed
<1>2. Subscribed(c) <=> conn[c].at \in {"serving", "closing"} /\ PluginOf(c) \in Subscribing
  BY <1>1 DEF Subscribed
<1>3. SlotsOf(c) = {i \in 1 .. Len(subscribers) : Subscribed(c) /\ i = conn[c].slot}
  BY DEF SlotInv, SlotsOf
<1>4. Subscribed(c) => conn[c].slot \in 1 .. Len(subscribers)
  BY DEF SlotInv
<1> QED
  BY <1>2, <1>3, <1>4

-----------------------------------------------------------------------------
(* Plugins: the order in which a connection is sent a publisher's events.    *)

\* One event comes before another if one connection published both; and this
\* for the events of two sequences.
Earlier(d, e) == publisher[d] = publisher[e] => d < e
Within(s) == \A i \in 1 .. Len(s) : s[i] \in 1 .. Len(publisher)
Rising(s) == \A i, j \in 1 .. Len(s) : i < j => Earlier(s[i], s[j])
\* The events of publisher p in a sequence are before event e.
Under(s, p, e) == \A i \in 1 .. Len(s) : publisher[s[i]] = p => s[i] < e

\* A connection was sent and is queued events that were published, in order.
FlowSound(c) ==
    /\ Within(conn[c].sent) /\ Within(conn[c].queue)
    /\ Rising(conn[c].sent) /\ Rising(conn[c].queue)
    /\ \A i \in 1 .. Len(conn[c].sent) : \A j \in 1 .. Len(conn[c].queue) :
          Earlier(conn[c].sent[i], conn[c].queue[j])
\* Who still calls a handler publishes an event of its own, has every
\* connection on its list once, and none there has had the event or a later one.
TodoSound(p) ==
    LET todo == publishing[p].todo  e == publishing[p].event IN
    /\ todo # <<>> => e \in 1 .. Len(publisher) /\ publisher[e] = p
    /\ \A i, j \in 1 .. Len(todo) : todo[i] \in PluginConns /\ todo[i] = todo[j] => i = j
    /\ \A i \in 1 .. Len(todo) : todo[i] \in PluginConns =>
          Under(conn[todo[i]].sent, p, e) /\ Under(conn[todo[i]].queue, p, e)
FlowInv == \A c \in PluginConns : FlowSound(c) /\ TodoSound(c)

\* The parts of the flow that the types give.
LEMMA FlowTypes ==
  ASSUME PlugTyped, NEW c \in PluginConns
  PROVE  /\ conn[c].sent \in Seq(Nat) /\ conn[c].queue \in Seq(Nat)
         /\ Len(conn[c].sent) \in Nat /\ Len(conn[c].queue) \in Nat
         /\ publishing[c].todo \in Seq(Slots) /\ publishing[c].event \in Nat
         /\ Len(publishing[c].todo) \in Nat /\ Len(publisher) \in Nat
BY LenProperties DEF PlugTyped, ConnRecord

\* Nothing published: nothing is under way.
LEMMA FlowInit == PluginsInit => FlowInv
<1> SUFFICES ASSUME PluginsInit, NEW c \in PluginConns PROVE FlowSound(c) /\ TodoSound(c)
  BY DEF FlowInv
<1>1. /\ conn[c].sent = <<>> /\ conn[c].queue = <<>> /\ publishing[c].todo = <<>>
  BY DEF PluginsInit, NotPublishing
<1>2. Len(<<>>) = 0
  BY EmptySeq
<1> QED
  BY <1>1, <1>2 DEF FlowSound, TodoSound, Within, Rising, Under

\* A step that leaves the events and what became of them.
LEMMA FlowRests ==
  ASSUME FlowInv, publisher' = publisher, publishing' = publishing,
         \A c \in PluginConns : conn'[c].sent = conn[c].sent /\ conn'[c].queue = conn[c].queue
  PROVE  FlowInv'
<1>1. ASSUME NEW c \in PluginConns PROVE FlowSound(c)' /\ TodoSound(c)'
  <2>1. FlowSound(c) /\ TodoSound(c)
    BY DEF FlowInv
  <2>2. FlowSound(c)'
    BY <2>1 DEF FlowSound, Within, Rising, Earlier
  <2>3. TodoSound(c)'
    <3> DEFINE todo == publishing[c].todo
               e == publishing[c].event
    <3>1. ASSUME NEW i \in 1 .. Len(todo), todo[i] \in PluginConns
          PROVE  Under(conn[todo[i]].sent, c, e)' /\ Under(conn[todo[i]].queue, c, e)'
      <4>1. Under(conn[todo[i]].sent, c, e) /\ Under(conn[todo[i]].queue, c, e)
        BY <2>1, <3>1 DEF TodoSound
      <4>2. /\ conn'[todo[i]].sent = conn[todo[i]].sent
            /\ conn'[todo[i]].queue = conn[todo[i]].queue
        BY <3>1
      <4> QED
        BY <4>1, <4>2 DEF Under
    <3> QED
      BY <2>1, <3>1 DEF TodoSound
  <2> QED
    BY <2>2, <2>3
<1> QED
  BY <1>1 DEF FlowInv

\* A step of one connection's record that neither publishes nor calls a handler.
LEMMA FlowOfOne ==
  ASSUME FlowInv, publisher' = publisher, publishing' = publishing,
         NEW c \in PluginConns, ConnMoves(c), FlowSound(c)',
         \A p \in PluginConns, e \in Nat :
            /\ Under(conn[c].sent, p, e) /\ Under(conn[c].queue, p, e)
               => Under(conn'[c].sent, p, e) /\ Under(conn'[c].queue, p, e),
         PlugTyped
  PROVE  FlowInv'
<1>1. ASSUME NEW d \in PluginConns, d # c PROVE FlowSound(d)'
  BY <1>1 DEF FlowInv, ConnMoves, FlowSound, Within, Rising, Earlier
<1>2. ASSUME NEW p \in PluginConns PROVE TodoSound(p)'
  <2> DEFINE todo == publishing[p].todo
             e == publishing[p].event
  <2>1. TodoSound(p) /\ e \in Nat
    BY FlowTypes DEF FlowInv
  <2>2. ASSUME NEW i \in 1 .. Len(todo), todo[i] \in PluginConns
        PROVE  Under(conn'[todo[i]].sent, p, e) /\ Under(conn'[todo[i]].queue, p, e)
    <3>1. Under(conn[todo[i]].sent, p, e) /\ Under(conn[todo[i]].queue, p, e)
      BY <2>1, <2>2 DEF TodoSound
    <3>2. CASE todo[i] = c
      BY <2>1, <3>1, <3>2
    <3>3. CASE todo[i] # c
      <4>1. conn'[todo[i]] = conn[todo[i]]
        BY <2>2, <3>3 DEF ConnMoves
      <4> QED
        BY <3>1, <4>1
    <3> QED
      BY <3>2, <3>3
  <2>3. ASSUME NEW i \in 1 .. Len(todo), todo[i] \in PluginConns
        PROVE  Under(conn[todo[i]].sent, p, e)' /\ Under(conn[todo[i]].queue, p, e)'
    BY <2>2, <2>3 DEF Under
  <2> QED
    BY <2>1, <2>3 DEF TodoSound
<1> QED
  BY <1>1, <1>2 DEF FlowInv

\* A later event at the end keeps a sequence rising.
LEMMA RisesAtEnd ==
  ASSUME NEW s \in Seq(Nat), NEW e \in Nat
  PROVE  /\ Rising(s) /\ (\A i \in 1 .. Len(s) : Earlier(s[i], e)) => Rising(Append(s, e))
         /\ Within(s) /\ e \in 1 .. Len(publisher) => Within(Append(s, e))
         /\ \A p, x : Under(s, p, x) /\ (publisher[e] = p => e < x) => Under(Append(s, e), p, x)
<1>1. /\ Len(Append(s, e)) = Len(s) + 1 /\ Len(s) \in Nat /\ Append(s, e)[Len(s) + 1] = e
      /\ \A i \in 1 .. Len(s) : Append(s, e)[i] = s[i]
  BY AppendProperties, LenProperties
<1>2. \A i \in 1 .. Len(s) + 1 : i \in 1 .. Len(s) \/ i = Len(s) + 1
  BY <1>1
<1> QED
  BY <1>1, <1>2 DEF Rising, Within, Under

\* What follows the head of a sequence keeps what the sequence had.
LEMMA RisesBehind ==
  ASSUME NEW s \in Seq(Nat), s # <<>>
  PROVE  /\ Len(Tail(s)) = Len(s) - 1 /\ Len(s) \in Nat \ {0} /\ Head(s) = s[1]
         /\ \A i \in 1 .. Len(Tail(s)) : Tail(s)[i] = s[i + 1] /\ i + 1 \in 1 .. Len(s)
         /\ Rising(s) => Rising(Tail(s))
         /\ Within(s) => Within(Tail(s))
         /\ \A p, x : Under(s, p, x) => Under(Tail(s), p, x)
<1>1. /\ Len(Tail(s)) = Len(s) - 1 /\ Len(s) \in Nat \ {0} /\ Head(s) = s[1]
      /\ \A i \in 1 .. Len(Tail(s)) : Tail(s)[i] = s[i + 1]
  BY HeadTailProperties, EmptySeq, LenProperties
<1>2. \A i \in 1 .. Len(Tail(s)) : i + 1 \in 1 .. Len(s)
  BY <1>1
<1>3. Rising(s) => Rising(Tail(s))
  BY <1>1, <1>2 DEF Rising
<1>4. Within(s) => Within(Tail(s))
  BY <1>1, <1>2 DEF Within
<1>5. \A p, x : Under(s, p, x) => Under(Tail(s), p, x)
  BY <1>1, <1>2 DEF Under
<1> QED
  BY <1>1, <1>2, <1>3, <1>4, <1>5

\* Taking the head of the queue, delivered or lost, keeps the order.
LEMMA FlowPushed ==
  ASSUME PlugTyped, FlowInv, NEW c \in PluginConns, Push(c)
  PROVE  FlowInv'
<1> DEFINE q == conn[c].queue
           s == conn[c].sent
<1>1. /\ q \in Seq(Nat) /\ s \in Seq(Nat) /\ q # <<>> /\ ConnMoves(c) /\ FlowSound(c)
      /\ conn'[c].queue = Tail(q) /\ conn'[c].sent \in {s, Append(s, Head(q))}
      /\ publisher' = publisher /\ publishing' = publishing
  BY PushMoves, FlowTypes DEF FlowInv, Push
<1>2. /\ Head(q) = q[1] /\ 1 \in 1 .. Len(q) /\ q[1] \in Nat
      /\ Len(Tail(q)) = Len(q) - 1 /\ Len(q) \in Nat \ {0}
      /\ \A i \in 1 .. Len(Tail(q)) : Tail(q)[i] = q[i + 1] /\ i + 1 \in 1 .. Len(q)
      /\ Rising(Tail(q)) /\ Within(Tail(q))
      /\ \A p, x : Under(q, p, x) => Under(Tail(q), p, x)
  <2>1. 1 \in 1 .. Len(q)
    BY <1>1, RisesBehind
  <2>2. q[1] \in Nat
    BY <1>1, <2>1, ElementOfSeq
  <2> QED
    BY <1>1, <2>1, <2>2, RisesBehind DEF FlowSound
<1>3. ASSUME NEW t \in {s, Append(s, Head(q))}
      PROVE  /\ Rising(t) /\ Within(t)
             /\ \A i \in 1 .. Len(t) : \A j \in 1 .. Len(Tail(q)) : Earlier(t[i], Tail(q)[j])
             /\ \A p, x : Under(s, p, x) /\ Under(q, p, x) => Under(t, p, x)
  <2>1. ASSUME NEW j \in 1 .. Len(Tail(q)) PROVE Earlier(q[1], Tail(q)[j])
    <3>1. j + 1 \in 1 .. Len(q) /\ 1 < j + 1 /\ Tail(q)[j] = q[j + 1]
      BY <1>2
    <3>2. Rising(q)
      BY <1>1 DEF FlowSound
    <3> QED
      BY <1>2, <3>1, <3>2 DEF Rising
  <2>2. \A i \in 1 .. Len(s) : \A j \in 1 .. Len(Tail(q)) : Earlier(s[i], Tail(q)[j])
    BY <1>1, <1>2 DEF FlowSound
  <2>3. CASE t = s
    BY <1>1, <2>2, <2>3 DEF FlowSound
  <2>4. CASE t = Append(s, Head(q))
    <3>1. /\ Len(t) = Len(s) + 1 /\ Len(s) \in Nat /\ t[Len(s) + 1] = q[1]
          /\ \A i \in 1 .. Len(s) : t[i] = s[i]
      BY <1>1, <1>2, <2>4, AppendProperties, LenProperties
    <3>2. \A i \in 1 .. Len(t) : i \in 1 .. Len(s) \/ i = Len(s) + 1
      BY <3>1
    <3>3. Rising(t) /\ Within(t)
      <4>1. \A i \in 1 .. Len(s) : Earlier(s[i], q[1])
        BY <1>1, <1>2 DEF FlowSound
      <4>2. q[1] \in 1 .. Len(publisher)
        BY <1>1, <1>2 DEF FlowSound, Within
      <4> QED
        BY <1>1, <1>2, <2>4, <4>1, <4>2, RisesAtEnd DEF FlowSound
    <3>4. \A p, x : Under(s, p, x) /\ Under(q, p, x) => Under(t, p, x)
      <4>1. \A p, x : Under(q, p, x) => (publisher[q[1]] = p => q[1] < x)
        BY <1>2 DEF Under
      <4> QED
        BY <1>1, <1>2, <2>4, <4>1, RisesAtEnd
    <3>5. \A i \in 1 .. Len(t) : \A j \in 1 .. Len(Tail(q)) : Earlier(t[i], Tail(q)[j])
      BY <2>1, <2>2, <3>1, <3>2
    <3> QED
      BY <3>3, <3>4, <3>5
  <2> QED
    BY <2>3, <2>4
<1>4. PICK t \in {s, Append(s, Head(q))} : conn'[c].sent = t
  BY <1>1
<1>5. FlowSound(c)'
  BY <1>1, <1>2, <1>3, <1>4 DEF FlowSound, Rising, Within, Earlier
<1>6. \A p \in PluginConns, e \in Nat :
         Under(s, p, e) /\ Under(q, p, e) => Under(conn'[c].sent, p, e) /\ Under(conn'[c].queue, p, e)
  BY <1>1, <1>2, <1>3, <1>4
<1> QED
  BY <1>1, <1>5, <1>6, FlowOfOne

\* A connection that goes drops its queue.
LEMMA FlowDropped ==
  ASSUME PlugTyped, FlowInv, NEW c \in PluginConns, Unsubscribes(c)
  PROVE  FlowInv'
<1>1. /\ ConnMoves(c)
      /\ conn'[c] = [conn[c] EXCEPT !.at = "unsubscribed", !.queue = <<>>]
  BY UnsubscribeMoves, Zenon
<1>2. conn[c] \in ConnRecord /\ FlowSound(c)
  BY DEF PlugTyped, FlowInv
<1>3. /\ conn'[c].sent = conn[c].sent /\ conn'[c].queue = <<>>
      /\ publisher' = publisher /\ publishing' = publishing /\ Len(<<>>) = 0
  <2>1. conn'[c].sent = conn[c].sent /\ conn'[c].queue = <<>>
    BY <1>1, <1>2, Zenon DEF ConnRecord
  <2>2. publisher' = publisher /\ publishing' = publishing
    BY DEF Unsubscribes
  <2> QED
    BY <2>1, <2>2, EmptySeq
<1>4. FlowSound(c)'
  <2>1. (Within(conn[c].sent) /\ Rising(conn[c].sent))'
    BY <1>2, <1>3 DEF FlowSound, Rising, Within, Earlier
  <2>2. Len(conn'[c].queue) = 0
    BY <1>3
  <2> QED
    BY <2>1, <2>2 DEF FlowSound, Rising, Within
<1>5. \A p \in PluginConns, e \in Nat :
         Under(conn[c].sent, p, e) => Under(conn'[c].sent, p, e) /\ Under(conn'[c].queue, p, e)
  BY <1>3 DEF Under
<1> QED
  BY <1>1, <1>3, <1>4, <1>5, FlowOfOne

\* A connection's record is sound if its two sequences are.
LEMMA FlowAgain ==
  ASSUME NEW c \in PluginConns, NEW s, NEW q, conn'[c].sent = s, conn'[c].queue = q,
         publisher' = publisher, Within(s), Within(q), Rising(s), Rising(q),
         \A i \in 1 .. Len(s) : \A j \in 1 .. Len(q) : Earlier(s[i], q[j])
  PROVE  FlowSound(c)'
<1>1. Within(conn[c].sent)' /\ Within(conn[c].queue)'
  BY DEF Within
<1>2. Rising(conn[c].sent)' /\ Rising(conn[c].queue)'
  BY DEF Rising, Earlier
<1> QED
  BY <1>1, <1>2 DEF FlowSound, Earlier

\* A publisher's list is sound if nothing on it has had the event.
LEMMA TodoAgain ==
  ASSUME NEW p \in PluginConns, NEW todo, NEW e, publisher' = publisher,
         publishing'[p].todo = todo, publishing'[p].event = e,
         todo # <<>> => e \in 1 .. Len(publisher) /\ publisher[e] = p,
         \A i, j \in 1 .. Len(todo) : todo[i] \in PluginConns /\ todo[i] = todo[j] => i = j,
         \A i \in 1 .. Len(todo), x \in PluginConns : x = todo[i] =>
            Under(conn'[x].sent, p, e) /\ Under(conn'[x].queue, p, e)
  PROVE  TodoSound(p)'
<1>1. ASSUME NEW i \in 1 .. Len(todo), todo[i] \in PluginConns
      PROVE  Under(conn'[todo[i]].sent, p, e) /\ Under(conn'[todo[i]].queue, p, e)
  BY <1>1
<1>2. ASSUME NEW i \in 1 .. Len(todo), todo[i] \in PluginConns
      PROVE  Under(conn[todo[i]].sent, p, e)' /\ Under(conn[todo[i]].queue, p, e)'
  BY <1>1, <1>2 DEF Under
<1> QED
  BY <1>2 DEF TodoSound, Under

\* A handler called: its connection takes the event, which is later than all it
\* has of that publisher, or does not; and the caller is done with it.
LEMMA FlowCalled ==
  ASSUME PlugTyped, FlowInv, NEW c \in PluginConns, Publish(c)
  PROVE  FlowInv'
<1> DEFINE todo == publishing[c].todo
           e == publishing[c].event
           d == todo[1]
<1>1. /\ todo \in Seq(Slots) /\ todo # <<>> /\ e \in Nat /\ publisher' = publisher
      /\ \A x \in PluginConns : x # c => publishing'[x] = publishing[x]
      /\ \/ publishing'[c] = NotPublishing
         \/ publishing'[c] = [event |-> e, todo |-> Tail(todo)]
      /\ \/ conn' = conn
         \/ /\ d \in PluginConns /\ ConnMoves(d)
            /\ conn'[d] = [conn[d] EXCEPT !.queue = Append(@, e)]
  BY PublishMoves, FlowTypes DEF Publish
<1>2. /\ Len(todo) \in Nat \ {0} /\ Len(Tail(todo)) = Len(todo) - 1 /\ 1 \in 1 .. Len(todo)
      /\ \A i \in 1 .. Len(Tail(todo)) : /\ Tail(todo)[i] = todo[i + 1]
                                         /\ i + 1 \in 1 .. Len(todo) /\ i + 1 # 1
  <2>1. /\ Len(todo) \in Nat /\ Len(todo) # 0 /\ Len(Tail(todo)) = Len(todo) - 1
        /\ \A i \in 1 .. Len(Tail(todo)) : Tail(todo)[i] = todo[i + 1]
    BY <1>1, HeadTailProperties, EmptySeq, LenProperties
  <2> QED
    BY <2>1
<1>3. /\ e \in 1 .. Len(publisher) /\ publisher[e] = c
      /\ \A i, j \in 1 .. Len(todo) : todo[i] \in PluginConns /\ todo[i] = todo[j] => i = j
      /\ \A i \in 1 .. Len(todo) : todo[i] \in PluginConns =>
            Under(conn[todo[i]].sent, c, e) /\ Under(conn[todo[i]].queue, c, e)
  BY <1>1 DEF FlowInv, TodoSound
\* What becomes of a connection's events.
<1>4. ASSUME NEW x \in PluginConns
      PROVE  /\ conn'[x].sent = conn[x].sent
             /\ \/ conn'[x].queue = conn[x].queue
                \/ x = d /\ conn'[x].queue = Append(conn[x].queue, e)
  <2>1. conn[x] \in ConnRecord
    BY DEF PlugTyped
  <2>2. CASE conn' = conn
    BY <2>2
  <2>3. CASE ConnMoves(d) /\ conn'[d] = [conn[d] EXCEPT !.queue = Append(@, e)]
    <3>1. CASE x = d
      <4>1. conn'[x] = [conn[x] EXCEPT !.queue = Append(@, e)]
        BY <2>3, <3>1
      <4> QED
        BY <2>1, <3>1, <4>1 DEF ConnRecord
    <3>2. CASE x # d
      BY <2>3, <3>2 DEF ConnMoves
    <3> QED
      BY <3>1, <3>2
  <2> QED
    BY <1>1, <2>2, <2>3
<1>5. ASSUME NEW x \in PluginConns PROVE FlowSound(x)'
  <2>1. FlowSound(x) /\ conn[x].queue \in Seq(Nat) /\ conn[x].sent \in Seq(Nat)
    BY FlowTypes DEF FlowInv
  <2>2. CASE conn'[x].queue = conn[x].queue
    <3>1. conn'[x].sent = conn[x].sent
      BY <1>4
    <3> QED
      BY <1>1, <2>1, <2>2, <3>1 DEF FlowSound, Rising, Within, Earlier
  <2>3. CASE x = d /\ conn'[x].queue = Append(conn[x].queue, e)
    <3>1. Under(conn[x].sent, c, e) /\ Under(conn[x].queue, c, e)
      BY <1>2, <1>3, <2>3
    <3>2. /\ \A i \in 1 .. Len(conn[x].sent) : Earlier(conn[x].sent[i], e)
          /\ \A i \in 1 .. Len(conn[x].queue) : Earlier(conn[x].queue[i], e)
      BY <1>3, <3>1 DEF Under, Earlier
    <3>3. Rising(Append(conn[x].queue, e)) /\ Within(Append(conn[x].queue, e))
      BY <1>1, <1>3, <2>1, <3>2, RisesAtEnd DEF FlowSound
    <3>4. /\ Len(Append(conn[x].queue, e)) = Len(conn[x].queue) + 1 /\ Len(conn[x].queue) \in Nat
          /\ Append(conn[x].queue, e)[Len(conn[x].queue) + 1] = e
          /\ \A i \in 1 .. Len(conn[x].queue) : Append(conn[x].queue, e)[i] = conn[x].queue[i]
      <4>1. PICK q : q = conn[x].queue /\ q \in Seq(Nat) /\ e \in Nat
        BY <1>1, <2>1
      <4>2. /\ Len(Append(q, e)) = Len(q) + 1 /\ Len(q) \in Nat /\ Append(q, e)[Len(q) + 1] = e
            /\ \A i \in 1 .. Len(q) : Append(q, e)[i] = q[i]
        BY <4>1, AppendProperties, LenProperties
      <4> QED
        BY <4>1, <4>2
    <3>5. \A j \in 1 .. Len(Append(conn[x].queue, e)) :
             j \in 1 .. Len(conn[x].queue) \/ j = Len(conn[x].queue) + 1
      BY <3>4
    <3>6. \A i \in 1 .. Len(conn[x].sent) : \A j \in 1 .. Len(Append(conn[x].queue, e)) :
             Earlier(conn[x].sent[i], Append(conn[x].queue, e)[j])
      BY <2>1, <3>2, <3>4, <3>5 DEF FlowSound
    <3>7. conn'[x].sent = conn[x].sent
      BY <1>4
    <3>8. Within(conn[x].sent) /\ Rising(conn[x].sent)
      BY <2>1 DEF FlowSound
    <3> QED
      <4>1. publisher' = publisher
        BY DEF Publish
      <4>2. Within(Append(conn[x].queue, e)) /\ Rising(Append(conn[x].queue, e))
        BY <3>3
      <4> QED
        BY <2>3, <3>6, <3>7, <3>8, <4>1, <4>2, FlowAgain, Zenon
  <2> QED
    BY <1>4, <2>2, <2>3
\* A connection still has nothing of a publisher's as late as an event it is to get.
<1>6. ASSUME NEW p \in PluginConns, NEW x \in PluginConns, NEW y \in Nat,
             Under(conn[x].sent, p, y), Under(conn[x].queue, p, y), p # c \/ x # d
      PROVE  Under(conn'[x].sent, p, y) /\ Under(conn'[x].queue, p, y)
  <2>1. conn'[x].sent = conn[x].sent /\ conn[x].queue \in Seq(Nat)
    BY <1>4, FlowTypes
  <2>2. CASE conn'[x].queue = conn[x].queue
    BY <1>6, <2>1, <2>2
  <2>3. CASE x = d /\ conn'[x].queue = Append(conn[x].queue, e)
    <3>1. publisher[e] # p
      BY <1>3, <1>6, <2>3
    <3>2. Under(Append(conn[x].queue, e), p, y)
      BY <1>1, <1>6, <2>1, <3>1, RisesAtEnd
    <3> QED
      <4>1. Under(conn[x].sent, p, y) /\ conn'[x].queue = Append(conn[x].queue, e)
        BY <1>6, <2>3
      <4> QED
        BY <2>1, <3>2, <4>1, Zenon
  <2> QED
    BY <1>4, <2>2, <2>3
<1>7. ASSUME NEW p \in PluginConns, p # c PROVE TodoSound(p)'
  <2> DEFINE todoP == publishing[p].todo
             eP == publishing[p].event
  <2>1. TodoSound(p) /\ eP \in Nat /\ publishing'[p] = publishing[p]
    BY <1>1, <1>7, FlowTypes DEF FlowInv
  <2>2. ASSUME NEW i \in 1 .. Len(todoP), NEW x \in PluginConns, x = todoP[i]
        PROVE  Under(conn'[x].sent, p, eP) /\ Under(conn'[x].queue, p, eP)
    <3>1. Under(conn[x].sent, p, eP) /\ Under(conn[x].queue, p, eP)
      BY <2>1, <2>2 DEF TodoSound
    <3> QED
      BY <1>6, <1>7, <2>1, <3>1
  <2>3. PICK t, y : t = todoP /\ y = eP
    OBVIOUS
  <2> QED
    BY <1>1, <2>1, <2>2, <2>3, TodoAgain DEF TodoSound
<1>8. TodoSound(c)'
  <2>1. CASE publishing'[c] = NotPublishing
    <3>1. publishing'[c].todo = <<>> /\ Len(<<>>) = 0
      BY <2>1, EmptySeq DEF NotPublishing
    <3> QED
      BY <3>1 DEF TodoSound
  <2>2. CASE publishing'[c] = [event |-> e, todo |-> Tail(todo)]
    <3>1. publishing'[c].event = e /\ publishing'[c].todo = Tail(todo)
      BY <2>2
    <3>2. ASSUME NEW i \in 1 .. Len(Tail(todo)), NEW j \in 1 .. Len(Tail(todo)),
                 Tail(todo)[i] \in PluginConns, Tail(todo)[i] = Tail(todo)[j]
          PROVE  i = j
      <4>1. i + 1 = j + 1
        BY <1>2, <1>3, <3>2
      <4> QED
        BY <1>2, <4>1
    <3>3. ASSUME NEW i \in 1 .. Len(Tail(todo)), NEW x \in PluginConns, x = Tail(todo)[i]
          PROVE  Under(conn'[x].sent, c, e) /\ Under(conn'[x].queue, c, e)
      <4>1. x # d
        BY <1>2, <1>3, <3>3
      <4>2. Under(conn[x].sent, c, e) /\ Under(conn[x].queue, c, e)
        BY <1>2, <1>3, <3>3
      <4> QED
        BY <1>1, <1>6, <4>1, <4>2
    <3> QED
      BY <1>1, <1>3, <3>1, <3>2, <3>3, TodoAgain
  <2> QED
    BY <1>1, <2>1, <2>2
<1> QED
  BY <1>5, <1>7, <1>8 DEF FlowInv

\* A new event is later than all before it, and its list has each connection once.
LEMMA FlowPublished ==
  ASSUME PlugTyped, SlotInv, FlowInv, NEW c \in PluginConns, eventsPublish(c)
  PROVE  FlowInv'
<1> DEFINE n == Len(publisher)
<1>1. /\ conn' = conn /\ publisher \in Seq(PluginConns) /\ n \in Nat
      /\ publisher' = Append(publisher, c)
      /\ publishing' = [publishing EXCEPT ![c] = [event |-> n + 1, todo |-> subscribers]]
      /\ publishing \in [PluginConns -> [event : Nat, todo : Seq(Slots)]]
      /\ subscribers \in Seq(Slots)
  BY LenProperties DEF PlugTyped, eventsPublish
<1>2. /\ Len(publisher') = n + 1 /\ publisher'[n + 1] = c
      /\ \A i \in 1 .. n : publisher'[i] = publisher[i] /\ i \in 1 .. n + 1
  BY <1>1, AppendProperties
<1>3. /\ publishing'[c].event = n + 1 /\ publishing'[c].todo = subscribers
      /\ \A p \in PluginConns : p # c => publishing'[p] = publishing[p]
  BY <1>1
<1>4. ASSUME NEW s, Within(s)
      PROVE  /\ \A i \in 1 .. Len(s) : s[i] \in 1 .. n /\ publisher'[s[i]] = publisher[s[i]]
             /\ Within(s)'
             /\ \A p, e : Under(s, p, e) => Under(s, p, e)'
             /\ Rising(s) => Rising(s)'
  <2>1. \A i \in 1 .. Len(s) : s[i] \in 1 .. n /\ publisher'[s[i]] = publisher[s[i]]
    BY <1>2, <1>4 DEF Within
  <2>2. Within(s)'
    BY <1>2, <2>1 DEF Within
  <2>3. ASSUME NEW p, NEW e, Under(s, p, e) PROVE Under(s, p, e)'
    BY <2>1, <2>3 DEF Under
  <2>4. ASSUME Rising(s) PROVE Rising(s)'
    BY <2>1, <2>4 DEF Rising, Earlier
  <2> QED
    BY <2>1, <2>2, <2>3, <2>4
<1>5. ASSUME NEW x \in PluginConns PROVE FlowSound(x)'
  <2>1. PICK s, q : s = conn[x].sent /\ q = conn[x].queue
    OBVIOUS
  <2>2. /\ Within(s) /\ Within(q) /\ Rising(s) /\ Rising(q)
        /\ \A i \in 1 .. Len(s) : \A j \in 1 .. Len(q) : Earlier(s[i], q[j])
    BY <2>1 DEF FlowInv, FlowSound
  <2>3. /\ Within(s)' /\ Within(q)' /\ Rising(s)' /\ Rising(q)'
    BY <1>4, <2>2
  <2>4. /\ \A i \in 1 .. Len(s) : publisher'[s[i]] = publisher[s[i]]
        /\ \A j \in 1 .. Len(q) : publisher'[q[j]] = publisher[q[j]]
    BY <1>4, <2>2
  <2>5. \A i \in 1 .. Len(s) : \A j \in 1 .. Len(q) : Earlier(s[i], q[j])'
    BY <2>2, <2>4 DEF Earlier
  <2>6. conn'[x].sent = s /\ conn'[x].queue = q
    BY <1>1, <2>1
  <2> QED
    BY <2>3, <2>5, <2>6 DEF FlowSound, Within, Rising, Earlier
<1>6. ASSUME NEW x \in PluginConns PROVE Within(conn[x].sent) /\ Within(conn[x].queue)
  BY DEF FlowInv, FlowSound
<1>7. ASSUME NEW p \in PluginConns, p # c PROVE TodoSound(p)'
  <2>1. PICK t, e : t = publishing[p].todo /\ e = publishing[p].event
    OBVIOUS
  <2>2. /\ t # <<>> => e \in 1 .. n /\ publisher[e] = p
        /\ \A i, j \in 1 .. Len(t) : t[i] \in PluginConns /\ t[i] = t[j] => i = j
        /\ \A i \in 1 .. Len(t), x \in PluginConns : x = t[i] =>
              Under(conn[x].sent, p, e) /\ Under(conn[x].queue, p, e)
    BY <2>1 DEF FlowInv, TodoSound
  <2>3. ASSUME NEW x \in PluginConns, Under(conn[x].sent, p, e), Under(conn[x].queue, p, e)
        PROVE  Under(conn[x].sent, p, e)' /\ Under(conn[x].queue, p, e)'
    <3>1. PICK s, q : s = conn[x].sent /\ q = conn[x].queue
      OBVIOUS
    <3>2. Under(s, p, e)' /\ Under(q, p, e)'
      BY <1>4, <1>6, <2>3, <3>1
    <3> QED
      BY <1>1, <3>1, <3>2 DEF Under
  <2>4. publishing'[p].todo = t /\ publishing'[p].event = e
    BY <1>3, <1>7, <2>1
  <2>5. t # <<>> => e \in 1 .. Len(publisher') /\ publisher'[e] = p
    BY <1>2, <2>2
  <2>6. ASSUME NEW i \in 1 .. Len(t), NEW x \in PluginConns, x = t[i]
        PROVE  Under(conn[x].sent, p, e)' /\ Under(conn[x].queue, p, e)'
    BY <2>2, <2>3, <2>6
  <2>7. ASSUME NEW i \in 1 .. Len(t), t[i] \in PluginConns
        PROVE  Under(conn[t[i]].sent, p, e)' /\ Under(conn[t[i]].queue, p, e)'
    BY <2>6, <2>7 DEF Under
  <2> QED
    BY <2>2, <2>4, <2>5, <2>7 DEF TodoSound, Under
<1>8. TodoSound(c)'
  <2>1. ASSUME NEW i \in 1 .. Len(subscribers), NEW j \in 1 .. Len(subscribers),
               subscribers[i] \in PluginConns, subscribers[i] = subscribers[j]
        PROVE  i = j
    BY <2>1 DEF SlotInv
  <2>2. PICK k, t : k \in Nat /\ k = n + 1 /\ t = subscribers
    BY <1>1
  <2>3. ASSUME NEW x \in PluginConns
        PROVE  Under(conn[x].sent, c, k)' /\ Under(conn[x].queue, c, k)'
    <3>1. PICK s, q : s = conn[x].sent /\ q = conn[x].queue
      OBVIOUS
    <3>2. (\A i \in 1 .. Len(s) : s[i] \in 1 .. n) /\ (\A j \in 1 .. Len(q) : q[j] \in 1 .. n)
      <4>1. Within(s) /\ Within(q)
        BY <1>6, <3>1
      <4> QED
        BY <1>4, <4>1
    <3>3. (\A i \in 1 .. Len(s) : s[i] < k) /\ (\A j \in 1 .. Len(q) : q[j] < k)
      <4>1. \A y \in 1 .. n : y < k
        BY <1>1, <2>2
      <4> QED
        BY <3>2, <4>1
    <3>4. conn'[x].sent = s /\ conn'[x].queue = q
      BY <1>1, <3>1
    <3> QED
      BY <3>3, <3>4 DEF Under
  <2>4. /\ publishing'[c].event = k /\ publishing'[c].todo = t /\ publisher'[k] = c
        /\ k \in 1 .. Len(publisher')
    BY <1>1, <1>2, <1>3, <2>2
  <2>5. ASSUME NEW i \in 1 .. Len(t), NEW x \in PluginConns, x = t[i]
        PROVE  Under(conn[x].sent, c, k)' /\ Under(conn[x].queue, c, k)'
    BY <2>3
  <2>6. ASSUME NEW i \in 1 .. Len(t), t[i] \in PluginConns
        PROVE  Under(conn[t[i]].sent, c, k)' /\ Under(conn[t[i]].queue, c, k)'
    <3>1. PICK x \in PluginConns : x = t[i]
      BY <2>6
    <3>2. Under(conn[x].sent, c, k)' /\ Under(conn[x].queue, c, k)'
      BY <2>5, <3>1
    <3> QED
      BY <3>1, <3>2
  <2>7. t # <<>> => k \in 1 .. Len(publisher') /\ publisher'[k] = c
    BY <2>4
  <2>8. ASSUME NEW i \in 1 .. Len(t), NEW j \in 1 .. Len(t), t[i] \in PluginConns, t[i] = t[j]
        PROVE  i = j
    BY <2>1, <2>2, <2>8
  <2> QED
    BY <2>4, <2>6, <2>7, <2>8, Zenon DEF TodoSound
<1> QED
  BY <1>5, <1>7, <1>8 DEF FlowInv

\* Every step keeps the order.
LEMMA FlowNext ==
  PlugTyped /\ SlotInv /\ FlowInv /\ [PluginsNext]_pluginVars => FlowInv'
<1> SUFFICES ASSUME PlugTyped, SlotInv, FlowInv, [PluginsNext]_pluginVars PROVE FlowInv'
  OBVIOUS
<1>1. ASSUME NEW c \in PluginConns,
             \/ Connects(c) \/ Registers(c) \/ HangUp(c) \/ Leaves(c)
             \/ \E p \in PluginIds : authenticate(c, p)
             \/ subscribeConnection(c)
      PROVE  FlowInv'
  <2>1. publisher' = publisher /\ publishing' = publishing
    BY <1>1 DEF Connects, Registers, HangUp, Leaves, authenticate, subscribeConnection
  <2>2. ConnMoves(c) /\ KeepsFlow(c)
    BY <1>1, PlainMoves
  <2>3. \A d \in PluginConns : conn'[d].sent = conn[d].sent /\ conn'[d].queue = conn[d].queue
    BY <2>2 DEF ConnMoves, KeepsFlow
  <2> QED
    BY <2>1, <2>3, FlowRests
<1>2. ASSUME NEW c \in PluginConns, PublishNobody(c) PROVE FlowInv'
  <2>1. /\ conn' = conn /\ publisher' = publisher /\ publishing'[c].todo = <<>>
        /\ \A p \in PluginConns : p # c => publishing'[p] = publishing[p]
    BY <1>2 DEF PublishNobody, PlugTyped, NotPublishing
  <2>2. \A x \in PluginConns : FlowSound(x)'
    BY <2>1 DEF FlowInv, FlowSound, Within, Rising, Earlier
  <2>3. TodoSound(c)'
    <3>1. Len(<<>>) = 0
      BY EmptySeq
    <3> QED
      BY <2>1, <3>1 DEF TodoSound
  <2>4. ASSUME NEW p \in PluginConns, p # c PROVE TodoSound(p)'
    <3>1. PICK t, e : t = publishing[p].todo /\ e = publishing[p].event
      OBVIOUS
    <3>2. /\ t # <<>> => e \in 1 .. Len(publisher) /\ publisher[e] = p
          /\ \A i, j \in 1 .. Len(t) : t[i] \in PluginConns /\ t[i] = t[j] => i = j
          /\ \A i \in 1 .. Len(t), x \in PluginConns : x = t[i] =>
                Under(conn[x].sent, p, e) /\ Under(conn[x].queue, p, e)
      BY <3>1 DEF FlowInv, TodoSound
    <3>3. \A i \in 1 .. Len(t), x \in PluginConns : x = t[i] =>
             Under(conn'[x].sent, p, e) /\ Under(conn'[x].queue, p, e)
      BY <2>1, <3>2
    <3>4. publishing'[p].todo = t /\ publishing'[p].event = e
      BY <2>1, <2>4, <3>1
    <3> QED
      BY <2>1, <3>2, <3>3, <3>4, TodoAgain
  <2> QED
    BY <2>2, <2>3, <2>4 DEF FlowInv
<1>3. ASSUME UNCHANGED <<conn, publishing, publisher>> PROVE FlowInv'
  BY <1>3, FlowRests
<1> QED
  BY <1>1, <1>2, <1>3, FlowPushed, FlowDropped, FlowCalled, FlowPublished, RegistrySteps
     DEF PluginsNext, pluginVars

\* What the flow comes to: each connection was sent a publisher's events in
\* order and once.
LEMMA FlowFollows ==
  ASSUME PlugTyped, FlowInv, NEW c \in PluginConns
  PROVE  \A i, j \in 1 .. Len(conn[c].sent) :
            LET d == conn[c].sent[i]  e == conn[c].sent[j]
            IN  i < j => d # e /\ (publisher[d] = publisher[e] => d < e)
<1>1. Rising(conn[c].sent) /\ conn[c].sent \in Seq(Nat)
  BY FlowTypes DEF FlowInv, FlowSound
<1>2. \A i \in 1 .. Len(conn[c].sent) : conn[c].sent[i] \in Nat
  BY <1>1, ElementOfSeq
<1>3. ASSUME NEW i \in 1 .. Len(conn[c].sent), NEW j \in 1 .. Len(conn[c].sent), i < j
      PROVE  Earlier(conn[c].sent[i], conn[c].sent[j])
  BY <1>1, <1>3 DEF Rising
<1>4. \A d, e \in Nat : Earlier(d, e) => d # e /\ (publisher[d] = publisher[e] => d < e)
  BY DEF Earlier
<1> QED
  BY <1>2, <1>3, <1>4

\* An external plugin is shown connected only while a connection of it is
\* there, a disabled one is shown disabled, the bus calls exactly the
\* connections that serve subscribers, and each is sent a publisher's events in
\* order and once: for any plugins, connections and backlog.
THEOREM PluginsAlwaysSound == PluginsSpec => []PluginsSound
<1>1. PluginsInit => PlugTyped /\ StatusInv /\ SlotInv /\ FlowInv
  <2>1. PluginsInit => SlotInv
    <3> SUFFICES ASSUME PluginsInit PROVE SlotInv
      OBVIOUS
    <3>1. /\ subscribers = <<>> /\ Len(<<>>) = 0
          /\ \A c \in PluginConns : conn[c].at = "unborn" /\ conn[c].slot = 0
      BY EmptySeq DEF PluginsInit
    <3> QED
      BY <3>1 DEF SlotInv, Subscribed
  <2> QED
    BY <2>1, PlugTypedInit, StatusInit, FlowInit
<1>2. PlugTyped /\ StatusInv /\ SlotInv /\ FlowInv /\ [PluginsNext]_pluginVars
         => (PlugTyped /\ StatusInv /\ SlotInv /\ FlowInv)'
  BY PlugTypedNext, StatusNext, SlotNext, FlowNext
<1>3. PlugTyped /\ StatusInv /\ SlotInv /\ FlowInv => PluginsSound
  <2> SUFFICES ASSUME PlugTyped, StatusInv, SlotInv, FlowInv PROVE PluginsSound
    OBVIOUS
  <2>1. /\ \A p \in PluginIds : (plugin[p].status = "disabled") = ~plugin[p].enabled
        /\ \A p \in Externals : plugin[p].status = "connected" =>
              \E c \in PluginConns : p \in conn[c].plugin /\ conn[c].at # "over"
    BY DEF StatusInv, Connected
  <2> QED
    BY <2>1, SlotsFollow, FlowFollows DEF PluginsSound
<1> QED
  BY <1>1, <1>2, <1>3, PTL DEF PluginsSpec
=============================================================================
