----------------------------- MODULE TokenPool -----------------------------
(***************************************************************************)
(* The pool of MinerU API tokens (internal/mineru: keyring.go, and the     *)
(* token surface of converter.go and tokenstore.go).  The ring and the     *)
(* table mineru_tokens are two copies of the pool; conversion jobs, admin  *)
(* requests and the boot-time reconcile work on them concurrently.         *)
(*                                                                         *)
(* KeyRing's methods take the ring's mutex and are one step each; between  *)
(* two of them, or between one of them and a SQL statement, anything can   *)
(* happen.  A job keeps the slot INDEX Acquire gave it while it converts.  *)
(* The token store is configured and paper access is on.  Rotation         *)
(* timestamps are kept as the order of the table's rows, all that List     *)
(* uses of them; rows of concurrent requests are in commit order.          *)
(***************************************************************************)
EXTENDS Integers, Sequences, SequencesExt, FiniteSets

CONSTANTS
    Tokens,       \* token strings
    Config,       \* cfg.MinerUAPITokens: the list the converter boots with
    Jobs,         \* goroutines of convertSource
    Admins,       \* concurrent admin requests
    Syncs,        \* goroutines of BootSyncTokens: one, or none to leave it out
    MaxDays,      \* bound: midnights that may pass
    NoToken

ASSUME PoolConstants ==
    /\ Config \in Seq(Tokens) /\ IsInjective(Config)
    /\ IsFiniteSet(Tokens) /\ MaxDays \in Nat
    /\ NoToken \notin Tokens

VARIABLES
    entries,      \* KeyRing.entries: tokens in ring order
    cursor,       \* KeyRing.cursor
    cooling,      \* tokens whose entry has cooldownUntil in the future
    enabled,      \* Converter.enabled
    tokenRows,       \* mineru_tokens, ORDER BY rotated_at
    job, jobToken, jobSlot,       \* convertSource: where it is, and its key
    admin, adminToken,            \* AddToken / RemoveToken: where, and on what
    sync, seeded, listed,         \* BootSyncTokens: where, rows seeded, rows read
    limited,      \* history: tokens MinerU has ever answered "daily limit" for
    days

ringVars == <<entries, cursor, cooling>>
jobVars  == <<job, jobToken, jobSlot>>
adminVars == <<admin, adminToken>>
syncVars == <<sync, seeded, listed>>
worldVars == <<limited, days>>
poolVars == <<ringVars, enabled, tokenRows, jobVars, adminVars, syncVars, worldVars>>

JobPCs   == {"idle", "acquire", "converting", "limited"}
AdminPCs == {"idle", "found", "checked", "deleted", "dropped",
             "upserted", "added", "looking"}
SyncPCs  == {"seeding", "listed", "swapped", "done"}

InRing(t) == t \in ToSet(entries)

PoolTypeOK ==
    /\ entries \in Seq(Tokens) /\ tokenRows \in Seq(Tokens)
    /\ cursor \in Nat
    /\ cooling \subseteq ToSet(entries)
    /\ enabled \in BOOLEAN
    /\ job \in [Jobs -> JobPCs]
    /\ jobToken \in [Jobs -> Tokens \cup {NoToken}]
    /\ jobSlot \in [Jobs -> Nat]
    /\ admin \in [Admins -> AdminPCs]
    /\ adminToken \in [Admins -> Tokens \cup {NoToken}]
    /\ sync \in [Syncs -> SyncPCs]
    /\ seeded \in [Syncs -> 0 .. Len(Config)]
    /\ listed \in [Syncs -> Seq(Tokens)]
    /\ limited \subseteq Tokens
    /\ days \in 0 .. MaxDays

\* A process has just started: the ring holds the config list; the table, what
\* earlier deployments and their admins left, in the order of its rotations.
PoolInit ==
    /\ entries = Config /\ cursor = 0 /\ cooling = {}
    /\ enabled = (Config # <<>>)
    /\ tokenRows \in UNION {SetToSeqs(T) : T \in SUBSET Tokens}
    /\ job = [j \in Jobs |-> "idle"]
    /\ jobToken = [j \in Jobs |-> NoToken] /\ jobSlot = [j \in Jobs |-> 0]
    /\ admin = [a \in Admins |-> "idle"]
    /\ adminToken = [a \in Admins |-> NoToken]
    /\ sync = [s \in Syncs |-> "seeding"] /\ seeded = [s \in Syncs |-> 0]
    /\ listed = [s \in Syncs |-> <<>>]
    /\ limited = {} /\ days = 0

-----------------------------------------------------------------------------
(* KeyRing. *)

Free(i) == entries[i + 1] \notin cooling        \* i: a slot, from 0

\* The first free slot from the cursor on, as in Acquire's loop.
FreeSlots == {i \in 0 .. Len(entries) - 1 : Free(i)}
Distance(i) == (i - cursor + Len(entries)) % Len(entries)
NextSlot == CHOOSE i \in FreeSlots : \A k \in FreeSlots : Distance(i) <= Distance(k)

\* RemoveToken and SetEntries keep the cursor inside the new ring.
CursorWithin(c, n) == IF n = 0 THEN 0 ELSE c % n

\* MarkDailyLimit: whatever entry is at the index now.
Cooled(slot) ==
    IF slot \in 0 .. Len(entries) - 1 THEN cooling \cup {entries[slot + 1]} ELSE cooling

\* Mutant: dropped tokens keep a cooldown too.
CoolingUnpruned(new) == cooling
\* SetEntries: tokens that survive keep their cooldown.
CoolingKept(new) == cooling \cap ToSet(new)

-----------------------------------------------------------------------------
(* convertSource: Acquire, convert, on a daily limit mark and try again. *)

StartJob(j) ==
    /\ job[j] = "idle" /\ enabled
    /\ job' = [job EXCEPT ![j] = "acquire"]
    /\ UNCHANGED <<ringVars, enabled, tokenRows, jobToken, jobSlot, adminVars,
                   syncVars, worldVars>>

Acquire(j) ==
    /\ job[j] = "acquire" /\ FreeSlots # {}
    /\ LET slot == NextSlot
       IN  /\ cursor' = (slot + 1) % Len(entries)
           /\ jobToken' = [jobToken EXCEPT ![j] = entries[slot + 1]]
           /\ jobSlot' = [jobSlot EXCEPT ![j] = slot]
    /\ job' = [job EXCEPT ![j] = "converting"]
    /\ UNCHANGED <<entries, cooling, enabled, tokenRows, adminVars, syncVars, worldVars>>

\* The job ends; its client and slot are forgotten.
EndJob(j) ==
    /\ job' = [job EXCEPT ![j] = "idle"]
    /\ jobToken' = [jobToken EXCEPT ![j] = NoToken]
    /\ jobSlot' = [jobSlot EXCEPT ![j] = 0]
    /\ UNCHANGED <<ringVars, enabled, tokenRows, adminVars, syncVars, worldVars>>

AllExhausted(j) == job[j] = "acquire" /\ FreeSlots = {} /\ EndJob(j)
\* Success, or any error other than the daily limit.
Converted(j) == job[j] = "converting" /\ EndJob(j)

\* MinerU refuses the account for the rest of the day; it may have been used up
\* by anybody.
DailyLimit(j) ==
    /\ job[j] = "converting"
    /\ limited' = limited \cup {jobToken[j]}
    /\ job' = [job EXCEPT ![j] = "limited"]
    /\ UNCHANGED <<ringVars, enabled, tokenRows, jobToken, jobSlot, adminVars,
                   syncVars, days>>

MarkDailyLimit(j) ==
    /\ job[j] = "limited"
    /\ cooling' = Cooled(jobSlot[j])
    /\ job' = [job EXCEPT ![j] = "acquire"]
    /\ UNCHANGED <<entries, cursor, enabled, tokenRows, jobToken, jobSlot, adminVars,
                   syncVars, worldVars>>

\* Midnight: quotas are back, every cooldownUntil has passed.
Midnight ==
    /\ days < MaxDays /\ days' = days + 1
    /\ cooling' = {}
    /\ UNCHANGED <<entries, cursor, enabled, tokenRows, jobVars, adminVars, syncVars,
                   limited>>

-----------------------------------------------------------------------------
(* Admin requests. *)

AdminAt(a, here, next) ==
    /\ admin[a] = here /\ admin' = [admin EXCEPT ![a] = next]
    /\ adminToken' = IF next = "idle" THEN [adminToken EXCEPT ![a] = NoToken] ELSE adminToken
AdminBegins(a, t, next) ==
    /\ admin[a] = "idle" /\ admin' = [admin EXCEPT ![a] = next]
    /\ adminToken' = [adminToken EXCEPT ![a] = t]

\* recomputeEnabledLocked, with paper access on.
Recomputed == entries # <<>>

\* RemoveToken: States, Size, Delete, ring RemoveToken, recompute.
RemoveFind(a, t) ==
    /\ AdminBegins(a, t, "found") /\ InRing(t)
    /\ UNCHANGED <<ringVars, enabled, tokenRows, jobVars, syncVars, worldVars>>

MayRemove == Len(entries) > 1
RemoveCheck(a) ==
    /\ AdminAt(a, "found", IF MayRemove THEN "checked" ELSE "idle")
    /\ UNCHANGED <<ringVars, enabled, tokenRows, jobVars, syncVars, worldVars>>

RemoveRow(a) ==
    /\ AdminAt(a, "checked", "deleted")
    /\ tokenRows' = RemoveFirst(tokenRows, adminToken[a])
    /\ UNCHANGED <<ringVars, enabled, jobVars, syncVars, worldVars>>

\* The row is gone already (ErrTokenNotFound) or not: the first entry with the
\* token is dropped.
RemoveEntry(a) ==
    /\ AdminAt(a, "deleted", "dropped")
    /\ entries' = RemoveFirst(entries, adminToken[a])
    /\ cursor' = IF InRing(adminToken[a]) THEN CursorWithin(cursor, Len(entries'))
                 ELSE cursor
    /\ cooling' = cooling \ {adminToken[a]}
    /\ UNCHANGED <<enabled, tokenRows, jobVars, syncVars, worldVars>>

RemoveRecompute(a) ==
    /\ AdminAt(a, "dropped", "idle")
    /\ enabled' = Recomputed
    /\ UNCHANGED <<ringVars, tokenRows, jobVars, syncVars, worldVars>>

\* AddToken: Upsert, ring AddToken, recompute, look the entry up.
AddRow(a, t) ==
    /\ AdminBegins(a, t, "upserted")
    /\ tokenRows' = Append(RemoveFirst(tokenRows, t), t)
    /\ UNCHANGED <<ringVars, enabled, jobVars, syncVars, worldVars>>

\* A known token keeps its place and its cooldown.
AddEntry(a) ==
    /\ AdminAt(a, "upserted", "added")
    /\ entries' = IF InRing(adminToken[a]) THEN entries ELSE Append(entries, adminToken[a])
    /\ UNCHANGED <<cursor, cooling, enabled, tokenRows, jobVars, syncVars, worldVars>>

AddRecompute(a) ==
    /\ AdminAt(a, "added", "looking")
    /\ enabled' = Recomputed
    /\ UNCHANGED <<ringVars, tokenRows, jobVars, syncVars, worldVars>>

AddAnswer(a) ==
    /\ AdminAt(a, "looking", "idle")
    /\ UNCHANGED <<ringVars, enabled, tokenRows, jobVars, syncVars, worldVars>>

\* Upsert or Delete fails: the request ends with the error.
AdminFails(a) ==
    /\ AdminAt(a, "checked", "idle")
    /\ UNCHANGED <<ringVars, enabled, tokenRows, jobVars, syncVars, worldVars>>

-----------------------------------------------------------------------------
(* BootSyncTokens, in the post-migration goroutine. *)

SyncAt(s, here, next) == sync[s] = here /\ sync' = [sync EXCEPT ![s] = next]

\* SyncFromConfig: a statement per config token, ON CONFLICT DO NOTHING.
SyncSeed(s) ==
    /\ sync[s] = "seeding" /\ seeded[s] < Len(Config)
    /\ LET t == Config[seeded[s] + 1]
       IN  tokenRows' = IF t \in ToSet(tokenRows) THEN tokenRows ELSE Append(tokenRows, t)
    /\ seeded' = [seeded EXCEPT ![s] = @ + 1]
    /\ UNCHANGED <<ringVars, enabled, jobVars, adminVars, sync, listed, worldVars>>

SyncList(s) ==
    /\ seeded[s] = Len(Config) /\ SyncAt(s, "seeding", "listed")
    /\ listed' = [listed EXCEPT ![s] = tokenRows]
    /\ UNCHANGED <<ringVars, enabled, tokenRows, jobVars, adminVars, seeded, worldVars>>

\* A statement of BootSync fails: the ring stays with the config list.
SyncFails(s) ==
    /\ SyncAt(s, "seeding", "done")
    /\ UNCHANGED <<ringVars, enabled, tokenRows, jobVars, adminVars, seeded, listed,
                   worldVars>>

SetEntries(s) ==
    /\ SyncAt(s, "listed", "swapped")
    /\ entries' = listed[s]
    /\ cooling' = CoolingKept(listed[s])
    /\ cursor' = CursorWithin(cursor, Len(listed[s]))
    /\ UNCHANGED <<enabled, tokenRows, jobVars, adminVars, seeded, listed, worldVars>>

SyncRecompute(s) ==
    /\ SyncAt(s, "swapped", "done")
    /\ enabled' = Recomputed
    /\ UNCHANGED <<ringVars, tokenRows, jobVars, adminVars, seeded, listed, worldVars>>

-----------------------------------------------------------------------------
JobStep(j) == Acquire(j) \/ AllExhausted(j) \/ Converted(j) \/ DailyLimit(j)
              \/ MarkDailyLimit(j)

RemoveStep(a) == RemoveCheck(a) \/ RemoveRow(a) \/ RemoveEntry(a)
                 \/ RemoveRecompute(a) \/ AdminFails(a)
AddStep(a) == AddEntry(a) \/ AddRecompute(a) \/ AddAnswer(a)

SyncStep(s) == SyncSeed(s) \/ SyncList(s) \/ SyncFails(s) \/ SetEntries(s)
               \/ SyncRecompute(s)

PoolNext ==
    \/ \E j \in Jobs : StartJob(j) \/ JobStep(j)
    \/ \E a \in Admins : \/ \E t \in Tokens : RemoveFind(a, t) \/ AddRow(a, t)
                         \/ RemoveStep(a) \/ AddStep(a)
    \/ \E s \in Syncs : SyncStep(s)
    \/ Midnight

PoolSpec == PoolInit /\ [][PoolNext]_poolVars

\* A job's goroutine keeps running; every call it makes has a deadline.
PoolFair == \A j \in Jobs : WF_poolVars(JobStep(j))
PoolFairSpec == PoolSpec /\ PoolFair

-----------------------------------------------------------------------------
(* Properties. *)

\* keyring.go: "When a key hits the daily quota, the ring puts ONLY that key on
\* cooldown": every key that is cooling was itself refused by MinerU.
OnlyLimitedKeysCool == cooling \subseteq limited

\* Enabled() tells whether the ring has a key, except while a request that
\* changed the ring has not recomputed it yet.
EnabledFollowsRing ==
    \/ enabled = (entries # <<>>)
    \/ \E a \in Admins : admin[a] \in {"dropped", "added"}
    \/ \E s \in Syncs : sync[s] = "swapped"

\* "Re-adding a quota-shot key must not reset its cooldown", and neither does
\* the boot-time swap: only midnight or removal ends a cooldown.
CooldownSurvives ==
    [][\A t \in cooling : t \in cooling' \/ t \notin ToSet(entries') \/ days' # days]_poolVars

\* "The cursor is re-modulo'd so it keeps pointing inside the ring".
CursorInsideRing == cursor = 0 \/ cursor < Len(entries)

\* The ring stays in step with itself, however admins, the boot-time sync and
\* running jobs interleave.
RingSound == [](EnabledFollowsRing /\ CursorInsideRing) /\ CooldownSurvives

\* The rotation loop of convertSource ends: every refused key is put aside, so
\* it finds a working key or gives up, also when the pool changes under it.
JobsEnd == \A j \in Jobs : job[j] # "idle" ~> job[j] = "idle"
=============================================================================
