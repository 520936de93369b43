------------------------------- MODULE Storage -------------------------------
(***************************************************************************)
(* Maintenance of the versioned bucket (internal/objstore/s3.go) while it is *)
(* in use: "storage migrate-layout" moves an asset from its legacy key to the *)
(* sharded one, "storage prune" deletes noncurrent versions, and readers look *)
(* the asset up under both keys (paperassets/dual_read.go).  Several of each  *)
(* run at once, any request may fail, and the commands may be interrupted.   *)
(* One asset; the versions of a key are numbered in the order written.        *)
(***************************************************************************)
EXTENDS Integers, FiniteSets

CONSTANTS
    Movers, Pruners, Readers,    \* processes running each command
    KeepLast,                    \* --keep-last (0: no cap)
    MaxWrites                    \* bound: versions ever created

ASSUME StorageConfig == KeepLast \in Nat /\ MaxWrites \in Nat \ {0}

ObjKeys == {"legacy", "sharded"}

VARIABLES
    kept,      \* the versions of each key: id and whether a delete marker
    writes,    \* versions created so far
    mover,     \* at, and the key it listed
    plan,      \* versions each pruner still has to delete
    reader,    \* at, and whether the legacy key was deleted since it began
    lastIds    \* id of the newest version ever written to each key

stoVars == <<kept, writes, mover, plan, reader, lastIds>>

StoTypeOK ==
    /\ kept \in [ObjKeys -> SUBSET [id : 1 .. MaxWrites, marker : BOOLEAN]]
    /\ writes \in 0 .. MaxWrites /\ lastIds \in [ObjKeys -> 0 .. MaxWrites]
    /\ mover \in [Movers -> {"idle", "listed", "absent", "copied", "read"}]
    /\ plan \in [Pruners -> SUBSET (ObjKeys \X (1 .. MaxWrites))]
    /\ reader \in [Readers -> [at : {"idle", "probe", "found", "missing"}, moved : BOOLEAN]]

StoInit ==
    /\ kept = [k \in ObjKeys |-> IF k = "legacy" THEN {[id |-> 1, marker |-> FALSE]} ELSE {}]
    /\ writes = 1 /\ lastIds = [k \in ObjKeys |-> IF k = "legacy" THEN 1 ELSE 0]
    /\ mover = [m \in Movers |-> "idle"] /\ plan = [p \in Pruners |-> {}]
    /\ reader = [r \in Readers |-> [at |-> "idle", moved |-> FALSE]]

-----------------------------------------------------------------------------
(* The S3 operations.                                                        *)

NewestOf(k) == {v \in kept[k] : \A w \in kept[k] : w.id <= v.id}
\* Stat: the newest version, unless it is a delete marker.
Held(k) == \E v \in NewestOf(k) : ~v.marker
\* CopyObject, a put or a delete adds a version; Delete adds a marker.
Written(k, marker) ==
    /\ writes < MaxWrites /\ writes' = writes + 1
    /\ kept' = [kept EXCEPT ![k] = @ \cup {[id |-> writes + 1, marker |-> marker]}]
    /\ lastIds' = [lastIds EXCEPT ![k] = writes + 1]
\* DeleteVersion is idempotent.
VersionGone(k, id) ==
    kept' = [kept EXCEPT ![k] = {v \in @ : v.id # id}]

-----------------------------------------------------------------------------
(* migrateOneKind.                                                           *)

MoverAt(m, from, to) == mover[m] = from /\ mover' = [mover EXCEPT ![m] = to]

\* ListPrefix shows the legacy key.
MoveLists(m) ==
    /\ Held("legacy") /\ MoverAt(m, "idle", "listed")
    /\ UNCHANGED <<kept, writes, plan, reader, lastIds>>
\* Already migrated, or a dry run: left alone.  A failed Stat counts as absent.
MoveStats(m) ==
    /\ \/ MoverAt(m, "listed", "absent")
       \/ Held("sharded") /\ MoverAt(m, "listed", "idle")
    /\ UNCHANGED <<kept, writes, plan, reader, lastIds>>
\* ServerSideCopy overwrites whatever is there ...
MoveCopies(m) ==
    /\ Held("legacy") /\ MoverAt(m, "absent", "copied") /\ Written("sharded", FALSE)
    /\ UNCHANGED <<plan, reader>>
\* ... or is not supported: Get the old object ...
MoveReads(m) ==
    /\ Held("legacy") /\ MoverAt(m, "absent", "read")
    /\ UNCHANGED <<kept, writes, plan, reader, lastIds>>
\* ... and create the new one; 412 counts as success.
MovePuts(m) ==
    /\ MoverAt(m, "read", "copied")
    /\ IF Held("sharded") THEN UNCHANGED <<kept, writes, lastIds>> ELSE Written("sharded", FALSE)
    /\ UNCHANGED <<plan, reader>>
\* Mutant: a failed copy goes on to the delete.
MoveFailsOn(m) ==
    /\ MoverAt(m, "absent", "copied")
    /\ UNCHANGED <<kept, writes, plan, reader, lastIds>>
\* The copy or the delete fails, or the command is interrupted.
MoveFails(m) ==
    /\ mover[m] # "idle" /\ mover' = [mover EXCEPT ![m] = "idle"]
    /\ UNCHANGED <<kept, writes, plan, reader, lastIds>>
MoveDeletes(m) ==
    /\ MoverAt(m, "copied", "idle") /\ Written("legacy", TRUE)
    /\ reader' = [r \in Readers |-> [reader[r] EXCEPT !.moved = @ \/ reader[r].at = "probe"]]
    /\ UNCHANGED plan

-----------------------------------------------------------------------------
(* runStoragePrune.                                                          *)

\* Never the latest entry, be it an object or a marker.
Eligible(k) == kept[k] \ NewestOf(k)
\* planPruneCandidates: of the eligible ones older than the cutoff (versions are
\* numbered in the order they were written) the KeepLast newest stay.
Planned(cutoff) ==
    UNION {LET aged == {v \in Eligible(k) : v.id <= cutoff}
           IN  {<<k, v.id>> :
                   v \in {x \in aged : Cardinality({y \in aged : y.id > x.id}) >= KeepLast}}
           : k \in ObjKeys}
\* ListAllVersions and the plan ...
PruneLists(p) ==
    /\ plan[p] = {}
    /\ \E cutoff \in 1 .. writes : plan' = [plan EXCEPT ![p] = Planned(cutoff)]
    /\ UNCHANGED <<kept, writes, mover, reader, lastIds>>
\* ... then one DeleteVersion after the other; a failure is counted and skipped.
PruneDeletes(p) ==
    /\ \E v \in plan[p] : /\ plan' = [plan EXCEPT ![p] = @ \ {v}]
                          /\ VersionGone(v[1], v[2]) \/ UNCHANGED kept
    /\ UNCHANGED <<writes, mover, reader, lastIds>>
PruneStops(p) ==
    /\ plan[p] # {} /\ plan' = [plan EXCEPT ![p] = {}]
    /\ UNCHANGED <<kept, writes, mover, reader, lastIds>>

-----------------------------------------------------------------------------
(* LocateAsset: the sharded key, then the legacy key.                        *)

ReaderAt(r, to) == reader' = [reader EXCEPT ![r] = [at |-> to, moved |-> to # "probe" /\ @.moved]]
LocateNew(r) ==
    /\ reader[r].at = "idle" /\ ReaderAt(r, IF Held("sharded") THEN "found" ELSE "probe")
    /\ UNCHANGED <<kept, writes, mover, plan, lastIds>>
LocateLegacy(r) ==
    /\ reader[r].at = "probe" /\ ReaderAt(r, IF Held("legacy") THEN "found" ELSE "missing")
    /\ UNCHANGED <<kept, writes, mover, plan, lastIds>>
Located(r) ==
    /\ reader[r].at \in {"found", "missing"}
    /\ reader' = [reader EXCEPT ![r] = [at |-> "idle", moved |-> FALSE]]
    /\ UNCHANGED <<kept, writes, mover, plan, lastIds>>

StoNext ==
    \/ \E m \in Movers : \/ MoveLists(m) \/ MoveStats(m) \/ MoveCopies(m) \/ MoveReads(m)
                         \/ MovePuts(m) \/ MoveFails(m) \/ MoveDeletes(m)
    \/ \E p \in Pruners : PruneLists(p) \/ PruneDeletes(p) \/ PruneStops(p)
    \/ \E r \in Readers : LocateNew(r) \/ LocateLegacy(r) \/ Located(r)
StoSpec == StoInit /\ [][StoNext]_stoVars

-----------------------------------------------------------------------------
(* Properties. *)

\* "current versions are NEVER deleted", and a migration copies before it
\* deletes: whatever two migrations and two prunings do to the same asset, and
\* wherever they are interrupted, one of its keys still serves it, and each key
\* still shows the newest version written to it.
AssetSurvives ==
    /\ \E k \in ObjKeys : Held(k)
    /\ \A k \in ObjKeys : lastIds[k] # 0 => \E v \in NewestOf(k) : v.id = lastIds[k]

\* A reader reports an asset as absent only when the legacy key was deleted
\* between its two probes.  (The code leaves that window open.)
AbsentMeansMoved ==
    \A r \in Readers : reader[r].at = "missing" => reader[r].moved

\* The migration loses no asset and hides none from a reader.
AssetsSound == AssetSurvives /\ AbsentMeansMoved
=============================================================================
