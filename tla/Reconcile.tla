----------------------------- MODULE Reconcile ------------------------------
(***************************************************************************)
(* The catalog's maintenance commands (cmd/qatlasd/papers_cmd.go) beside the *)
(* running server: `papers sync`, which walks the buckets shard by shard and *)
(* upserts what it lists (registry/sync.go), and `papers backfill-metadata`, *)
(* which pages through untitled papers and fills them in (backfill.go).      *)
(* Listings fail, uploads and merges go on, either command may be stopped    *)
(* and run again.  Look-ups are those of registry/lookup.go.                 *)
(***************************************************************************)
EXTENDS Integers, FiniteSets, Sequences

CONSTANTS
    Works,        \* papers in paper_id order: a set of numbers from 1
    Bucket,       \* objects that can be stored: [kind, shard, dir, work, version]
    Outside,      \* the external ids the metadata sources report
    Reports,      \* work -> the external id its metadata reports, or NoId
    BatchSize,    \* --batch
    MaxRuns,      \* bound: runs of either command
    MaxMishaps,   \* bound: failures, and what the server does meanwhile
    NoId

DoiShard  == 0    \* the "doi" pseudo-shard; version 0 is the published edition
TopLevel  == 0    \* dir 0: the object lies directly in its shard
KindOrder == <<"pdf", "markdown">>

ASSUME ReconcileConfig ==
    /\ Works \subseteq Nat \ {0} /\ IsFiniteSet(Works) /\ NoId \notin Outside
    /\ \A o \in Bucket : /\ o.kind \in {"pdf", "markdown"} /\ o.work \in Works
                         /\ {o.shard, o.dir, o.version} \subseteq Nat
    /\ Reports \in [Works -> Outside \cup {NoId}]
    /\ {BatchSize, MaxRuns} \subseteq Nat \ {0} /\ MaxMishaps \in Nat

VARIABLES
    stored,     \* the objects in the buckets
    hosted,     \* the works with a papers row
    gone,       \* the works merged into another: tombstones
    pdfRow,     \* paper_assets with a pdf_path: pairs of work and version
    mdRow,      \* ... with a mineru_md_path
    titled,     \* the works with a title
    extId,      \* the external id column of each work
    sync,       \* the sync pass under way
    fill,       \* the backfill run under way
    runs, mishaps

recVars == <<stored, hosted, gone, pdfRow, mdRow, titled, extId, sync, fill, runs, mishaps>>
assetState == <<stored, hosted, pdfRow, mdRow>>
paperState == <<gone, titled, extId>>

NoSync == [at |-> "none", kinds |-> {}, lo |-> 0, shards |-> {}, shard |-> 0, dirs |-> {},
           got |-> {}, kind |-> 0, failed |-> {}, missed |-> {}, begin |-> {}, dry |-> FALSE, ok |-> FALSE]
NoFill == [at |-> "none", source |-> "arxiv", page |-> <<>>, after |-> 0, seen |-> {}, missing |-> {}]

RecTypeOK ==
    /\ stored \subseteq Bucket /\ hosted \subseteq Works /\ gone \subseteq Works
    /\ {pdfRow, mdRow} \subseteq SUBSET (Works \X Nat) /\ titled \subseteq Works
    /\ extId \in [Works -> Outside \cup {NoId}]
    /\ sync.at \in {"none", "dirs", "shard", "drill", "merge", "done"}
    /\ fill.at \in {"none", "list", "fetch", "apply", "done", "failed"}
    /\ runs \in 0 .. MaxRuns /\ mishaps \in 0 .. MaxMishaps

RecInit ==
    /\ stored \in {{}, Bucket} /\ hosted = {} /\ gone = {}
    /\ pdfRow = {} /\ mdRow = {} /\ titled = {} /\ extId = [w \in Works |-> NoId]
    /\ sync = NoSync /\ fill = NoFill /\ runs = 0 /\ mishaps = 0

Mishap == mishaps < MaxMishaps /\ mishaps' = mishaps + 1
MayFail(bad) == IF bad THEN Mishap ELSE UNCHANGED mishaps

-----------------------------------------------------------------------------
(* Syncer.SyncFromStore.                                                     *)

\* orderedKinds, and the range flag: pdf always before markdown.
StartSync(kinds, from, dry) ==
    /\ sync.at \in {"none", "done"} /\ runs < MaxRuns /\ runs' = runs + 1
    /\ sync' = [NoSync EXCEPT !.at = "dirs", !.kinds = kinds, !.lo = from, !.kind = 1,
                              !.begin = stored, !.dry = dry]
    /\ UNCHANGED <<assetState, paperState, fill, mishaps>>

Kind == KindOrder[sync.kind]
\* filterShards: the doi shard always passes.
InRange(shard, from) == shard = DoiShard \/ shard >= from
Shards == {o.shard : o \in {x \in stored : x.kind = Kind /\ InRange(x.shard, sync.lo)}}

\* A variant: the failed shard is not remembered.
FailureForgotten(s) == sync.failed
\* SyncReport.FailedShards, which make the pass report an error at its end.
FailedShards(s) == sync.failed \cup {<<Kind, s>>}
\* What the pass does when it is through with a shard, a kind, everything.
NextKind == IF sync.kind = 2 THEN [sync EXCEPT !.at = "done", !.ok = sync.failed = {}]
            ELSE [sync EXCEPT !.kind = 2, !.at = "dirs"]

\* syncKind's first call: ListDirs of the kind.  A failure is recorded.
ListShards(fails) ==
    /\ sync.at = "dirs" /\ MayFail(fails) /\ (fails => Kind \in sync.kinds)
    /\ sync' = IF Kind \notin sync.kinds THEN NextKind
               ELSE IF fails THEN [NextKind EXCEPT !.failed = FailedShards(-1), !.ok = FALSE]
               ELSE [sync EXCEPT !.at = "shard", !.shards = Shards]
    /\ UNCHANGED <<assetState, paperState, fill, runs>>

Under(s, d) == {o \in stored : o.kind = Kind /\ o.shard = s /\ (d = TopLevel \/ o.dir = d)}
Merged(objs) == IF sync.dry THEN {} ELSE objs    \* --dry-run only counts
DirsOf(s)   == {o.dir : o \in Under(s, TopLevel)} \ {TopLevel}

\* listPrefixResilient: when the recursive listing fails three times, the shard
\* is read through its directories; without any, the failure stands.
Wedged(s, dirsFail) == ~dirsFail /\ DirsOf(s) # {}

ListShard(s, fails, dirsFail) ==
    /\ sync.at = "shard" /\ s \in sync.shards /\ MayFail(fails)
    /\ sync' = LET rest == [sync EXCEPT !.shards = @ \ {s}, !.shard = s]
               IN  IF ~fails THEN [rest EXCEPT !.at = "merge", !.got = Merged(Under(s, TopLevel))]
                   ELSE IF Wedged(s, dirsFail)
                   THEN [rest EXCEPT !.at = "drill", !.dirs = DirsOf(s), !.got = {},
                                     !.missed = @ \cup {o \in Under(s, TopLevel) : o.dir = TopLevel}]
                   ELSE [rest EXCEPT !.failed = FailedShards(s)]
    /\ UNCHANGED <<assetState, paperState, fill, runs>>
\* One directory of the drill-down; a failure gives the whole shard up.
DrillDown(d, fails) ==
    /\ sync.at = "drill" /\ d \in sync.dirs /\ MayFail(fails)
    /\ sync' = IF fails THEN [sync EXCEPT !.at = "shard", !.got = {}, !.dirs = {},
                                          !.failed = FailedShards(sync.shard)]
               ELSE [sync EXCEPT !.dirs = @ \ {d}, !.got = @ \cup Merged(Under(sync.shard, d)),
                                 !.at = IF sync.dirs = {d} THEN "merge" ELSE "drill"]
    /\ UNCHANGED <<assetState, paperState, fill, runs>>

\* A PDF resolves or mints its paper and upserts the row ...
Upsert(o) ==
    /\ hosted' = hosted \cup {o.work} /\ pdfRow' = pdfRow \cup {<<o.work, o.version>>}
    /\ UNCHANGED mdRow
\* ... markdown only completes a row of a known paper.
Attach(o) ==
    /\ mdRow' = IF o.work \in hosted /\ <<o.work, o.version>> \in pdfRow
                THEN mdRow \cup {<<o.work, o.version>>} ELSE mdRow
    /\ UNCHANGED <<hosted, pdfRow>>
mergeArxivAsset(o) == o.version > 0 /\ IF o.kind = "pdf" THEN Upsert(o) ELSE Attach(o)
mergeDOIAsset(o)   == o.version = 0 /\ IF o.kind = "pdf" THEN Upsert(o) ELSE Attach(o)
\* mergeAssetBatch, object by object; a failed statement aborts the pass.
mergeAssetBatch(o, fails) ==
    /\ sync.at = "merge" /\ o \in sync.got /\ MayFail(fails)
    /\ IF fails THEN sync' = [sync EXCEPT !.at = "done", !.ok = FALSE] /\ UNCHANGED assetState
       ELSE /\ sync' = [sync EXCEPT !.got = @ \ {o}] /\ UNCHANGED stored
            /\ mergeArxivAsset(o) \/ mergeDOIAsset(o)
    /\ UNCHANGED <<paperState, fill, runs>>
ShardDone ==
    /\ \/ sync.at = "merge" /\ sync.got = {} /\ sync' = [sync EXCEPT !.at = "shard"]
       \/ sync.at = "shard" /\ sync.shards = {} /\ sync' = NextKind
    /\ UNCHANGED <<assetState, paperState, fill, runs, mishaps>>

-----------------------------------------------------------------------------
(* runArxivBackfill and runOpenAlexBackfill.                                 *)

\* The next batch after the cursor of the papers with an arXiv id, with a DOI.
Page(papers, after) ==
    LET rest == {w \in papers : w \in hosted \ (gone \cup titled) /\ w > after}
    IN  {w \in rest : Cardinality({v \in rest : v <= w}) <= BatchSize}
ListUntitled(after)    == Page({o.work : o \in {x \in Bucket : x.version > 0}}, after)
ListUntitledDOI(after) == Page({o.work : o \in {x \in Bucket : x.version = 0}}, after)
Sorted(S) == CHOOSE s \in [1 .. Cardinality(S) -> S] : \A i, j \in DOMAIN s : i < j => s[i] < s[j]

StartFill(source) ==
    /\ fill.at \in {"none", "done", "failed"} /\ runs < MaxRuns /\ runs' = runs + 1
    /\ fill' = [NoFill EXCEPT !.at = "list", !.source = source]
    /\ UNCHANGED <<assetState, paperState, sync, mishaps>>
FillPage(page) ==
    /\ fill.at = "list"
    /\ fill' = IF page = {} THEN [fill EXCEPT !.at = "done"]
               ELSE [fill EXCEPT !.at = "fetch", !.page = Sorted(page), !.seen = @ \cup page]
    /\ UNCHANGED <<assetState, paperState, sync, runs, mishaps>>
\* fetchWithRetry: after three failures the page is skipped, past its last row.
AfterSkip(page) == page[Len(page)]
FillFetch(fails) ==
    /\ fill.at = "fetch" /\ MayFail(fails)
    /\ fill' = IF fails THEN [fill EXCEPT !.at = "list", !.page = <<>>, !.after = AfterSkip(fill.page),
                                          !.missing = @ \cup {fill.page[i] : i \in DOMAIN fill.page}]
               ELSE [fill EXCEPT !.at = "apply"]
    /\ UNCHANGED <<assetState, paperState, sync, runs>>

\* claimExternalID: only an id no row owns, only where there is none.
Claims(w, x) == x # NoId /\ extId[w] = NoId /\ \A v \in Works : extId[v] # x
UpdateMetadata(w) ==
    /\ titled' = titled \cup {w} /\ UNCHANGED gone
    /\ extId' = IF Claims(w, Reports[w]) THEN [extId EXCEPT ![w] = Reports[w]] ELSE extId
\* The page's next row, in its own transaction: unknown to the source, filled
\* in, or the statement fails and ends the run.
FillRow(found, fails) ==
    LET w    == Head(fill.page)
        next == [fill EXCEPT !.page = Tail(@), !.after = w]
    IN  /\ fill.at = "apply" /\ fill.page # <<>> /\ MayFail(fails \/ ~found)
        /\ \/ ~found /\ fill' = [next EXCEPT !.missing = @ \cup {w}] /\ UNCHANGED paperState
           \/ found /\ fails /\ fill' = [fill EXCEPT !.at = "failed"] /\ UNCHANGED paperState
           \/ found /\ ~fails /\ fill' = next /\ UpdateMetadata(w)
        /\ UNCHANGED <<assetState, sync, runs>>
PageDone ==
    /\ fill.at = "apply" /\ fill.page = <<>> /\ fill' = [fill EXCEPT !.at = "list"]
    /\ UNCHANGED <<assetState, paperState, sync, runs, mishaps>>
BackfillStep(page, bad, found) == FillPage(page) \/ FillFetch(bad) \/ FillRow(found, bad) \/ PageDone
runArxivBackfill(bad, found) ==
    fill.source = "arxiv" /\ BackfillStep(ListUntitled(fill.after), bad, found)
runOpenAlexBackfill(bad, found) ==
    fill.source = "openalex" /\ BackfillStep(ListUntitledDOI(fill.after), bad, found)

-----------------------------------------------------------------------------
(* The server goes on beside the commands.                                   *)

Upload(o) ==
    /\ o \in Bucket \ stored /\ Mishap /\ stored' = stored \cup {o}
    /\ UNCHANGED <<hosted, pdfRow, mdRow, paperState, sync, fill, runs>>
MintMeanwhile(w, x) ==
    /\ w \in Works \ hosted /\ Mishap /\ hosted' = hosted \cup {w}
    /\ \A v \in Works : extId[v] # x \/ x = NoId
    /\ extId' = [extId EXCEPT ![w] = x]
    /\ UNCHANGED <<stored, pdfRow, mdRow, gone, titled, sync, fill, runs>>
\* A merge clears the loser's external id and leaves a tombstone.
MergeMeanwhile(w) ==
    /\ w \in hosted \ gone /\ Mishap /\ gone' = gone \cup {w}
    /\ extId' = [extId EXCEPT ![w] = NoId]
    /\ UNCHANGED <<assetState, titled, sync, fill, runs>>
\* SIGINT: both commands keep what they committed.
Interrupt ==
    /\ \/ sync.at \notin {"none", "done"} /\ sync' = [sync EXCEPT !.at = "done", !.ok = FALSE]
          /\ UNCHANGED fill
       \/ fill.at \in {"list", "fetch", "apply"} /\ fill' = [fill EXCEPT !.at = "failed"]
          /\ UNCHANGED sync
    /\ Mishap /\ UNCHANGED <<assetState, paperState, runs>>

\* Both commands have ended and the bounds are spent.
RecRest ==
    /\ sync.at \in {"none", "done"} /\ fill.at \in {"none", "done", "failed"} /\ runs = MaxRuns
    /\ UNCHANGED recVars

RecNext ==
    \/ \E kinds \in SUBSET {"pdf", "markdown"} \ {{}}, from \in {0, 2}, dry \in BOOLEAN :
          StartSync(kinds, from, dry)
    \/ \E bad, worse \in BOOLEAN :
          \/ ListShards(bad) \/ \E s \in {o.shard : o \in Bucket} : ListShard(s, bad, worse)
          \/ \E d \in {o.dir : o \in Bucket} : DrillDown(d, bad)
          \/ \E o \in Bucket : mergeAssetBatch(o, bad)
          \/ runArxivBackfill(bad, worse) \/ runOpenAlexBackfill(bad, worse)
    \/ ShardDone \/ Interrupt \/ \E source \in {"arxiv", "openalex"} : StartFill(source)
    \/ \E o \in Bucket : Upload(o)
    \/ \E w \in Works, x \in Outside \cup {NoId} : MintMeanwhile(w, x)
    \/ \E w \in Works : MergeMeanwhile(w)
    \/ RecRest

RecSpec == RecInit /\ [][RecNext]_recVars

-----------------------------------------------------------------------------
(* Look-ups.                                                                 *)

IsHosted(w) == w \in hosted
LatestArxivAssetVersion(w) ==
    LET vs == {r[2] : r \in {p \in pdfRow : p[1] = w /\ p[2] > 0}}
    IN  IF vs = {} THEN 0 ELSE CHOOSE v \in vs : \A u \in vs : u <= v
HasPublishedAsset(w) == <<w, 0>> \in pdfRow
GetPaperIDByIdentity(x) == {w \in Works : x # NoId /\ extId[w] = x}

(* A pass that reports success has reconciled every object that was stored   *)
(* when it began and that its flags select, but for those a drill-down       *)
(* cannot reach (sync.go, "callers must never treat a partial listing as     *)
(* complete" and its caveat): the PDF is hosted and known as at least that   *)
(* version.  Markdown never makes a paper or a row.  An external id names at *)
(* most one paper, and a backfill that ran to its end has titled every paper *)
(* it listed but those it counted as missing.                                *)
SyncComplete ==
    /\ sync.at = "done" /\ sync.ok /\ ~sync.dry =>
          \A o \in sync.begin \ sync.missed :
             o.kind \in sync.kinds /\ InRange(o.shard, sync.lo) =>
                IF o.kind = "pdf"
                THEN IsHosted(o.work) /\ (IF o.version = 0 THEN HasPublishedAsset(o.work)
                                          ELSE LatestArxivAssetVersion(o.work) >= o.version)
                ELSE <<o.work, o.version>> \in pdfRow /\ "pdf" \in sync.kinds
                        => <<o.work, o.version>> \in mdRow
                           \/ \A p \in sync.begin \ sync.missed :
                                 p.kind = "pdf" => <<p.work, p.version>> # <<o.work, o.version>>
    /\ mdRow \subseteq pdfRow
    /\ \A x \in Outside : Cardinality(GetPaperIDByIdentity(x)) <= 1
    /\ fill.at = "done" => fill.seen \subseteq titled \cup fill.missing

(* The commands only add: an interrupted run loses nothing that it or the    *)
(* server committed, and the backfill's cursor only moves on, so that a page *)
(* that cannot be fetched is never asked for twice in one run.               *)
ReconcileSafe ==
    /\ []SyncComplete
    /\ [][/\ pdfRow \subseteq pdfRow' /\ mdRow \subseteq mdRow' /\ titled \subseteq titled'
          /\ (fill.at = "fetch" /\ fill'.at = "list" => fill'.after > fill.after)]_recVars
=============================================================================
