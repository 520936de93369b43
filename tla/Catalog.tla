------------------------------- MODULE Catalog -------------------------------
(***************************************************************************)
(* The paper registry (internal/registry): ResolveOrMint, which finds, mints *)
(* or merges papers, the asset upserts, the MinerU leases on assets, and the *)
(* ingester (internal/ingest) that fetches the PDFs of minted papers.        *)
(* Transactions are READ COMMITTED: a call reads its candidates, then         *)
(* re-points the losers' rows (which locks them), then marks, backfills and   *)
(* commits.  A call's number is also the id of the paper or the asset it      *)
(* inserts, so ids are ordered by created_at.                                *)
(***************************************************************************)
EXTENDS Integers, Sequences, FiniteSets, FiniteSetsExt

CONSTANTS
    CatKeys,          \* identity keys: pairs <<kind, value>>
    LeaseHolders,     \* contributors that claim conversions
    Seeded,           \* references whose papers are already minted, oldest first
    MaxCalls,         \* bound: calls of ResolveOrMint, the seeded ones included
    MaxLeases         \* bound: leases granted

ASSUME CatalogConfig ==
    /\ MaxCalls \in Nat \ {0} /\ MaxLeases \in Nat
    /\ Seeded \in Seq(SUBSET CatKeys) /\ Len(Seeded) <= MaxCalls

Ids == 1 .. MaxCalls
KindOf(k) == k[1]
\* normalizeRef: a reference with a DOI or an arXiv id, one key of a kind.
PaperRefs ==
    {r \in SUBSET CatKeys :
        /\ \E k \in r : KindOf(k) \in {"doi", "arxiv"}
        /\ \A j, k \in r : KindOf(j) = KindOf(k) => j = k}
\* The kinds with a UNIQUE column of their own in papers.
Columned(r) == {k \in r : KindOf(k) \in {"doi", "arxiv"}}

VARIABLES
    ident,      \* paper_identities: the paper each key names (0: no row)
    paper,      \* papers: columns, status, survivor of a merge, default asset
    asset,      \* paper_assets: owner, source, markdown, lease
    call,       \* callers of the registry, in the order they began
    ingesting,  \* papers in the ingester's queue or workers
    leases,     \* leases granted so far
    holding     \* each contributor: the lease it holds, or the call it is in

catVars == <<ident, paper, asset, call, ingesting, leases, holding>>

NoPaper == [cols |-> {}, status |-> "none", into |-> 0, default |-> 0]
NoAsset == [owner |-> 0, source |-> "none", md |-> FALSE, lease |-> 0, expired |-> FALSE]
NoLease == [op |-> "none", id |-> 0, paper |-> 0, asset |-> 0]
NoCall == [at |-> "unborn", op |-> "none", ref |-> {}, cands |-> {}, keys |-> {},
           moved |-> {}, paper |-> 0, job |-> 0]

CatTypeOK ==
    /\ ident \in [CatKeys -> 0 .. MaxCalls]
    /\ paper \in [Ids -> [cols : SUBSET CatKeys, into : 0 .. MaxCalls, default : 0 .. MaxCalls,
                          status : {"none", "ready", "failed", "merged"}]]
    /\ asset \in [Ids -> [owner : 0 .. MaxCalls, source : {"none", "arxiv", "published"},
                          md : BOOLEAN, lease : 0 .. MaxLeases, expired : BOOLEAN]]
    /\ \A c \in Ids :
          /\ call[c].at \in {"unborn", "found", "moved", "raced", "attach", "mark", "done", "failed"}
          /\ call[c].op \in {"none", "resolve", "arxiv", "published", "md"}
          /\ call[c].cands \subseteq Ids /\ call[c].paper \in 0 .. MaxCalls
    /\ ingesting \subseteq Ids /\ leases \in 0 .. MaxLeases
    /\ holding \in [LeaseHolders -> [op : {"none", "claim", "held", "release"},
                                     id : 0 .. MaxLeases, paper : 0 .. MaxCalls,
                                     asset : 0 .. MaxCalls]]

\* The seeded papers have just been minted by searches.
CatInit ==
    /\ ident = [k \in CatKeys |-> Max({0} \cup {p \in 1 .. Len(Seeded) : k \in Seeded[p]})]
    /\ paper = [p \in Ids |->
          IF p > Len(Seeded) THEN NoPaper
          ELSE [NoPaper EXCEPT !.cols = Columned(Seeded[p]), !.status = "ready"]]
    /\ asset = [a \in Ids |-> NoAsset]
    /\ call = [c \in Ids |-> IF c > Len(Seeded) THEN NoCall ELSE [NoCall EXCEPT !.at = "done"]]
    /\ ingesting = 1 .. Len(Seeded)
    /\ leases = 0 /\ holding = [h \in LeaseHolders |-> NoLease]

-----------------------------------------------------------------------------
(* ResolveOrMint.                                                            *)

\* findCandidates: papers an identity row or a UNIQUE column names.
Candidates(r) ==
    ({ident[k] : k \in r} \ {0}) \cup {p \in Ids : paper[p].cols \cap r # {}}
\* A variant: pickSurvivor without ORDER BY.
SurvivorsAny(cands) == cands
\* pickSurvivor: the oldest candidate.
Survivors(cands) == {Min(cands)}

CallNow(c, rec) == call' = [call EXCEPT ![c] = rec]
CallTo(c, at) == CallNow(c, [call[c] EXCEPT !.at = at])
\* A call that is over: what it still stands for is its job and its paper.
Over(c, at) == CallNow(c, [NoCall EXCEPT !.at = at, !.job = call[c].job])
Returns(c, p) ==
    IF call[c].op = "resolve" THEN Over(c, "done")
    ELSE CallNow(c, [NoCall EXCEPT !.at = "attach", !.op = call[c].op, !.paper = p,
                                   !.job = call[c].job])

\* A search, an upload, a conversion or the ingester calls the registry.
Resolves(c, r, op, j) ==
    /\ call[c].at = "unborn" /\ \A d \in Ids : d < c => call[d].at # "unborn"
    /\ op = "arxiv" => \E k \in r : KindOf(k) = "arxiv"
    /\ op = "published" => \E k \in r : KindOf(k) = "doi"
    /\ CallNow(c, [NoCall EXCEPT !.at = "found", !.op = op, !.ref = r, !.job = j,
                                 !.cands = Candidates(r)])
    /\ UNCHANGED <<ident, paper, asset, ingesting, leases, holding>>

\* Rows another open transaction has updated are locked.
Locked(c) == UNION {call[d].keys : d \in Ids \ {c}}
AssetsLocked(c) == UNION {call[d].moved : d \in Ids \ {c}}
AssetsOf(ps) == {a \in Ids : asset[a].owner \in ps}
Clash(as) == \E a, b \in as : a # b /\ asset[a].source = asset[b].source

\* mergeInto, its first two statements, for every loser.  Two assets of one
\* source violate a unique index.
MergeInto(c) ==
    /\ call[c].at = "found" /\ call[c].cands # {}
    /\ \E s \in Survivors(call[c].cands) :
          LET losers == call[c].cands \ {s}
              keys == {k \in CatKeys : ident[k] \in losers}
              as == AssetsOf(losers)
          IN /\ keys \cap Locked(c) = {} /\ as \cap AssetsLocked(c) = {}
             /\ IF as # {} /\ Clash(AssetsOf(call[c].cands)) THEN CallTo(c, "raced")
                ELSE CallNow(c, [call[c] EXCEPT !.at = "moved", !.paper = s,
                                                !.keys = keys, !.moved = as])
    /\ UNCHANGED <<ident, paper, asset, ingesting, leases, holding>>

\* backfillIdentities: ON CONFLICT DO NOTHING.
IdentityRows(c, p) ==
    [k \in CatKeys |-> IF k \in call[c].keys \/ (k \in call[c].ref /\ ident[k] = 0)
                       THEN p ELSE ident[k]]
\* backfillColumns: NULL columns whose value no other paper holds.
Backfilled(c, p) ==
    paper[p].cols \cup
    {k \in Columned(call[c].ref) :
        /\ \A q \in Ids : k \notin paper[q].cols
        /\ \A j \in paper[p].cols : KindOf(j) # KindOf(k)}
\* The rest of the transaction, and its commit.
CommitMerge(c) ==
    LET s == call[c].paper  losers == call[c].cands \ {s} IN
    /\ call[c].at = "moved"
    /\ ident' = IdentityRows(c, s)
    /\ paper' = [p \in Ids |->
          CASE p \in losers -> [paper[p] EXCEPT !.status = "merged", !.into = s]
            [] p = s -> [paper[p] EXCEPT !.cols = Backfilled(c, s)]
            [] OTHER -> paper[p]]
    /\ asset' = [a \in Ids |-> IF a \in call[c].moved THEN [asset[a] EXCEPT !.owner = s]
                               ELSE asset[a]]
    /\ Returns(c, s)
    /\ UNCHANGED <<ingesting, leases, holding>>
\* Nothing found: mint, unless a concurrent mint holds a column by now.  The
\* row's status is the column's default.
Mint(c) ==
    /\ call[c].at = "found" /\ call[c].cands = {}
    /\ IF \E p \in Ids : paper[p].cols \cap Columned(call[c].ref) # {}
       THEN CallTo(c, "raced") /\ UNCHANGED <<ident, paper, ingesting>>
       ELSE /\ paper' = [paper EXCEPT ![c] = [NoPaper EXCEPT !.status = "ready",
                                                             !.cols = Columned(call[c].ref)]]
            /\ ident' = IdentityRows(c, c)
            /\ Returns(c, c)
            \* The search engine's onMint hook: OnMint queues the paper.
            /\ ingesting' = IF call[c].op = "resolve" THEN ingesting \cup {c} ELSE ingesting
    /\ UNCHANGED <<asset, leases, holding>>
\* lookupPaper, once, after a unique violation.
LookupPaper(c) ==
    /\ call[c].at = "raced"
    /\ IF Candidates(call[c].ref) = {} THEN Over(c, "failed")
       ELSE \E s \in Survivors(Candidates(call[c].ref)) :
               Returns(c, s)
    /\ UNCHANGED <<ident, paper, asset, ingesting, leases, holding>>
\* PostgreSQL fails: the open transaction is rolled back.
CatalogUnavailable(c) ==
    /\ call[c].at \in {"found", "moved", "raced", "attach", "mark"}
    /\ Over(c, "failed")
    /\ UNCHANGED <<ident, paper, asset, ingesting, leases, holding>>

-----------------------------------------------------------------------------
(* The asset upserts that follow.                                            *)

\* papers_refresh_default_asset: published first.
DefaultOf(as, table) ==
    IF as = {} THEN 0
    ELSE LET published == {a \in as : table[a].source = "published"}
         IN IF published # {} THEN Max(published) ELSE Max(as)
\* INSERT ... ON CONFLICT DO UPDATE of an asset of p; the trigger fires on an
\* insert only.
Upserted(c, p, source, md) ==
    LET old == {a \in Ids : asset[a].owner = p /\ asset[a].source = source} IN
    /\ \A a \in AssetsLocked(c) : asset[a].source # source
    /\ IF old # {}
       THEN /\ asset' = [a \in Ids |->
                  IF a \notin old \/ ~md THEN asset[a]
                  ELSE IF source = "arxiv" THEN [asset[a] EXCEPT !.md = TRUE, !.lease = 0,
                                                                 !.expired = FALSE]
                  ELSE [asset[a] EXCEPT !.md = TRUE]]
            /\ UNCHANGED paper
       ELSE /\ asset' = [asset EXCEPT ![c] = [NoAsset EXCEPT !.owner = p, !.md = md,
                                                             !.source = source]]
            /\ paper' = [paper EXCEPT ![p].default =
                            DefaultOf({a \in Ids : asset'[a].owner = p}, asset')]
\* UpsertPDF and UpsertPDFByDOI.
UpsertPDF(c) ==
    /\ call[c].at = "attach" /\ call[c].op \in {"arxiv", "published"}
    /\ Upserted(c, call[c].paper, call[c].op, FALSE)
    /\ CallTo(c, "mark") /\ UNCHANGED <<ident, ingesting, leases, holding>>
\* markReady, a statement of its own, never revives a merged paper.
MarkReady(c) ==
    /\ call[c].at = "mark" /\ Over(c, "done")
    /\ paper' = IF paper[call[c].paper].status # "failed" THEN paper
                ELSE [paper EXCEPT ![call[c].paper].status = "ready"]
    /\ UNCHANGED <<ident, asset, ingesting, leases, holding>>
\* UpsertMD and UpsertMDByDOI.
UpsertMD(c) ==
    /\ call[c].at = "attach" /\ call[c].op = "md"
    /\ \E source \in {"arxiv", "published"} : Upserted(c, call[c].paper, source, TRUE)
    /\ Over(c, "done") /\ UNCHANGED <<ident, ingesting, leases, holding>>

-----------------------------------------------------------------------------
(* Leases, on a paper's default asset.                                       *)

\* LookupByIdentity: a statement of its own, before the lease's.
LookupByIdentity(k) == ident[k]
Forgets(h) == holding' = [holding EXCEPT ![h] = NoLease]
\* A contributor claims the conversion of a paper it names by its arXiv id.
mineruClaimHandler(h, k) ==
    /\ KindOf(k) = "arxiv" /\ holding[h].op = "none" /\ leases < MaxLeases
    /\ LookupByIdentity(k) # 0
    /\ holding' = [holding EXCEPT ![h] = [NoLease EXCEPT !.op = "claim",
                                                         !.paper = LookupByIdentity(k)]]
    /\ UNCHANGED <<ident, paper, asset, call, ingesting, leases>>
LeaseLive(a) == asset[a].lease # 0 /\ ~asset[a].expired
\* Lease: one transaction under the row lock of the paper's default asset.
Lease(h) ==
    LET a == paper[holding[h].paper].default IN
    /\ holding[h].op = "claim" /\ a \notin AssetsLocked(0)
    /\ IF a = 0 \/ leases = MaxLeases THEN Forgets(h) /\ UNCHANGED <<asset, leases>>
       ELSE IF LeaseLive(a) \/ asset[a].md THEN Forgets(h) /\ UNCHANGED <<asset, leases>>
       ELSE /\ leases' = leases + 1
            /\ asset' = [asset EXCEPT ![a].lease = leases + 1, ![a].expired = FALSE]
            /\ holding' = [holding EXCEPT ![h] = [op |-> "held", id |-> leases + 1, paper |-> 0,
                                                     asset |-> a]]
    /\ UNCHANGED <<ident, paper, call, ingesting>>
mineruClaimReleaseHandler(h, k) ==
    /\ KindOf(k) = "arxiv" /\ holding[h].op = "held" /\ LookupByIdentity(k) # 0
    /\ holding' = [holding EXCEPT ![h].op = "release", ![h].paper = LookupByIdentity(k),
                                 ![h].asset = 0]
    /\ UNCHANGED <<ident, paper, asset, call, ingesting, leases>>
\* A variant: ReleaseLease without the lease_id.
ReleaseMatchesAny(a, id) == asset[a].lease # 0
ReleaseMatches(a, id) == asset[a].lease = id
\* ReleaseLease, which may come when the lease has ended, or is another's.
ReleaseLease(h) ==
    LET a == paper[holding[h].paper].default IN
    /\ holding[h].op = "release" /\ a \notin AssetsLocked(0) /\ Forgets(h)
    /\ asset' = [b \in Ids |-> IF b = a /\ ReleaseMatches(a, holding[h].id)
                               THEN [asset[a] EXCEPT !.lease = 0, !.expired = FALSE]
                               ELSE asset[b]]
    /\ UNCHANGED <<ident, paper, call, ingesting, leases>>
\* A lease's time runs out: a contributor that works under it stops.
LeaseEnds(id) ==
    /\ \E a \in Ids : asset[a].lease = id /\ ~asset[a].expired
    /\ asset' = [a \in Ids |-> IF asset[a].lease = id THEN [asset[a] EXCEPT !.expired = TRUE]
                               ELSE asset[a]]
    /\ holding' = [h \in LeaseHolders |-> IF holding[h].op = "held" /\ holding[h].id = id
                                          THEN NoLease ELSE holding[h]]
    /\ UNCHANGED <<ident, paper, call, ingesting, leases>>
\* GCExpiredLeases, every minute on every edge.
GCExpiredLeases ==
    /\ \E a \in Ids : asset[a].expired
    /\ asset' = [a \in Ids |-> IF asset[a].expired
                               THEN [asset[a] EXCEPT !.lease = 0, !.expired = FALSE]
                               ELSE asset[a]]
    /\ UNCHANGED <<ident, paper, call, ingesting, leases, holding>>

-----------------------------------------------------------------------------
(* The ingester.                                                             *)

\* process: freezes the PDF and records it through the registry.
Process(p, c) ==
    /\ p \in ingesting /\ \A d \in Ids : call[d].job # p
    /\ \E op \in {"arxiv", "published"} : Resolves(c, paper[p].cols, op, p)
\* The upsert went through.
Ingested(p) ==
    /\ p \in ingesting /\ \E c \in Ids : call[c].job = p /\ call[c].at = "done"
    /\ ingesting' = ingesting \ {p}
    /\ UNCHANGED <<ident, paper, asset, call, leases, holding>>
\* fail: any stage; UpdateStatus looks at nothing but the id.
Fail(p) ==
    /\ p \in ingesting /\ \A c \in Ids : call[c].job = p => call[c].at = "failed"
    /\ paper' = [paper EXCEPT ![p].status = "failed"]
    /\ ingesting' = ingesting \ {p}
    /\ UNCHANGED <<ident, asset, call, leases, holding>>
\* The edge stops: its queue is lost.  RecoverPending would replay the papers
\* of status 'pending', and no row has it.
IngestLost ==
    /\ ingesting # {} /\ ingesting' = {}
    /\ UNCHANGED <<ident, paper, asset, call, leases, holding>>

CatNext ==
    \/ \E c \in Ids, r \in PaperRefs, op \in {"resolve", "arxiv", "published", "md"} :
          Resolves(c, r, op, 0)
    \/ \E c \in Ids :
          \/ MergeInto(c) \/ CommitMerge(c) \/ Mint(c) \/ LookupPaper(c)
          \/ CatalogUnavailable(c) \/ UpsertPDF(c) \/ MarkReady(c) \/ UpsertMD(c)
    \/ \E h \in LeaseHolders :
          \/ \E k \in CatKeys : mineruClaimHandler(h, k) \/ mineruClaimReleaseHandler(h, k)
          \/ Lease(h) \/ ReleaseLease(h)
    \/ \E id \in 1 .. MaxLeases : LeaseEnds(id)
    \/ \E p, c \in Ids : Process(p, c)
    \/ \E p \in Ids : Ingested(p) \/ Fail(p)
    \/ GCExpiredLeases \/ IngestLost

CatSpec == CatInit /\ [][CatNext]_catVars

-----------------------------------------------------------------------------
(* Properties.                                                               *)

\* The papers reached by following merged_into from p.
Reached(p) ==
    LET hop(S) == S \cup ({paper[q].into : q \in {q \in S : paper[q].status = "merged"}} \ {0})
        go[n \in 0 .. MaxCalls] == IF n = 0 THEN {p} ELSE hop(go[n - 1])
    IN go[MaxCalls]
\* Whatever merges run at once, every paper that is merged into another leads,
\* through merged_into, to a paper that is not merged: there is no cycle, so a
\* reader that follows it (resolveCanonicalPaper) arrives.
MergeChainsEnd ==
    \A p \in Ids : paper[p].status # "none" =>
        \E q \in Reached(p) : paper[q].status \in {"ready", "failed"}

\* A contributor at work on the conversion of an asset holds that asset's live
\* lease, so no two work on one, although leases expire, are swept, released
\* late and moved by merges.  Only a stored markdown ends a lease early.
LeaseExclusive ==
    \A h \in LeaseHolders : holding[h].op = "held" =>
        LET a == holding[h].asset
        IN  asset[a].md \/ (LeaseLive(a) /\ asset[a].lease = holding[h].id)

\* A paper's default asset is the one the policy picks among its own assets:
\* "Recomputed whenever a paper's assets change" (migrations/00001_init.sql).
DefaultIsCurrent ==
    \A p \in Ids : paper[p].status \in {"ready", "failed"} =>
        paper[p].default = DefaultOf(AssetsOf({p}), asset)

==============================================================================
