----------------------------- MODULE Conversion -----------------------------
(***************************************************************************)
(* Frozen sources, conversion jobs and parse bundles of one paper under one *)
(* canonical id: internal/mineru (compat.go, source.go, the job table of     *)
(* converter.go), internal/registry/content_bundles.go, internal/paperbundle.*)
(* Several edges (server processes) share the catalog and the object store;  *)
(* each has its own job table.  A source is named by its bytes, because      *)
(* registration reuses the identity of equal bytes.                          *)
(***************************************************************************)
EXTENDS Integers, FiniteSets

CONSTANTS
    Edges,
    PdfEditions,      \* the byte strings arXiv or the legacy store may deliver
    Revisions,     \* bound: revision ids that can be minted
    JobSlots,      \* MinerUMaxConcurrentJobs
    MaxDamage,     \* bound: crashes, damaged objects, legacy overwrites
    NoEdition

ASSUME ConversionConfig ==
    /\ NoEdition \notin PdfEditions /\ Revisions \subseteq Nat \ {0}
    /\ JobSlots \in Nat \ {0} /\ MaxDamage \in Nat

VARIABLES
    legacyPdf,  \* the bytes at the mutable legacy PDF key
    sourceRow,  \* paper_sources: none, legacy (not yet moved) or frozen
    frozenPdf,  \* content/<paper>/<source>/source.pdf: none, intact, broken
    pinned,     \* paper_source_imports: the source of the canonical key
    revision,   \* revisions: source, files, published row, is_current
    asking,     \* one request per edge inside ensureCanonical
    fetching,   \* the job "fetch:<id>" of each edge
    parsing,    \* the job of each source on each edge
    damage

convVars == <<legacyPdf, sourceRow, frozenPdf, pinned, revision, asking, fetching, parsing,
              damage>>
catalogVars == <<legacyPdf, sourceRow, frozenPdf, pinned, damage>>

NoAsk   == [kind |-> "none", at |-> "idle", src |-> NoEdition]
NoFetch == [st |-> "none", got |-> NoEdition, content |-> FALSE]
NoParse == [st |-> "none", rev |-> 0]
NoRev   == [src |-> NoEdition, files |-> "none", published |-> FALSE, current |-> FALSE]
Unfinished  == {"queued", "running", "parsing", "writing", "prepared"}

ConvTypeOK ==
    /\ {legacyPdf, pinned} \subseteq PdfEditions \cup {NoEdition}
    /\ sourceRow \in [PdfEditions -> {"none", "legacy", "frozen"}]
    /\ frozenPdf \in [PdfEditions -> {"none", "intact", "broken"}]
    /\ revision \in [Revisions -> [src : PdfEditions \cup {NoEdition},
                              files : {"none", "some", "all", "broken"},
                              published : BOOLEAN, current : BOOLEAN]]
    /\ asking \in [Edges -> [kind : {"none", "pdf", "content"},
                          at : {"idle", "miss", "hit", "stale"},
                          src : PdfEditions \cup {NoEdition}]]
    /\ fetching \in [Edges -> [st : {"none", "queued", "running", "got", "ensure", "done",
                                  "failed"},
                            got : PdfEditions \cup {NoEdition}, content : BOOLEAN]]
    /\ parsing \in [Edges -> [PdfEditions -> [st : {"none", "done", "failed"} \cup Unfinished,
                                         rev : Revisions \cup {0}]]]
    /\ damage \in Nat

ConvInit ==
    /\ legacyPdf \in PdfEditions \cup {NoEdition}
    /\ sourceRow \in {[b \in PdfEditions |-> IF b = legacyPdf /\ known THEN "legacy" ELSE "none"] :
                   known \in BOOLEAN}
    /\ frozenPdf = [b \in PdfEditions |-> "none"] /\ pinned = NoEdition
    /\ revision = [r \in Revisions |-> NoRev]
    /\ asking = [e \in Edges |-> NoAsk] /\ fetching = [e \in Edges |-> NoFetch]
    /\ parsing = [e \in Edges |-> [b \in PdfEditions |-> NoParse]]
    /\ damage = 0

-----------------------------------------------------------------------------
(* The catalog's transactions, each under the paper's advisory lock.         *)

\* freezePaperSource succeeds: a frozen row reads only its verified copy, a
\* legacy row must still find its own bytes at the legacy key.
Freezable(b) ==
    \/ sourceRow[b] = "frozen" /\ frozenPdf[b] = "intact"
    \/ sourceRow[b] = "legacy" /\ legacyPdf = b
Freeze(b) ==
    /\ sourceRow' = [sourceRow EXCEPT ![b] = "frozen"]
    /\ frozenPdf' = [frozenPdf EXCEPT ![b] = "intact"]

\* registerPDFBytes: a known source is frozen, a new one created.
Registrable(b) == sourceRow[b] # "frozen" \/ frozenPdf[b] = "intact"

\* Mutant: a binding that is there already is not compared.
BindableAny(b) == TRUE
\* bindPaperSourceImport: existing aliases remain authoritative.
Bindable(b) == pinned \in {NoEdition, b}

Catalogued(b) == sourceRow[b] # "none"

\* canonicalSource: the pinned source; else a source of this origin, frozen and
\* then bound; else the stored legacy PDF, imported and bound; else not found.
\* Freezing and binding commit separately, so the second may fail alone.
Resolve(e, kind) ==
    LET Found(b) == [asking EXCEPT ![e] = IF kind = "pdf" THEN NoAsk
                                          ELSE [at |-> "hit", kind |-> kind, src |-> b]]
    IN  /\ asking[e] = NoAsk
        /\ \/ /\ pinned # NoEdition /\ Freezable(pinned) /\ Freeze(pinned)
              /\ asking' = Found(pinned) /\ UNCHANGED pinned
           \/ /\ pinned = NoEdition
              /\ \E b \in PdfEditions :
                    /\ IF \E c \in PdfEditions : Catalogued(c) THEN Catalogued(b) /\ Freezable(b)
                       ELSE b = legacyPdf
                    /\ Freeze(b)
                    /\ \/ pinned' = b /\ asking' = Found(b)
                       \/ UNCHANGED <<pinned, asking>>
           \/ /\ pinned = NoEdition /\ legacyPdf = NoEdition
              /\ \A b \in PdfEditions : ~Catalogued(b)
              /\ asking' = [asking EXCEPT ![e] = [NoAsk EXCEPT !.at = "miss", !.kind = kind]]
              /\ UNCHANGED <<sourceRow, frozenPdf, pinned>>
        /\ UNCHANGED <<legacyPdf, revision, fetching, parsing, damage>>

-----------------------------------------------------------------------------
(* ensureCanonical after the look-up.                                        *)

\* A miss joins the id's fetch job (asking it to parse) or starts one, whatever
\* became of the catalog since the look-up.
Joinable == {"queued", "running", "got", "ensure", "failed"}
StartFetch(e) ==
    /\ asking[e].at = "miss" /\ asking' = [asking EXCEPT ![e] = NoAsk]
    /\ LET wants == asking[e].kind = "content"
       IN  fetching' = [fetching EXCEPT ![e] =
                       IF fetching[e].st \in Joinable
                       THEN [fetching[e] EXCEPT !.content = fetching[e].content \/ wants]
                       ELSE [NoFetch EXCEPT !.st = "queued", !.content = wants]]
    /\ UNCHANGED <<catalogVars, revision, parsing>>

Intact(r) == revision[r].files = "all" /\ frozenPdf[revision[r].src] = "intact"
\* GetReadyParseBundle looks at the current, else any published revision.
Ready(b) == \E r \in Revisions :
               /\ revision[r].published /\ revision[r].src = b /\ Intact(r)
               /\ (\E q \in Revisions : /\ revision[q].published /\ revision[q].src = b
                                       /\ revision[q].current)
                  => revision[r].current

\* EnsureSource on a cache hit: the job record shows it, unless one is active.
CacheHit(e) ==
    /\ asking[e].at = "hit" /\ Ready(asking[e].src)
    /\ asking' = [asking EXCEPT ![e] = NoAsk]
    /\ parsing' = [parsing EXCEPT ![e][asking[e].src] =
                   IF @.st \in Unfinished THEN @ ELSE [st |-> "done", rev |-> 0]]
    /\ UNCHANGED <<catalogVars, revision, fetching>>
CacheMiss(e) ==
    /\ asking[e].at = "hit" /\ ~Ready(asking[e].src)
    /\ asking' = [asking EXCEPT ![e].at = "stale"]
    /\ UNCHANGED <<catalogVars, revision, fetching, parsing>>

\* The job is created or joined after the cache was found empty.
Minted == {r \in Revisions : revision[r].src # NoEdition}
          \cup {parsing[e][b].rev : e \in Edges, b \in PdfEditions}
Unminted(r) == r \notin Minted /\ \A q \in Revisions : q < r => q \in Minted
Submitted(e, b, r) ==
    IF parsing[e][b].st \in Unfinished \cup {"failed"} THEN UNCHANGED parsing
    ELSE parsing' = [parsing EXCEPT ![e][b] = [st |-> "queued", rev |-> r]]
Submit(e, r) ==
    /\ asking[e].at = "stale" /\ Unminted(r) /\ Submitted(e, asking[e].src, r)
    /\ asking' = [asking EXCEPT ![e] = NoAsk]
    /\ UNCHANGED <<catalogVars, revision, fetching>>

-----------------------------------------------------------------------------
(* fetchCanonical.                                                           *)
FetchBegin(e) ==
    /\ fetching[e].st = "queued" /\ fetching' = [fetching EXCEPT ![e].st = "running"]
    /\ UNCHANGED <<catalogVars, revision, asking, parsing>>
\* The download, its registration and its binding; arXiv may deliver other bytes
\* than last time.  A refused binding leaves the source registered.
FetchRegister(e) ==
    /\ fetching[e].st = "running"
    /\ \E b \in PdfEditions :
          /\ Registrable(b) /\ Freeze(b)
          /\ IF Bindable(b)
             THEN /\ pinned' = b
                  /\ fetching' = [fetching EXCEPT ![e] = [@ EXCEPT !.st = "got", !.got = b]]
             ELSE fetching' = [fetching EXCEPT ![e].st = "failed"] /\ UNCHANGED pinned
    /\ UNCHANGED <<legacyPdf, damage, revision, asking, parsing>>
FetchFails(e) ==
    /\ fetching[e].st \in {"running", "ensure"} /\ fetching' = [fetching EXCEPT ![e].st = "failed"]
    /\ UNCHANGED <<catalogVars, revision, asking, parsing>>
FetchDecides(e) ==
    /\ fetching[e].st = "got"
    /\ fetching' = [fetching EXCEPT ![e].st = IF fetching[e].content THEN "ensure" ELSE "done"]
    /\ UNCHANGED <<catalogVars, revision, asking, parsing>>
\* EnsureSource for the fetched source; its job replaces the fetch job.
FetchHandsOver(e, r) ==
    /\ fetching[e].st = "ensure" /\ Unminted(r)
    /\ Freezable(fetching[e].got)
    /\ IF Ready(fetching[e].got) THEN UNCHANGED parsing ELSE Submitted(e, fetching[e].got, r)
    /\ fetching' = [fetching EXCEPT ![e] = NoFetch]
    /\ UNCHANGED <<catalogVars, revision, asking>>

-----------------------------------------------------------------------------
(* runJob and convertSource.                                                 *)
ParseStep(e, b, from, to) ==
    parsing[e][b].st = from /\ parsing' = [parsing EXCEPT ![e][b].st = to]
Occupied(e) == {b \in PdfEditions : parsing[e][b].st \in Unfinished \ {"queued"}}

JobRuns(e, b) ==
    /\ Cardinality(Occupied(e)) < JobSlots /\ ParseStep(e, b, "queued", "running")
    /\ UNCHANGED <<catalogVars, revision, asking, fetching>>
\* ReadPDF just before the upload; then MinerU parses (see TokenPool).
JobReads(e, b) ==
    /\ frozenPdf[b] = "intact" /\ ParseStep(e, b, "running", "parsing")
    /\ UNCHANGED <<catalogVars, revision, asking, fetching>>
\* WriteBundle: the members, then the manifest.
JobWrites(e, b) ==
    /\ frozenPdf[b] = "intact" /\ ParseStep(e, b, "parsing", "writing")
    /\ revision' = [revision EXCEPT ![parsing[e][b].rev] = [NoRev EXCEPT !.src = b, !.files = "some"]]
    /\ UNCHANGED <<catalogVars, asking, fetching>>
\* createVerified of the manifest, then prepareBundlePublication's verification.
JobPrepares(e, b) ==
    LET r == parsing[e][b].rev
    IN  /\ ParseStep(e, b, "writing", "prepared")
        /\ revision[r].files = "some" /\ frozenPdf[b] = "intact"
        /\ revision' = [revision EXCEPT ![r].files = "all"]
        /\ UNCHANGED <<catalogVars, asking, fetching>>
StillIntact(r) == Intact(r)
\* publishBundle: verified again under the lock, inserted, made current.
JobPublishes(e, b) ==
    LET r == parsing[e][b].rev
    IN  /\ parsing[e][b].st = "prepared" /\ StillIntact(r)
        /\ parsing' = [parsing EXCEPT ![e][b] = [st |-> "done", rev |-> 0]]
        /\ revision' = [q \in Revisions |->
                     [revision[q] EXCEPT !.published = @ \/ q = r, !.current = (q = r)]]
        /\ UNCHANGED <<catalogVars, asking, fetching>>
\* Any error or the job's timeout, the wait for a slot included.
JobFails(e, b) ==
    /\ parsing[e][b].st \in Unfinished /\ parsing' = [parsing EXCEPT ![e][b].st = "failed"]
    /\ UNCHANGED <<catalogVars, revision, asking, fetching>>
\* CooldownUntil passes: the record no longer answers requests.
Cools(e) ==
    /\ \/ fetching[e].st = "failed" /\ fetching' = [fetching EXCEPT ![e] = NoFetch] /\ UNCHANGED parsing
       \/ \E b \in PdfEditions : /\ parsing[e][b].st = "failed" /\ UNCHANGED fetching
                              /\ parsing' = [parsing EXCEPT ![e][b] = NoParse]
    /\ UNCHANGED <<catalogVars, revision, asking>>

-----------------------------------------------------------------------------
(* Faults: a damaged object, another writer of the legacy key, a restart.    *)
Damaged == damage < MaxDamage /\ damage' = damage + 1
BreakObject ==
    /\ Damaged
    /\ \/ \E b \in PdfEditions :
             /\ frozenPdf[b] = "intact" /\ UNCHANGED revision
             /\ frozenPdf' = [frozenPdf EXCEPT ![b] = "broken"]
       \/ \E r \in Revisions :
             /\ revision[r].files \in {"some", "all"} /\ UNCHANGED frozenPdf
             /\ revision' = [revision EXCEPT ![r].files = "broken"]
    /\ UNCHANGED <<legacyPdf, sourceRow, pinned, asking, fetching, parsing>>
LegacyChanges ==
    /\ Damaged /\ \E b \in (PdfEditions \cup {NoEdition}) \ {legacyPdf} : legacyPdf' = b
    /\ UNCHANGED <<sourceRow, frozenPdf, pinned, revision, asking, fetching, parsing>>
EdgeRestarts(e) ==
    /\ Damaged /\ asking' = [asking EXCEPT ![e] = NoAsk] /\ fetching' = [fetching EXCEPT ![e] = NoFetch]
    /\ parsing' = [parsing EXCEPT ![e] = [b \in PdfEditions |-> NoParse]]
    /\ UNCHANGED <<legacyPdf, sourceRow, frozenPdf, pinned, revision>>

FetchJob(e) == \/ FetchBegin(e) \/ FetchRegister(e) \/ FetchFails(e) \/ FetchDecides(e)
               \/ \E r \in Revisions : FetchHandsOver(e, r)
ParseJob(e, b) == \/ JobRuns(e, b) \/ JobReads(e, b) \/ JobWrites(e, b) \/ JobPrepares(e, b)
                  \/ JobPublishes(e, b) \/ JobFails(e, b)
ConvNext ==
    \/ \E e \in Edges :
          \/ \E kind \in {"pdf", "content"} : Resolve(e, kind)
          \/ StartFetch(e) \/ CacheHit(e) \/ CacheMiss(e)
          \/ \E r \in Revisions : Submit(e, r)
          \/ FetchJob(e) \/ Cools(e) \/ EdgeRestarts(e)
          \/ \E b \in PdfEditions : ParseJob(e, b)
    \/ BreakObject \/ LegacyChanges

ConvSpec == ConvInit /\ [][ConvNext]_convVars

-----------------------------------------------------------------------------
(* Properties. *)

\* One canonical id means one edition: whatever the legacy store or arXiv
\* deliver later, and whichever edge asks, every bundle written for the id was
\* parsed from the source the id is pinned to, and no job works on another.
OneEdition ==
    /\ \A r \in Revisions : revision[r].src # NoEdition => revision[r].src = pinned
    /\ \A e \in Edges, b \in PdfEditions : parsing[e][b].st # "none" => b = pinned

\* A content request that joined a PDF-only fetch still gets its parse: the
\* fetch never ends as done while someone it answered 202 wants the content.
JoinedFetchParses == \A e \in Edges : fetching[e].st = "done" => ~fetching[e].content

\* PublishBundle "verifies all persisted objects before atomically registering":
\* a revision becomes visible only while its PDF and all its files are intact,
\* and it is then the only current one.
PublishedWhole ==
    [][\A r \in Revisions :
          revision'[r].published /\ ~revision[r].published =>
             /\ Intact(r)
             /\ \A q \in Revisions : revision'[q].current => q = r]_convVars

\* The bundles of an id are of one edition, each was whole when it became visible,
\* and whoever was promised one gets it parsed.
EditionsSound == [](OneEdition /\ JoinedFetchParses) /\ PublishedWhole
=============================================================================
