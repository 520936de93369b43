------------------------------- MODULE Reading -------------------------------
(***************************************************************************)
(* The reading routes (internal/routes/papers_read.go and its neighbours,    *)
(* internal/paperread): a request names a paper, and perhaps a source, an     *)
(* arXiv version, a parse revision or a cursor; the handler resolves it in    *)
(* several catalog and storage calls and answers content or an error.  While  *)
(* requests run, papers are merged, sources and revisions appear, legacy PDFs *)
(* are imported and stored objects are damaged.                              *)
(***************************************************************************)
EXTENDS Integers, Sequences, FiniteSets, FiniteSetsExt

CONSTANTS
    Visitors,        \* clients, one request at a time each
    ShelfSources,    \* sources that may come to exist
    PaperOf,         \* the paper row each source belongs to: "p" or "q"
    OriginOf,        \* its origin: 0 published, n arXiv version n
    ShelfRevisions,  \* revisions that may be published: numbers, oldest first
    ParsedFrom,      \* the source each revision is parsed from
    BlocksOf,        \* the length of each rendered block of a revision
    WindowLimit,     \* the reader's limit on a window
    MaxPieces,       \* bound: windows one client asks for in a row
    MaxMishaps,      \* bound: damaged objects
    Unset            \* no pin, no source

ASSUME ReadingConfig ==
    /\ WindowLimit \in Nat \ {0} /\ MaxPieces \in Nat \ {0} /\ MaxMishaps \in Nat
    /\ ShelfRevisions \subseteq Nat /\ Unset \notin ShelfSources \cup ShelfRevisions
    /\ PaperOf \in [ShelfSources -> {"p", "q"}] /\ OriginOf \in [ShelfSources -> Nat]
    /\ ParsedFrom \in [ShelfRevisions -> ShelfSources] /\ BlocksOf \in [ShelfRevisions -> Seq(Nat)]

Works == {"p", "q"}
Versions == {OriginOf[s] : s \in ShelfSources} \ {0}
ShelfEditions == Versions \cup {0}

VARIABLES
    mergedQ,     \* paper q is merged into p
    shelf,       \* sources in paper_sources
    imports,     \* import mapping: the source bound to the asset key of an edition
    legacyKeys,      \* (paper, edition) pairs whose PDF lies at the old asset key only
    published,   \* published revisions
    spoilt,      \* sources and revisions whose stored bytes are damaged
    visit        \* each client's request and what it has been answered

reaVars == <<mergedQ, shelf, imports, legacyKeys, published, spoilt, visit>>

NoCursor == [rev |-> Unset, block |-> 0, offset |-> 0]
Home == [at |-> "home", kind |-> "none", by |-> "qa", work |-> "p", source |-> Unset, version |-> 0,
         rev |-> Unset, cursor |-> NoCursor, paper |-> "p", bundle |-> Unset,
         chosen |-> Unset, pieces |-> <<>>]

\* A window of the text; the PDF; or one whole object of a bundle (status,
\* markdown, images, figures, manifest, member, block).
Kinds == {"read", "whole", "pdf"}

ReaTypeOK ==
    /\ mergedQ \in BOOLEAN /\ shelf \subseteq ShelfSources /\ published \subseteq ShelfRevisions
    /\ imports \in [Works \X ShelfEditions -> ShelfSources \cup {Unset}]
    /\ legacyKeys \subseteq Works \X ShelfEditions
    /\ \A v \in Visitors :
          /\ visit[v].at \in {"home", "asked", "pinned", "chosen", "probed", "answered"}
          /\ visit[v].kind \in Kinds \cup {"none"} /\ visit[v].by \in {"qa", "arxiv", "doi"}
          /\ visit[v].chosen \in ShelfSources \cup {Unset}
          /\ visit[v].bundle \in ShelfRevisions \cup {Unset}
          /\ Len(visit[v].pieces) <= MaxPieces

\* Some PDFs of the papers are there from before sources were frozen.
ReaInit ==
    /\ mergedQ = FALSE /\ shelf = {} /\ published = {} /\ spoilt = {}
    /\ imports = [pe \in Works \X ShelfEditions |-> Unset]
    /\ legacyKeys \in SUBSET {<<PaperOf[s], OriginOf[s]>> : s \in ShelfSources}
    /\ visit = [v \in Visitors |-> Home]

-----------------------------------------------------------------------------
(* Asking.                                                                   *)

VisitNow(v, rec) == visit' = [visit EXCEPT ![v] = rec]
VisitTo(v, at) == VisitNow(v, [visit[v] EXCEPT !.at = at])
\* An error, or 202 and a location to poll.
Refuse(v) == VisitNow(v, Home)
Shelves == <<mergedQ, shelf, imports, legacyKeys, published, spoilt>>

\* dispatchContentGET and dispatchBlockOriginalsGET: the action, the id in one
\* of its forms, and the pins, in the path or the query.
Dispatch(v, kind, by, work, source, version, rev) ==
    /\ visit[v].at = "home"
    /\ kind = "pdf" => rev = Unset
    /\ VisitNow(v, [Home EXCEPT !.at = "asked", !.kind = kind, !.by = by, !.work = work,
                                !.source = source, !.version = version, !.rev = rev])
    /\ UNCHANGED Shelves
\* The client follows next_request: the cursor and nothing else.
FollowNext(v) ==
    /\ visit[v].at = "answered" /\ visit[v].kind = "read"
    /\ visit[v].cursor # NoCursor /\ Len(visit[v].pieces) < MaxPieces
    /\ VisitNow(v, [Home EXCEPT !.at = "asked", !.kind = "read", !.by = visit[v].by,
                                !.work = visit[v].work, !.cursor = visit[v].cursor,
                                !.pieces = visit[v].pieces])
    /\ UNCHANGED Shelves
Depart(v) ==
    /\ visit[v].at = "answered" /\ VisitNow(v, Home) /\ UNCHANGED Shelves

-----------------------------------------------------------------------------
(* Resolving.                                                                *)

\* resolveCanonicalPaper: the identity rows of a merged paper name the
\* survivor, and merged_into is followed.
Canonical(work) == IF mergedQ THEN "p" ELSE work

\* selectReadingSource and pinnedContentBundle, up to the pinned bundle: a
\* cursor's pins replace the query's before anything current is looked at.
PinnedRevision(q) == IF q.cursor # NoCursor THEN q.cursor.rev ELSE q.rev
PinRevision(v) ==
    LET q == visit[v]  rev == PinnedRevision(q)  paper == Canonical(q.work) IN
    /\ q.at = "asked"
    /\ IF rev = Unset
       THEN VisitNow(v, [q EXCEPT !.at = "pinned"])
       ELSE IF rev \notin published \/ PaperOf[ParsedFrom[rev]] # paper
               \/ (q.source # Unset /\ q.source # ParsedFrom[rev])
            THEN Refuse(v)
            ELSE VisitNow(v, [q EXCEPT !.at = "pinned", !.paper = paper, !.bundle = rev,
                                       !.source = ParsedFrom[rev]])
    /\ UNCHANGED Shelves

\* sourceForAccess, with a source pinned.  A version asked for as well must be
\* the source's own, or proven by the import mapping.
SourcePinHolds(q, paper) ==
    /\ q.source \in shelf /\ PaperOf[q.source] = paper
    /\ \/ q.version = 0 \/ OriginOf[q.source] = q.version
       \/ imports[<<paper, q.version>>] = q.source
SelectPinned(v) ==
    LET q == visit[v]  paper == Canonical(q.work) IN
    /\ q.at = "pinned" /\ q.source # Unset
    /\ IF SourcePinHolds(q, paper)
       THEN VisitNow(v, [q EXCEPT !.at = "chosen", !.paper = paper, !.chosen = q.source])
       ELSE Refuse(v)
    /\ UNCHANGED Shelves

\* The edition whose import mapping is authoritative for this request.
AliasOf(q) == IF q.version # 0 THEN {q.version} ELSE IF q.by = "doi" THEN {0} ELSE {}
Imported(q, paper) == {imports[<<paper, e>>] : e \in AliasOf(q)} \ {Unset}
\* A variant: the version only orders the candidates.
RankVersionHint(q, e) ==
    IF q.version # 0 /\ e = q.version THEN 2000
    ELSE IF q.by = "arxiv" /\ e = 0 THEN -1
    ELSE IF e = 0 THEN 1000 ELSE e
\* rankSource, for a source or a legacy asset of edition e.
Rank(q, e) ==
    IF q.version # 0 THEN (IF e = q.version THEN e ELSE -1)
    ELSE IF q.by = "arxiv" /\ e = 0 THEN -1
    ELSE IF e = 0 THEN 1000 ELSE e
Ranked(q, es) == {e \in es : Rank(q, e) >= 0 /\ \A f \in es : Rank(q, f) <= Rank(q, e)}
Shelved(paper) == {s \in shelf : PaperOf[s] = paper}
SelectImported(v) ==
    LET q == visit[v]  paper == Canonical(q.work) IN
    /\ q.at = "pinned" /\ q.source = Unset
    /\ \E s \in Imported(q, paper) :
          VisitNow(v, [q EXCEPT !.at = "chosen", !.paper = paper, !.chosen = s])
    /\ UNCHANGED Shelves
\* The best ranked source, unless a legacy asset outranks it.
SelectRanked(v) ==
    LET q == visit[v]  paper == Canonical(q.work)
        here == {OriginOf[s] : s \in Shelved(paper)}
        old == {e \in ShelfEditions : <<paper, e>> \in legacyKeys}
    IN /\ q.at = "pinned" /\ q.source = Unset /\ Imported(q, paper) = {}
       /\ \E e \in Ranked(q, here \cup old) :
             /\ e \in here
             /\ \E s \in Shelved(paper) : OriginOf[s] = e /\
                   VisitNow(v, [q EXCEPT !.at = "chosen", !.paper = paper, !.chosen = s])
       /\ UNCHANGED Shelves
\* RegisterFrozenPaperSource and BindPaperSourceImport: the legacy PDF is
\* frozen as a source and bound to the edition's key, unless the key has one.
ImportLegacy(v) ==
    LET q == visit[v]  paper == Canonical(q.work)
        here == {OriginOf[s] : s \in Shelved(paper)}
        old == {e \in ShelfEditions : <<paper, e>> \in legacyKeys}
    IN /\ q.at = "pinned" /\ q.source = Unset /\ Imported(q, paper) = {}
       /\ \E e \in Ranked(q, here \cup old), s \in ShelfSources :
             /\ e \in old \ here /\ PaperOf[s] = paper /\ OriginOf[s] = e
             /\ IF imports[<<paper, e>>] = Unset
                THEN shelf' = shelf \cup {s} /\ imports' = [imports EXCEPT ![<<paper, e>>] = s]
                ELSE UNCHANGED <<shelf, imports>>
             /\ VisitNow(v, [q EXCEPT !.at = "chosen", !.paper = paper,
                                      !.chosen = imports'[<<paper, e>>]])
       /\ UNCHANGED <<mergedQ, legacyKeys, published, spoilt>>
\* Nothing to select: 404, or a fetch is started and the answer is 202.
NothingSelected(v) ==
    LET q == visit[v]  paper == Canonical(q.work) IN
    /\ q.at = "pinned" /\ q.source = Unset /\ Imported(q, paper) = {}
    /\ Ranked(q, {OriginOf[s] : s \in Shelved(paper)}
                 \cup {e \in ShelfEditions : <<paper, e>> \in legacyKeys}) = {}
    /\ Refuse(v) /\ UNCHANGED Shelves

-----------------------------------------------------------------------------
(* Answering.                                                                *)

\* GetReadyParseBundle: the newest revision of the source, if it is intact.
Newest(s) == {r \in published : ParsedFrom[r] = s /\ \A x \in published :
                                    ParsedFrom[x] = s => x <= r}
\* readyContent and contentReadStatusHandler: the pinned bundle or the newest.
\* Without one a conversion is started and the answer is 202.
ReadyContent(v) ==
    LET q == visit[v] IN
    /\ q.at = "chosen" /\ q.kind # "pdf"
    /\ IF q.bundle # Unset THEN VisitTo(v, "probed")
       ELSE \/ \E r \in Newest(q.chosen) \ spoilt :
                  VisitNow(v, [q EXCEPT !.at = "probed", !.bundle = r])
            \/ Newest(q.chosen) \subseteq spoilt /\ Refuse(v)
    /\ UNCHANGED Shelves
\* verifiedContentBundle: the bundle is of this paper, source and PDF, and
\* every stored byte of both matches its hash.
BundleVerified(q) ==
    /\ ParsedFrom[q.bundle] = q.chosen /\ PaperOf[q.chosen] = q.paper
    /\ {q.bundle, q.chosen} \cap spoilt = {}
Corrupt(v) ==
    /\ visit[v].at = "probed" /\ ~BundleVerified(visit[v])
    /\ Refuse(v) /\ UNCHANGED Shelves
\* The handlers that answer one whole object.
AnswerWhole(v) ==
    /\ visit[v].at = "probed" /\ visit[v].kind # "read" /\ BundleVerified(visit[v])
    /\ VisitTo(v, "answered") /\ UNCHANGED Shelves
\* serveSourcePDF: the persisted bytes are verified first.
ServeSourcePDF(v) ==
    /\ visit[v].at = "chosen" /\ visit[v].kind = "pdf"
    /\ IF visit[v].chosen \in spoilt THEN Refuse(v) ELSE VisitTo(v, "answered")
    /\ UNCHANGED Shelves

\* Read: whole blocks while they fit; a first block that does not is cut in
\* the second half of the limit (softCut).
Taken(r, at, last) ==
    MapThenSumSet(LAMBDA i : BlocksOf[r][i], at.block .. last) - at.offset
Fitting(r, at) == {i \in at.block .. Len(BlocksOf[r]) : Taken(r, at, i) <= WindowLimit}
TopOfText == [block |-> 1, offset |-> 0]
\* A variant: the next window begins after the block that did not fit.
AfterWindowSkips(r, at) ==
    IF Fitting(r, at) # {} THEN {[block |-> Max(Fitting(r, at)) + 2, offset |-> 0]}
    ELSE {[block |-> at.block, offset |-> at.offset + n] : n \in (WindowLimit \div 2 + 1) .. WindowLimit}
AfterWindow(r, at) ==
    IF Fitting(r, at) # {} THEN {[block |-> Max(Fitting(r, at)) + 1, offset |-> 0]}
    ELSE {[block |-> at.block, offset |-> at.offset + n] : n \in (WindowLimit \div 2 + 1) .. WindowLimit}
\* The text from one position to another: block and place in it.
Span(r, from, to) ==
    {x \in (1 .. Len(BlocksOf[r])) \X (0 .. 9) :
        /\ x[2] < BlocksOf[r][x[1]]
        /\ x[1] > from.block \/ (x[1] = from.block /\ x[2] >= from.offset)
        /\ x[1] < to.block \/ (x[1] = to.block /\ x[2] < to.offset)}
StartOf(q) == IF q.cursor = NoCursor THEN TopOfText
              ELSE [block |-> q.cursor.block, offset |-> q.cursor.offset]
\* contentReadHandler; makeNext pins paper, source, revision and hashes.  Read
\* cuts only what the window takes: the text up to the last block that fits.
ReadWindow(v) ==
    LET q == visit[v]  from == StartOf(q) IN
    /\ q.at = "probed" /\ q.kind = "read" /\ BundleVerified(q)
    /\ \E next \in AfterWindow(q.bundle, from) :
          LET end == IF Fitting(q.bundle, from) # {}
                     THEN [block |-> Max(Fitting(q.bundle, from)) + 1, offset |-> 0] ELSE next
          IN VisitNow(v, [q EXCEPT
                !.at = "answered",
                !.pieces = Append(@, [rev |-> q.bundle, text |-> Span(q.bundle, from, end),
                                      last |-> next.block > Len(BlocksOf[q.bundle])]),
                !.cursor = IF next.block > Len(BlocksOf[q.bundle]) THEN NoCursor
                           ELSE [rev |-> q.bundle, block |-> next.block, offset |-> next.offset]])
    /\ UNCHANGED Shelves

-----------------------------------------------------------------------------
(* What happens meanwhile.                                                   *)

\* mergeInto: neither sources nor revisions are re-pointed.
MergeWorks ==
    /\ ~mergedQ /\ mergedQ' = TRUE
    /\ UNCHANGED <<shelf, imports, legacyKeys, published, spoilt, visit>>
\* A download, an upload or a conversion freezes a source and binds its key.
Shelve(s) ==
    /\ s \notin shelf /\ Canonical(PaperOf[s]) = PaperOf[s] /\ shelf' = shelf \cup {s}
    /\ \/ imports' = [imports EXCEPT ![<<PaperOf[s], OriginOf[s]>>] =
                         IF @ = Unset THEN s ELSE @]
       \/ UNCHANGED imports
    /\ UNCHANGED <<mergedQ, legacyKeys, published, spoilt, visit>>
\* A conversion publishes a revision of a source.
PublishRevision(r) ==
    /\ r \notin published /\ ParsedFrom[r] \in shelf /\ published' = published \cup {r}
    /\ \A x \in published : x < r
    /\ UNCHANGED <<mergedQ, shelf, imports, legacyKeys, spoilt, visit>>
Mishap(x) ==
    /\ x \in shelf \cup published /\ x \notin spoilt /\ Cardinality(spoilt) < MaxMishaps
    /\ spoilt' = spoilt \cup {x}
    /\ UNCHANGED <<mergedQ, shelf, imports, legacyKeys, published, visit>>

ReaNext ==
    \/ \E v \in Visitors :
          \/ \E kind \in Kinds, by \in {"qa", "arxiv", "doi"}, work \in Works,
                source \in ShelfSources \cup {Unset}, version \in ShelfEditions,
                rev \in ShelfRevisions \cup {Unset} :
                Dispatch(v, kind, by, work, source, version, rev)
          \/ FollowNext(v) \/ Depart(v) \/ PinRevision(v) \/ SelectPinned(v) \/ SelectImported(v)
          \/ SelectRanked(v) \/ ImportLegacy(v) \/ NothingSelected(v) \/ ReadyContent(v)
          \/ Corrupt(v) \/ AnswerWhole(v) \/ ServeSourcePDF(v) \/ ReadWindow(v)
    \/ MergeWorks \/ \E s \in ShelfSources : Shelve(s)
    \/ \E r \in ShelfRevisions : PublishRevision(r)
    \/ \E x \in ShelfSources \cup ShelfRevisions : Mishap(x)

ReaSpec == ReaInit /\ [][ReaNext]_reaVars

-----------------------------------------------------------------------------
(* Properties.                                                               *)

\* An answer is of what the request pinned: the version asked for (the source
\* is of that version or is bound to its key), the source, the revision; an
\* arXiv id without a version is never answered with the published edition
\* unless its bytes are bound to a key; and a bundle is of the answered source
\* and paper.  However the catalog changes between the handler's calls, a
\* pin is never substituted.
PinsHonoured ==
    \A v \in Visitors : LET q == visit[v] IN
        q.at = "answered" =>
        /\ q.version # 0 => \/ OriginOf[q.chosen] = q.version
                            \/ imports[<<q.paper, q.version>>] = q.chosen
        /\ q.source # Unset => q.chosen = q.source
        /\ q.rev # Unset => q.bundle = q.rev
        /\ q.bundle # Unset => ParsedFrom[q.bundle] = q.chosen
        /\ PaperOf[q.chosen] = q.paper

\* The windows a client gets by following next_request are of one revision,
\* do not overlap and, when there is no next, are the whole document, although
\* newer revisions are published and papers merged between the requests.
ReadingSeamless ==
    \A v \in Visitors : LET ps == visit[v].pieces IN
        /\ \A i, j \in 1 .. Len(ps) :
              i # j => ps[i].rev = ps[j].rev /\ ps[i].text \cap ps[j].text = {}
        /\ \A i \in 1 .. Len(ps) : ps[i].last =>
              UNION {ps[j].text : j \in 1 .. i} = Span(ps[i].rev, TopOfText,
                  [block |-> Len(BlocksOf[ps[i].rev]) + 1, offset |-> 0])

\* A reader gets what was pinned, and by following the cursor all of it.
ReadingSound == PinsHonoured /\ ReadingSeamless
==============================================================================
