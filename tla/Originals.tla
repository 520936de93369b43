----------------------------- MODULE Originals ------------------------------
(***************************************************************************)
(* The block originals of a paper (internal/routes/papers_blocks.go,         *)
(* papers_parses.go, papers_sources.go, papers_bundle_files.go): a client    *)
(* lists the sources and parses, walks the blocks of one parse page by page, *)
(* opens a block at its position, its crop and the parse itself, while       *)
(* parses are published and stored objects are lost or damaged.  What an     *)
(* artifact says is read by internal/mineru/middlejson.go and native.go.     *)
(***************************************************************************)
EXTENDS Integers, Sequences, SequencesExt, FiniteSets

CONSTANTS
    DeskClients,   \* clients, one request at a time each
    Parses,        \* parse revisions that may be published
    Artifact,      \* parse -> its Middle JSON: [schema, version, layout, blocks]
    SourceOf,      \* parse -> the source it was made from
    PdfPages,      \* source -> the pages of its PDF
    PerPage,       \* the per_page values the clients use
    Renderer,      \* whether the server has a rasterizer
    MaxVisits,     \* bound: requests of one client
    MaxLost        \* bound: objects lost or damaged

Sources  == {SourceOf[p] : p \in Parses}
NoParse  == "no parse"
NoPage   == -1         \* no page_idx filter; a block without page_idx
NoIndex  == -1         \* an index that is no number
Anywhere == <<NoPage, 0>>

ASSUME OriginalsConfig ==
    /\ NoParse \notin Parses /\ Renderer \in BOOLEAN /\ {MaxVisits, MaxLost} \subseteq Nat
    /\ PerPage \subseteq Nat \ {0} /\ PdfPages \in [Sources -> Nat]
    /\ \A p \in Parses : \A i \in DOMAIN Artifact[p].blocks :
          LET b == Artifact[p].blocks[i]
          IN  /\ b.page \in Nat \cup {NoPage} /\ b.index \in Nat \cup {NoIndex}
              /\ b.bbox \in {"none", "good", "bad"} /\ b.discarded \in BOOLEAN

-----------------------------------------------------------------------------
(* Reading an artifact.                                                      *)

BlocksIn(a)  == {a.blocks[i] : i \in DOMAIN a.blocks}
validateMiddleBlock(b) == b.bbox # "bad"

\* The flat layout: every block has its page and an index counted from 1.
FlatValid(a) ==
    \A b \in BlocksIn(a) : b.page # NoPage /\ b.index >= 1 /\ validateMiddleBlock(b)
\* The paged layout: blocks inherit the page and count from 0.
PagesValid(a) == \A b \in BlocksIn(a) : b.index # NoIndex /\ validateMiddleBlock(b)
\* MinerU's own layout: no index twice on a page; a bad bbox is only dropped.
parseNativeMiddle(a) ==
    /\ \A b \in BlocksIn(a) : b.index # NoIndex
    /\ \A i, j \in DOMAIN a.blocks :
          i # j => <<a.blocks[i].page, a.blocks[i].index>> # <<a.blocks[j].page, a.blocks[j].index>>
nativeBBox(b) == IF b.bbox = "good" THEN "good" ELSE "none"

\* The public number of a block: counted from 1 whatever the producer does.
PublicIndex(a, b) == IF a.layout = "flat" THEN b.index ELSE b.index + 1

\* ParseMiddleJSON: an artifact that names another schema, or a version that
\* is not supported, is never read as blocks.
ParseMiddleJSON(a) ==
    \/ a.schema = "none" /\ a.layout = "native" /\ parseNativeMiddle(a)
    \/ a.schema = "docvortex" /\ a.version /\ a.layout = "flat" /\ FlatValid(a)
    \/ a.schema = "docvortex" /\ a.version /\ a.layout = "pages" /\ PagesValid(a)
\* The blocks as the document lists them: native pages put the discarded last.
Document(a) ==
    LET norm(b) == [page |-> b.page, index |-> PublicIndex(a, b),
                    bbox |-> IF a.layout = "native" THEN nativeBBox(b) ELSE b.bbox]
        kept    == SelectSeq(a.blocks, LAMBDA b : ~b.discarded)
        rest    == SelectSeq(a.blocks, LAMBDA b : b.discarded)
    IN  [i \in DOMAIN a.blocks |-> norm((IF a.layout = "native" THEN kept \o rest ELSE a.blocks)[i])]

Position(b) == <<b.page, b.index>>
After(x, y) == x[1] > y[1] \/ (x[1] = y[1] /\ x[2] > y[2])
OrderedBlocks(doc) == SortSeq(doc, LAMBDA x, y : After(Position(y), Position(x)))
\* Mutant: any block of the page will do.
FindBlockOnPage(doc, at) == SelectSeq(doc, LAMBDA b : b.page = at[1])
FindBlock(doc, at) == SelectSeq(doc, LAMBDA b : Position(b) = at)

\* CropPNG in pixels, for a box in quarters of the page: clamped, never empty.
clampInt(v, lo, hi) == IF v < lo THEN lo ELSE IF v > hi THEN hi ELSE v
CropPNG(width, from, to) ==
    LET x0 == clampInt((from * width) \div 4, 0, width - 1)
    IN  <<x0, clampInt((to * width) \div 4, x0 + 1, width)>>

-----------------------------------------------------------------------------
VARIABLES
    parseRow,    \* the parse_revisions rows
    bundleRow,   \* those with a parse_bundles row: published whole
    currentRow,  \* the current revision
    artifactAt,  \* each parse's stored artifact: "absent", "good", "damaged"
    pdfAt,       \* each source's stored PDF
    desk,        \* each client's request and what it has been answered
    lost

origVars == <<parseRow, bundleRow, currentRow, artifactAt, pdfAt, desk, lost>>
stock    == <<parseRow, bundleRow, currentRow, artifactAt, pdfAt, lost>>

\* at: the request's stage; found: what the handler has read so far; walk: the
\* positions listed so far, from the top of one parse.
AtDesk == [at |-> "idle", kind |-> "none", parse |-> NoParse, place |-> Anywhere, per |-> 1,
           walk |-> <<>>, ended |-> FALSE, listed |-> {}, read |-> {}, answer |-> "none", visits |-> 0]

OrigTypeOK ==
    /\ bundleRow \subseteq parseRow /\ parseRow \subseteq Parses
    /\ currentRow \in parseRow \cup {NoParse}
    /\ artifactAt \in [Parses -> {"absent", "good", "damaged"}]
    /\ pdfAt \in [Sources -> {"absent", "good", "damaged"}] /\ lost \in 0 .. MaxLost
    /\ \A c \in DeskClients :
          /\ desk[c].at \in {"idle", "asked", "row", "verified", "opened", "sources"}
          /\ desk[c].parse \in Parses \cup {NoParse}
          /\ desk[c].answer \in {"none", "200", "400", "404", "422", "500", "503"}

OrigInit ==
    /\ parseRow = {} /\ bundleRow = {} /\ currentRow = NoParse
    /\ artifactAt = [p \in Parses |-> "absent"] /\ pdfAt = [s \in Sources |-> "absent"]
    /\ desk = [c \in DeskClients |-> AtDesk] /\ lost = 0

Serve(c, rec) == desk' = [desk EXCEPT ![c] = rec] /\ UNCHANGED stock
\* 200 with what was read, or an error that carries nothing.
AnswerReader(c, code, read) ==
    Serve(c, IF code = "200" THEN [desk[c] EXCEPT !.at = "idle", !.answer = code, !.read = @ \cup read]
             ELSE [AtDesk EXCEPT !.answer = code, !.visits = desk[c].visits])
On(c, at, kinds) == desk[c].at = at /\ desk[c].kind \in kinds

\* dispatchBlockOriginalsGET: a parse, its json, a position, a crop.
dispatchBlockOriginalsGET(c, kind, p, place, per) ==
    /\ desk[c].at = "idle" /\ desk[c].visits < MaxVisits
    /\ Serve(c, [AtDesk EXCEPT !.at = "asked", !.kind = kind, !.parse = p, !.place = place,
                               !.per = per, !.visits = desk[c].visits + 1])
\* The next page: the cursor is the position of the last block listed.
FollowCursor(c) ==
    /\ desk[c].at = "idle" /\ desk[c].kind = "list" /\ desk[c].answer = "200" /\ ~desk[c].ended
    /\ desk[c].visits < MaxVisits
    /\ Serve(c, [desk[c] EXCEPT !.at = "asked", !.answer = "none", !.visits = @ + 1])

\* parsePageBlockSegments.
BadPlace(q) == q.kind \in {"block", "image"} /\ (q.place[1] < 0 \/ q.place[2] < 1)
\* loadParseDoc, and paperParseJSONHandler: the revision's row first ...
GetParseRevision(c) ==
    /\ desk[c].at = "asked"
    /\ IF BadPlace(desk[c]) THEN AnswerReader(c, "400", {})
       ELSE IF desk[c].parse \notin parseRow THEN AnswerReader(c, "404", {})
       ELSE Serve(c, [desk[c] EXCEPT !.at = "row"])
\* ... a published bundle is verified whole (pinnedContentBundle) ...
verifiedContentBundle(p) ==
    artifactAt[p] = "good" /\ pdfAt[SourceOf[p]] = "good" /\ ParseMiddleJSON(Artifact[p])
PinBundle(c) ==
    /\ desk[c].at = "row"
    /\ IF desk[c].kind = "file" /\ desk[c].parse \notin bundleRow THEN AnswerReader(c, "404", {})
       ELSE IF desk[c].parse \in bundleRow /\ ~verifiedContentBundle(desk[c].parse)
       THEN AnswerReader(c, "422", {})
       ELSE Serve(c, [desk[c] EXCEPT !.at = "verified"])
\* ... and the object is read again and its digest compared.
blockReadVerified(at) == at = "good"
loadParseDoc(c) ==
    LET p == desk[c].parse
    IN  /\ On(c, "verified", {"list", "block", "image"})
        /\ IF artifactAt[p] = "absent" THEN AnswerReader(c, "404", {})
           ELSE IF ~blockReadVerified(artifactAt[p]) THEN AnswerReader(c, "500", {})
           ELSE IF ~ParseMiddleJSON(Artifact[p]) THEN AnswerReader(c, "422", {})
           ELSE Serve(c, [desk[c] EXCEPT !.at = "opened", !.read = {artifactAt[p]}])
\* The parse itself; of a published bundle, as one of its members.
paperParseJSONHandler(c) ==
    LET p == desk[c].parse
    IN  /\ On(c, "verified", {"json"}) /\ p \notin bundleRow
        /\ AnswerReader(c, IF artifactAt[p] = "absent" THEN "404"
                           ELSE IF ~blockReadVerified(artifactAt[p]) THEN "500" ELSE "200", {artifactAt[p]})
paperBundleFileHandler(c) ==
    LET p == desk[c].parse
    IN  /\ On(c, "verified", {"json", "file"}) /\ p \in bundleRow
        /\ AnswerReader(c, IF artifactAt[p] = "absent" THEN "404"
                           ELSE IF ~blockReadVerified(artifactAt[p]) THEN "422" ELSE "200", {artifactAt[p]})

\* What paperBlocksListHandler lists: the page asked for, after the cursor.
Selected(q) == SelectSeq(OrderedBlocks(Document(Artifact[q.parse])),
                         LAMBDA b : q.place[1] = NoPage \/ b.page = q.place[1])
Past(q, b) == q.walk = <<>> \/ After(Position(b), Last(q.walk))
paperBlocksListHandler(c) ==
    LET q    == desk[c]
        left == SelectSeq(Selected(q), LAMBDA b : Past(q, b))
        page == SubSeq(left, 1, IF Len(left) > q.per THEN q.per ELSE Len(left))
    IN  /\ On(c, "opened", {"list"})
        /\ Serve(c, [q EXCEPT !.at = "idle", !.answer = "200", !.ended = Len(left) <= q.per,
                              !.walk = @ \o [i \in DOMAIN page |-> Position(page[i])]])

\* paperBlockGetHandler: the exact position or nothing, with its source.
paperBlockGetHandler(c) ==
    /\ On(c, "opened", {"block"})
    /\ AnswerReader(c, IF FindBlock(Document(Artifact[desk[c].parse]), desk[c].place) = <<>>
                 THEN "404" ELSE "200", {})
\* The rasterizer, on the page of the block.
RenderCropPNG(s, page) ==
    IF ~Renderer THEN "503" ELSE IF page >= PdfPages[s] THEN "404" ELSE "200"
\* paperBlockImageHandler: cropped from the source the parse was made from.
paperBlockImageHandler(c) ==
    LET q     == desk[c]
        found == FindBlock(Document(Artifact[q.parse]), q.place)
        pdf   == pdfAt[SourceOf[q.parse]]
    IN  /\ On(c, "opened", {"image"})
        /\ AnswerReader(c, IF found = <<>> \/ found[1].bbox = "none" \/ pdf = "absent" THEN "404"
                           ELSE IF ~blockReadVerified(pdf) THEN "500"
                           ELSE RenderCropPNG(SourceOf[q.parse], q.place[1]), {pdf})

\* paperSourcesListHandler: the sources, then the revisions for the current one.
ListPaperSources(c) ==
    /\ desk[c].at = "idle" /\ desk[c].visits < MaxVisits
    /\ Serve(c, [AtDesk EXCEPT !.at = "sources", !.kind = "sources", !.visits = desk[c].visits + 1,
                               !.listed = {s \in Sources : pdfAt[s] # "absent"}])
paperSourcesListHandler(c) ==
    /\ desk[c].at = "sources"
    /\ Serve(c, [desk[c] EXCEPT !.at = "idle", !.answer = "200", !.parse = currentRow])

paperParsesListHandler(c) ==
    /\ desk[c].at = "idle" /\ desk[c].visits < MaxVisits
    /\ Serve(c, [AtDesk EXCEPT !.kind = "parses", !.answer = "200", !.parse = currentRow,
                               !.listed = parseRow, !.visits = desk[c].visits + 1])
\* A source's own PDF: the bytes the row names, or an error.
paperSourcePDFHandler(c, s) ==
    /\ desk[c].at = "idle" /\ desk[c].visits < MaxVisits /\ desk[c].kind = "sources"
    /\ Serve(c, [AtDesk EXCEPT !.visits = desk[c].visits + 1,
                               !.answer = IF pdfAt[s] = "absent" THEN "404"
                                          ELSE IF blockReadVerified(pdfAt[s]) THEN "200" ELSE "500"])

-----------------------------------------------------------------------------
(* Meanwhile.                                                                *)

\* A conversion freezes its source and stores its artifact, then publishes.
StoreObjects(p) ==
    /\ artifactAt[p] = "absent" /\ p \notin parseRow
    /\ artifactAt' = [artifactAt EXCEPT ![p] = "good"]
    /\ pdfAt' = [pdfAt EXCEPT ![SourceOf[p]] = IF @ = "absent" THEN "good" ELSE @]
    /\ UNCHANGED <<parseRow, bundleRow, currentRow, desk, lost>>
PublishParse(p, whole) ==
    /\ p \notin parseRow /\ artifactAt[p] = "good" /\ pdfAt[SourceOf[p]] = "good"
    /\ whole => ParseMiddleJSON(Artifact[p])
    /\ parseRow' = parseRow \cup {p} /\ currentRow' = p
    /\ bundleRow' = IF whole THEN bundleRow \cup {p} ELSE bundleRow
    /\ UNCHANGED <<artifactAt, pdfAt, desk, lost>>
LoseObject(p, how) ==
    /\ lost < MaxLost /\ lost' = lost + 1
    /\ \/ artifactAt[p] = "good" /\ artifactAt' = [artifactAt EXCEPT ![p] = how] /\ UNCHANGED pdfAt
       \/ pdfAt[SourceOf[p]] = "good" /\ pdfAt' = [pdfAt EXCEPT ![SourceOf[p]] = how]
          /\ UNCHANGED artifactAt
    /\ UNCHANGED <<parseRow, bundleRow, currentRow, desk>>
DeskClosed == (\A c \in DeskClients : desk[c].visits = MaxVisits) /\ UNCHANGED origVars

PagesIn(p) == {b.page : b \in BlocksIn(Artifact[p])}
\* Where readers look: at a block, just past it, nowhere.
PlacesIn(p) == {<<b.page, b.index + i>> : b \in BlocksIn(Artifact[p]), i \in {0, 1}} \cup {Anywhere}
OrigNext ==
    \/ \E c \in DeskClients :
          \/ \E p \in Parses, kind \in {"block", "image"} : \E place \in PlacesIn(p) :
                dispatchBlockOriginalsGET(c, kind, p, place, 1)
          \/ \E p \in Parses, per \in PerPage : \E page \in PagesIn(p) \cup {NoPage} :
                dispatchBlockOriginalsGET(c, "list", p, <<page, 0>>, per)
          \/ \E p \in Parses, kind \in {"json", "file"} :
                dispatchBlockOriginalsGET(c, kind, p, Anywhere, 1)
          \/ FollowCursor(c) \/ GetParseRevision(c) \/ PinBundle(c) \/ loadParseDoc(c)
          \/ paperParseJSONHandler(c) \/ paperBundleFileHandler(c) \/ paperBlocksListHandler(c)
          \/ paperBlockGetHandler(c) \/ paperBlockImageHandler(c) \/ ListPaperSources(c)
          \/ paperSourcesListHandler(c) \/ paperParsesListHandler(c)
          \/ \E s \in Sources : paperSourcePDFHandler(c, s)
    \/ \E p \in Parses :
          \/ StoreObjects(p) \/ \E whole \in BOOLEAN : PublishParse(p, whole)
          \/ \E how \in {"absent", "damaged"} : LoseObject(p, how)
    \/ DeskClosed

OrigSpec == OrigInit /\ [][OrigNext]_origVars

-----------------------------------------------------------------------------
\* The positions the producer meant, and those of them a list asks for.
Meant(p) ==
    {<<b.page, IF Artifact[p].layout = "flat" THEN b.index ELSE b.index + 1>> : b \in BlocksIn(Artifact[p])}
MeantIn(q) == {x \in Meant(q.parse) : q.place[1] \in {NoPage, x[1]}}

(* What a client may conclude from an answer.  Following the cursor lists    *)
(* every block of the selected pages of that parse once and in order,        *)
(* whatever is published or lost between the pages (papers_blocks.go,        *)
(* "stable keyset order"); every position it lists can be opened, and a      *)
(* position that is not there is never answered with a neighbour             *)
(* (middlejson.go, "callers MUST 404"); a crop shows a block with a bbox,    *)
(* on a page of the source the parse was made from, and has at least one     *)
(* pixel; an artifact that cannot be read is never answered as blocks,       *)
(* damaged bytes are never answered at all, and the current parse is one of  *)
(* the parses listed with it.                                                *)
AnchorsFaithful ==
    \A c \in DeskClients :
          LET q == desk[c] IN
          /\ q.kind = "list" /\ q.answer = "200" =>
                /\ \A i \in DOMAIN q.walk :
                      /\ q.walk[i] \in MeantIn(q)
                      /\ Cardinality({x \in MeantIn(q) : After(q.walk[i], x)}) = i - 1
                /\ q.ended => Len(q.walk) = Cardinality(MeantIn(q))
          /\ q.kind \in {"block", "image"} /\ q.answer = "200" => q.place \in Meant(q.parse)
          /\ q.kind = "image" /\ q.answer = "200" =>
                /\ q.place[1] < PdfPages[SourceOf[q.parse]]
                /\ \E b \in BlocksIn(Artifact[q.parse]) : b.page = q.place[1] /\ b.bbox = "good"
                /\ \A w \in 1 .. 5, from \in 0 .. 4 : \A to \in from .. 4 :
                      LET crop == CropPNG(w, from, to) IN 0 <= crop[1] /\ crop[1] < crop[2] /\ crop[2] <= w
          /\ q.kind \in {"list", "block", "image"} /\ q.answer = "200" =>
                ParseMiddleJSON(Artifact[q.parse]) /\ q.parse \in parseRow
          /\ q.answer = "200" => q.read \subseteq {"good"}
          /\ q.kind = "parses" /\ q.parse # NoParse => q.parse \in q.listed
=============================================================================
