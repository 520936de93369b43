------------------------------- MODULE Intake -------------------------------
(***************************************************************************)
(* Contributions to one paper: PDFs and MinerU packages uploaded under its   *)
(* arXiv versions and its DOI (routes/papers_frozen_upload.go,               *)
(* papers_mineru_ingest.go, papers_doi.go), PDFs registered from an external *)
(* URL (papers_external_sources.go), the catalog transactions they run       *)
(* (registry/content_bundles.go, frozen_external_sources.go), and the status *)
(* that is then shown (papers_frozen_status.go).  A request is a sequence of *)
(* transactions: other requests run between two of them.                     *)
(***************************************************************************)
EXTENDS Integers, FiniteSets, Sequences

CONSTANTS
    ArxivVersions,   \* the versions of the paper, numbers from 1
    Pdfs,            \* the byte strings (their SHA-256) contributed
    Contributors,
    ExternalSlots,   \* the slots of externalSourceLimit
    MaxLegacy,       \* bound: editions with a legacy PDF at first
    MaxContributions, \* bound: requests started
    MaxLosses,       \* bound: frozen copies lost, legacy objects overwritten
    NoPdf

Doi       == 0       \* the name of the published edition; arXiv versions are theirs
Elsewhere == -1      \* the origin of an external source
Names     == ArxivVersions \cup {Doi}
Top       == 1000000

ASSUME IntakeConfig ==
    /\ ArxivVersions \subseteq 1 .. 999 /\ IsFiniteSet(ArxivVersions) /\ NoPdf \notin Pdfs
    /\ {ExternalSlots, MaxLegacy, MaxContributions, MaxLosses} \subseteq Nat

VARIABLES
    sourceRows,      \* paper_sources by creation: sha, origin, where ("content" or a legacy key)
    pins,      \* paper_source_imports: the source each canonical key names
    oldPdfs,   \* the mutable legacy object under each canonical key
    copies,    \* the sources whose frozen copy is there and verifies
    assets,    \* paper_assets: the PDF locator of each edition
    parses,    \* published revisions: source, name uploaded under, claimed sha
    work,      \* the request each contributor has under way
    answered,  \* the final answers given
    begun, losses

intakeVars == <<sourceRows, pins, oldPdfs, copies, assets, parses, work, answered, begun, losses>>
catalogSide == <<sourceRows, pins, oldPdfs, copies, assets, parses, losses>>

NoUpload  == [at |-> "none", name |-> Doi, sha |-> NoPdf, claims |-> NoPdf, found |-> FALSE]
NoAssetRow == [sha |-> NoPdf, kept |-> "none"]
Origins  == Names \cup {Elsewhere}

IntakeTypeOK ==
    /\ sourceRows \in Seq([sha : Pdfs, origin : Origins, kept : Names \cup {Elsewhere}])
    /\ pins \in [Names -> Pdfs \cup {NoPdf}] /\ oldPdfs \in [Names -> Pdfs \cup {NoPdf}]
    /\ copies \subseteq Pdfs
    /\ assets \in [Names -> [sha : Pdfs \cup {NoPdf}, kept : {"none", "legacy", "content"}]]
    /\ parses \in Seq([src : Pdfs, name : Names, claims : Pdfs \cup {NoPdf}])
    /\ work \in [Contributors ->
          [at : {"none", "register", "bind", "ends", "locate", "freeze", "import", "alias",
                 "publish", "fetch", "outside"},
           name : Names, sha : Pdfs \cup {NoPdf}, claims : Pdfs \cup {NoPdf}, found : BOOLEAN]]
    /\ begun \in Nat /\ losses \in Nat

\* A paper known from the legacy layout: some PDFs with their locators, and at
\* most one source row that still points at its legacy key.
IntakeInit ==
    /\ oldPdfs \in [Names -> Pdfs \cup {NoPdf}]
    /\ Cardinality({n \in Names : oldPdfs[n] # NoPdf}) <= MaxLegacy
    /\ \E n \in {m \in Names : oldPdfs[m] # NoPdf} \cup {Elsewhere} :
          sourceRows = IF n = Elsewhere THEN <<>> ELSE <<[sha |-> oldPdfs[n], origin |-> n, kept |-> n]>>
    /\ assets = [n \in Names |-> IF oldPdfs[n] = NoPdf THEN NoAssetRow
                                 ELSE [sha |-> oldPdfs[n], kept |-> "legacy"]]
    /\ pins = [n \in Names |-> NoPdf] /\ copies = {} /\ parses = <<>>
    /\ work = [u \in Contributors |-> NoUpload] /\ answered = {} /\ begun = 0 /\ losses = 0

-----------------------------------------------------------------------------
(* The transactions of the catalog, each under the paper's advisory lock.    *)

Content == Elsewhere       \* rows[i].kept: the frozen copy, not a legacy key
RowsOf(s)  == {i \in DOMAIN sourceRows : sourceRows[i].sha = s}
RowOf(s)   == CHOOSE i \in RowsOf(s) : \A j \in RowsOf(s) : i <= j
Known(s)   == RowsOf(s) # {}
Frozen(s)  == Known(s) /\ sourceRows[RowOf(s)].kept = Content

\* freezePaperSource: a frozen source is read from its verified copy only; a
\* legacy one needs its own bytes, supplied or still at its key.
MayFreeze(s, supplied) ==
    /\ Known(s)
    /\ IF Frozen(s) THEN s \in copies ELSE supplied \/ oldPdfs[sourceRows[RowOf(s)].kept] = s

\* moveVerifiedSourceBytes: the row moves to the copy and its old key is pinned.
MoveVerified(s) ==
    /\ copies' = copies \cup {s}
    /\ sourceRows' = [sourceRows EXCEPT ![RowOf(s)].kept = Content]
    /\ pins' = IF Frozen(s) \/ pins[sourceRows[RowOf(s)].kept] # NoPdf THEN pins
               ELSE [pins EXCEPT ![sourceRows[RowOf(s)].kept] = s]

\* registerPDFBytes: known bytes keep their source, new ones get one.
MayRegister(s) == Known(s) => MayFreeze(s, TRUE)
RegisterPDFBytes(s, origin) ==
    IF Known(s) THEN MoveVerified(s)
    ELSE /\ sourceRows' = Append(sourceRows, [sha |-> s, origin |-> origin, kept |-> Content])
         /\ copies' = copies \cup {s} /\ UNCHANGED pins

\* registerFrozenPaperSource for the legacy key of n: the source pinned there,
\* the row that lives there, or the bytes found there; then the key is pinned.
ImportOf(n) ==
    LET here == {i \in DOMAIN sourceRows : sourceRows[i].kept = n}
    IN  IF pins[n] # NoPdf THEN pins[n]
        ELSE IF here # {} THEN sourceRows[CHOOSE i \in here : \A j \in here : i <= j].sha
        ELSE oldPdfs[n]
MayImport(n) ==
    IF pins[n] # NoPdf \/ \E i \in DOMAIN sourceRows : sourceRows[i].kept = n
    THEN MayFreeze(ImportOf(n), FALSE)
    ELSE oldPdfs[n] # NoPdf /\ MayRegister(oldPdfs[n])
ImportLegacy(n) ==
    LET s == ImportOf(n)
    IN  /\ sourceRows' = IF Known(s) THEN [sourceRows EXCEPT ![RowOf(s)].kept = Content]
                   ELSE Append(sourceRows, [sha |-> s, origin |-> n, kept |-> Content])
        /\ copies' = copies \cup {s}
        /\ pins' = [m \in Names |->
                       IF pins[m] = NoPdf /\ (m = n \/ (Known(s) /\ sourceRows[RowOf(s)].kept = m)) THEN s
                       ELSE pins[m]]

\* A variant: the key is rebound to the latest upload.
MayBindAny(s, n) == Frozen(s) /\ s \in copies
\* bindPaperSourceImport: only a frozen source, never in place of other bytes.
MayBind(s, n) == Frozen(s) /\ s \in copies /\ pins[n] \in {NoPdf, s}

-----------------------------------------------------------------------------
(* uploadFrozenPDF.                                                          *)

Reply(u, code, named) ==
    /\ answered' = answered \cup {[code |-> code, name |-> work[u].name, sha |-> work[u].sha,
                                   named |-> named]}
    /\ work' = [work EXCEPT ![u] = NoUpload]
Go(u, step) == work' = [work EXCEPT ![u].at = step]

\* verifyDOIMetadata and strictReject: ?verify=strict needs OpenAlex to know it.
StrictAccepts(strict, verification) == strict => verification = "verified"

\* Validation, staging and the first look at the key.  What is refused here
\* (not a PDF, too large, sha or verification mismatch) leaves nothing behind.
uploadFrozenPDF(u, n, s) ==
    /\ work[u] = NoUpload /\ begun < MaxContributions /\ begun' = begun + 1
    /\ \E strict \in BOOLEAN,
          v \in {"verified", "doi-not-found", "metadata-unavailable", "unconfigured"} :
             n = Doi => StrictAccepts(strict, v)
    /\ \/ /\ pins[n] \notin {NoPdf, s}
          /\ answered' = answered \cup {[code |-> "conflict", name |-> n, sha |-> s,
                                         named |-> pins[n]]}
          /\ UNCHANGED work
       \/ /\ pins[n] \in {NoPdf, s}
          /\ work' = [work EXCEPT ![u] = [NoUpload EXCEPT !.at = "register", !.name = n, !.sha = s,
                                                        !.found = pins[n] = s]]
          /\ UNCHANGED answered
    /\ UNCHANGED catalogSide

\* A source found before is frozen (FreezePaperSource); else the bytes are
\* registered (RegisterFrozenPDF).  Failure is an integrity error.
UploadRegisters(u) ==
    LET w == work[u]
    IN  /\ w.at = "register"
        /\ \/ /\ w.found /\ MayFreeze(w.sha, FALSE) /\ MoveVerified(w.sha)
              /\ work' = [work EXCEPT ![u].at = "ends", ![u].claims = w.sha]
           \/ /\ ~w.found /\ MayRegister(w.sha) /\ RegisterPDFBytes(w.sha, w.name)
              /\ Go(u, "bind")
           \/ /\ IF w.found THEN ~MayFreeze(w.sha, FALSE) ELSE ~MayRegister(w.sha)
              /\ Go(u, "ends") /\ UNCHANGED <<sourceRows, copies, pins>>
        /\ UNCHANGED <<oldPdfs, assets, parses, answered, begun, losses>>

\* BindPaperSourceImport.
UploadBinds(u) ==
    LET w == work[u]
    IN  /\ w.at = "bind"
        /\ IF MayBind(w.sha, w.name)
           THEN /\ pins' = [pins EXCEPT ![w.name] = w.sha]
                /\ work' = [work EXCEPT ![u].at = "ends", ![u].claims = w.sha]
           ELSE Go(u, "ends") /\ UNCHANGED pins
        /\ UNCHANGED <<sourceRows, oldPdfs, copies, assets, parses, answered, begun, losses>>

\* After success (claims is set) the locator is written and the upload
\* answered; after an integrity error the key is looked at again, so that an
\* upload that lost the race answers 409 with the winner.
UploadEnds(u) ==
    LET w == work[u]
    IN  /\ w.at = "ends"
        /\ \/ /\ w.claims = w.sha
              /\ assets' = [assets EXCEPT ![w.name] = [sha |-> w.sha, kept |-> "content"]]
              /\ Reply(u, "stored", w.sha)
           \/ /\ w.claims = NoPdf /\ UNCHANGED assets
              /\ IF pins[w.name] \notin {NoPdf, w.sha} THEN Reply(u, "conflict", pins[w.name])
                 ELSE Reply(u, "failed", NoPdf)
        /\ UNCHANGED <<sourceRows, pins, oldPdfs, copies, parses, begun, losses>>

-----------------------------------------------------------------------------
(* uploadFrozenMinerU and ingestMinerUNewFormat.                             *)

\* The package is complete and parses; the exact source is chosen: the one
\* named by source_id if it is this version's, the one pinned under the name,
\* the newest of this edition, or the legacy PDF.
NewestOf(n) == {i \in DOMAIN sourceRows : /\ sourceRows[i].origin = n
                                    /\ \A j \in DOMAIN sourceRows : sourceRows[j].origin = n => j <= i}
\* sourceVersionMatches, or proven by the pinned key.
OfEdition(s, n) == n = Doi \/ sourceRows[RowOf(s)].origin = n \/ pins[n] = s
\* A variant: any source of the paper may be named.
ProvenAny(s, n) == TRUE
Proven(s, n) == OfEdition(s, n)

ingestMinerUNewFormat(u, n, sourceId, claims) ==
    LET With(s, step) == work' = [work EXCEPT ![u] = [NoUpload EXCEPT !.at = step, !.name = n,
                                                                     !.sha = s, !.claims = claims]]
    IN  /\ \/ sourceId # NoPdf /\ Known(sourceId) /\ Proven(sourceId, n) /\ With(sourceId, "freeze")
           \/ /\ sourceId = NoPdf
              /\ \/ pins[n] # NoPdf /\ With(pins[n], "freeze")
                 \/ /\ pins[n] = NoPdf
                    /\ \E i \in NewestOf(n) : With(sourceRows[i].sha, "locate")
                 \/ /\ pins[n] = NoPdf /\ NewestOf(n) = {} /\ oldPdfs[n] # NoPdf
                    /\ With(NoPdf, "import")
        /\ UNCHANGED <<catalogSide, answered>>

\* The archive is staged in memory and checked; a refusal leaves nothing behind.
uploadFrozenMinerU(u, n, sourceId, claims) ==
    /\ work[u] = NoUpload /\ begun < MaxContributions /\ begun' = begun + 1
    /\ ingestMinerUNewFormat(u, n, sourceId, claims)

\* FreezePaperSource, or RegisterFrozenPaperSource from the legacy key.
ParseFreezes(u) ==
    LET w == work[u]
    IN  /\ \/ /\ w.at \in {"freeze", "locate"} /\ MayFreeze(w.sha, FALSE) /\ MoveVerified(w.sha)
              /\ Go(u, IF w.at = "freeze" THEN "publish" ELSE "alias") /\ UNCHANGED answered
           \/ /\ w.at = "import" /\ MayImport(w.name) /\ ImportLegacy(w.name)
              /\ work' = [work EXCEPT ![u].at = "alias", ![u].sha = ImportOf(w.name)]
              /\ UNCHANGED answered
           \/ /\ \/ w.at \in {"freeze", "locate"} /\ ~MayFreeze(w.sha, FALSE)
                 \/ w.at = "import" /\ ~MayImport(w.name)
              /\ Reply(u, "failed", NoPdf) /\ UNCHANGED <<sourceRows, copies, pins>>
        /\ UNCHANGED <<oldPdfs, assets, parses, begun, losses>>

ParseBinds(u) ==
    LET w == work[u]
    IN  /\ w.at = "alias"
        /\ IF MayBind(w.sha, w.name)
           THEN pins' = [pins EXCEPT ![w.name] = w.sha] /\ Go(u, "publish") /\ UNCHANGED answered
           ELSE Reply(u, "failed", NoPdf) /\ UNCHANGED pins
        /\ UNCHANGED <<sourceRows, oldPdfs, copies, assets, parses, begun, losses>>

\* The claimed pdf_sha256 must be the source's; the bundle is written under a
\* fresh revision and published, which verifies the frozen PDF once more.
ParsePublishes(u) ==
    LET w == work[u]
    IN  /\ w.at = "publish"
        /\ IF w.claims \in {NoPdf, w.sha} /\ w.sha \in copies
           THEN /\ parses' = Append(parses, [src |-> w.sha, name |-> w.name, claims |-> w.claims])
                /\ Reply(u, "parsed", w.sha)
           ELSE Reply(u, "failed", NoPdf) /\ UNCHANGED parses
        /\ UNCHANGED <<sourceRows, pins, oldPdfs, copies, assets, begun, losses>>

-----------------------------------------------------------------------------
(* External sources, and what goes wrong around the requests.                *)

\* externalSourceLimit: a request that finds no slot is answered 503 at once.
SlotFree == Cardinality({w \in Contributors : work[w].at \in {"fetch", "outside"}}) < ExternalSlots
\* A well-formed request with an acceptable URL; any other is answered 400.
paperExternalSourceRegister(u, s) ==
    /\ work[u] = NoUpload /\ begun < MaxContributions /\ begun' = begun + 1 /\ SlotFree
    /\ work' = [work EXCEPT ![u] = [NoUpload EXCEPT !.at = "fetch", !.sha = s]]
    /\ UNCHANGED <<catalogSide, answered>>

\* externalSourceCheckRedirect and externalSourcePinnedDial: at most five hops,
\* each to a host all of whose addresses are public.  Otherwise 422.
ExternalFetch(u, hops, publicOnly) ==
    /\ work[u].at = "fetch"
    /\ IF hops <= 5 /\ publicOnly THEN Go(u, "outside") /\ UNCHANGED answered
       ELSE Reply(u, "failed", NoPdf)
    /\ UNCHANGED <<catalogSide, begun>>

\* RegisterFrozenExternalSource, for the paper the external id resolves to: a
\* source that is known keeps its origin.
RegisterFrozenExternalSource(u) ==
    /\ work[u].at = "outside"
    /\ IF MayRegister(work[u].sha)
       THEN RegisterPDFBytes(work[u].sha, Elsewhere) ELSE UNCHANGED <<sourceRows, copies, pins>>
    /\ work' = [work EXCEPT ![u] = NoUpload]
    /\ UNCHANGED <<oldPdfs, assets, parses, answered, begun, losses>>

\* A transaction fails or the client goes away: what was committed stays.
GivesUp(u) ==
    /\ work[u] # NoUpload /\ Reply(u, "failed", NoPdf)
    /\ UNCHANGED <<catalogSide, begun>>
\* A frozen copy is lost, or a legacy object replaced or removed.
CopyLost(s) ==
    /\ losses < MaxLosses /\ losses' = losses + 1 /\ s \in copies /\ copies' = copies \ {s}
    /\ UNCHANGED <<sourceRows, pins, oldPdfs, assets, parses, work, answered, begun>>
LegacyChanges(n, s) ==
    /\ losses < MaxLosses /\ losses' = losses + 1 /\ oldPdfs[n] \notin {NoPdf, s}
    /\ oldPdfs' = [oldPdfs EXCEPT ![n] = s]
    /\ UNCHANGED <<sourceRows, pins, copies, assets, parses, work, answered, begun>>

IntakeDone == begun = MaxContributions /\ (\A u \in Contributors : work[u] = NoUpload)
              /\ UNCHANGED intakeVars

IntakeNext ==
    \/ \E u \in Contributors, n \in Names, s \in Pdfs : uploadFrozenPDF(u, n, s)
    \/ \E u \in Contributors, n \in Names, s, c \in Pdfs \cup {NoPdf} :
          uploadFrozenMinerU(u, n, s, c)
    \/ \E u \in Contributors, s \in Pdfs : paperExternalSourceRegister(u, s)
    \/ \E u \in Contributors, hops \in {5, 6}, publicOnly \in BOOLEAN :
          ExternalFetch(u, hops, publicOnly)
    \/ \E u \in Contributors :
          \/ UploadRegisters(u) \/ UploadBinds(u) \/ UploadEnds(u)
          \/ ParseFreezes(u) \/ ParseBinds(u) \/ ParsePublishes(u)
          \/ RegisterFrozenExternalSource(u) \/ GivesUp(u)
    \/ \E s \in Pdfs : CopyLost(s)
    \/ \E n \in Names, s \in Pdfs \cup {NoPdf} : LegacyChanges(n, s)
    \/ IntakeDone

IntakeSpec == IntakeInit /\ [][IntakeNext]_intakeVars

-----------------------------------------------------------------------------
(* GET /api/papers/status/batch for one id.                                  *)

Asks == [by : {"arxiv"}, want : ArxivVersions \cup {0}] \cup [by : {"doi", "qa"}, want : {0}]
PinKeyOf(a) == IF a.by = "arxiv" THEN a.want ELSE IF a.by = "doi" THEN Doi ELSE Elsewhere

\* The rank of a source and of an asset in selectStatusPDF.
SourceRank(o, a) ==
    IF a.want > 0 THEN (IF o = a.want THEN 1000 + o ELSE -1)
    ELSE IF o = Doi THEN (IF a.by = "arxiv" THEN -1 ELSE Top)
    ELSE IF o > 0 THEN 1000 + o ELSE 1
AssetRank(n, a) ==
    IF assets[n] = NoAssetRow THEN -1
    ELSE IF n = Doi THEN (IF a.by # "arxiv" /\ a.want = 0 THEN Top ELSE -1)
    ELSE IF a.want \in {0, n} THEN 1000 + n ELSE -1

\* selectStatusPDF: the pinned source of the asked key; else the best source,
\* newest first, unless an asset ranks higher; else that asset's pinned source,
\* or the legacy asset itself.
selectStatusPDF(a) ==
    LET best  == {i \in DOMAIN sourceRows : \A j \in DOMAIN sourceRows :
                     LET ri == SourceRank(sourceRows[i].origin, a) rj == SourceRank(sourceRows[j].origin, a)
                     IN  ri > rj \/ (ri = rj /\ i >= j)}
        srcRank == IF best = {} THEN -1
                   ELSE SourceRank(sourceRows[CHOOSE i \in best : TRUE].origin, a)
        top   == {n \in Names : AssetRank(n, a) >= 0
                                /\ \A m \in Names : AssetRank(m, a) <= AssetRank(n, a)}
        astRank == IF top = {} THEN -1 ELSE AssetRank(CHOOSE n \in top : TRUE, a)
        asset == CHOOSE n \in top : TRUE
    IN  IF PinKeyOf(a) \in Names /\ (a.by = "doi" \/ a.want > 0) /\ pins[PinKeyOf(a)] # NoPdf
        THEN [kind |-> "source", sha |-> pins[PinKeyOf(a)], name |-> PinKeyOf(a)]
        ELSE IF srcRank >= 0 /\ srcRank >= astRank
        THEN LET r == sourceRows[CHOOSE i \in best : TRUE]
             IN  [kind |-> "source", sha |-> r.sha, name |-> r.origin]
        ELSE IF top = {} THEN [kind |-> "none", sha |-> NoPdf, name |-> Doi]
        ELSE IF pins[asset] # NoPdf THEN [kind |-> "source", sha |-> pins[asset], name |-> asset]
        ELSE [kind |-> "legacy", sha |-> assets[asset].sha, name |-> asset]

\* frozenPaperStatus: only bytes that verify are ready, only a published parse
\* of exactly that source is cached.
frozenPaperStatus(a) ==
    LET c == selectStatusPDF(a)
        pdf == CASE c.kind = "source" -> IF Frozen(c.sha) THEN c.sha \in copies
                                         ELSE oldPdfs[sourceRows[RowOf(c.sha)].kept] = c.sha
                 [] c.kind = "legacy" -> oldPdfs[c.name] # NoPdf
                 [] OTHER -> FALSE
    IN  [pdf |-> pdf, of |-> c.sha, name |-> c.name,
         cached |-> /\ pdf /\ c.kind = "source" /\ Frozen(c.sha)
                    /\ \E i \in DOMAIN parses : parses[i].src = c.sha]

-----------------------------------------------------------------------------
(* Whoever wins the race for an identifier, everyone is told the truth about *)
(* it: an upload answered as stored is and stays what its identifier names;  *)
(* one refused names a winner that is bound and differs; equal bytes have    *)
(* one source; a locator written by an upload agrees with the binding; a     *)
(* published parse is of the edition it was uploaded under, and of the PDF   *)
(* its contributor claimed (papers_frozen_upload.go, "Never overwrite the    *)
(* winner").  What status shows for a version is that version.               *)
KeysTruthful ==
    /\ \A a \in answered :
          /\ a.code = "stored" => pins[a.name] = a.sha
          /\ a.code = "conflict" => a.named # a.sha /\ pins[a.name] = a.named
    /\ \A s \in Pdfs : Cardinality(RowsOf(s)) <= 1
    /\ \A n \in Names : assets[n].kept = "content" => pins[n] = assets[n].sha
    /\ \A i \in DOMAIN parses : /\ parses[i].claims \in {NoPdf, parses[i].src}
                                /\ OfEdition(parses[i].src, parses[i].name)
    /\ \A a \in Asks : LET s == frozenPaperStatus(a)
                       IN  a.want > 0 /\ s.pdf => s.name = a.want
ContributionsKept ==
    /\ []KeysTruthful
    /\ [][\A n \in Names : pins[n] # NoPdf => pins'[n] = pins[n]]_intakeVars
=============================================================================
