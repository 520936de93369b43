-------------------------- MODULE MCServices_proofs --------------------------
(***************************************************************************)
(* Proofs about the editions of a conversion, the reading routes and the     *)
(* comments, and what follows, with those of Services_proofs, for the        *)
(* services side by side: for every number of edges, editions, revisions,    *)
(* clients, blocks, users and comments.                                      *)
(***************************************************************************)
EXTENDS MCServices, Services_proofs

-----------------------------------------------------------------------------
(* The editions.                                                             *)

\* Whoever has an edition in hand has the pinned one: a request after its
\* look-up, a fetch after its registration.
EditionInHand ==
    /\ \A e \in Edges : asking[e].at \in {"hit", "stale"} => asking[e].src = pinned /\ pinned # NoEdition
    /\ \A e \in Edges : fetching[e].st \in {"got", "ensure"}
                           => fetching[e].got = pinned /\ pinned # NoEdition
EditionInv == ConvTypeOK /\ OneEdition /\ JoinedFetchParses /\ EditionInHand

\* The same, variable by variable.
Asks    == [kind : {"none", "pdf", "content"}, at : {"idle", "miss", "hit", "stale"},
            src : PdfEditions \cup {NoEdition}]
Fetches == [st : {"none", "queued", "running", "got", "ensure", "done", "failed"},
            got : PdfEditions \cup {NoEdition}, content : BOOLEAN]
Parses  == [st : {"none", "done", "failed"} \cup Unfinished, rev : Revisions \cup {0}]
Bundles == [src : PdfEditions \cup {NoEdition}, files : {"none", "some", "all", "broken"},
            published : BOOLEAN, current : BOOLEAN]

CatalogPart ==
    /\ {legacyPdf, pinned} \subseteq PdfEditions \cup {NoEdition} /\ damage \in Nat
    /\ sourceRow \in [PdfEditions -> {"none", "legacy", "frozen"}]
    /\ frozenPdf \in [PdfEditions -> {"none", "intact", "broken"}]
AskOK(a) == a.at \in {"hit", "stale"} => a.src = pinned /\ pinned # NoEdition
AskPart == asking \in [Edges -> Asks] /\ \A e \in Edges : AskOK(asking[e])
FetchOK(f) == /\ f.st \in {"got", "ensure"} => f.got = pinned /\ pinned # NoEdition
              /\ f.st = "done" => ~f.content
FetchPart == fetching \in [Edges -> Fetches] /\ \A e \in Edges : FetchOK(fetching[e])
ParseOK(b, p) == p.st # "none" => b = pinned
ParsePart ==
    /\ parsing \in [Edges -> [PdfEditions -> Parses]]
    /\ \A e \in Edges, b \in PdfEditions : ParseOK(b, parsing[e][b])
BundleOK(v) == v.src # NoEdition => v.src = pinned
BundlePart == revision \in [Revisions -> Bundles] /\ \A r \in Revisions : BundleOK(revision[r])

LEMMA EditionStarts == ConvInit => EditionInv
<1> SUFFICES ASSUME ConvInit PROVE EditionInv
  OBVIOUS
<1>1. ConvTypeOK
  <2>1. NoRev \in [src : PdfEditions \cup {NoEdition}, files : {"none", "some", "all", "broken"},
                   published : BOOLEAN, current : BOOLEAN]
    BY DEF NoRev
  <2>2. NoAsk \in [kind : {"none", "pdf", "content"}, at : {"idle", "miss", "hit", "stale"},
                   src : PdfEditions \cup {NoEdition}]
    BY DEF NoAsk
  <2>3. NoFetch \in [st : {"none", "queued", "running", "got", "ensure", "done", "failed"},
                     got : PdfEditions \cup {NoEdition}, content : BOOLEAN]
    BY DEF NoFetch
  <2>4. NoParse \in [st : {"none", "done", "failed"} \cup Unfinished, rev : Revisions \cup {0}]
    BY DEF NoParse
  <2>5. /\ revision = [r \in Revisions |-> NoRev] /\ asking = [e \in Edges |-> NoAsk]
        /\ fetching = [e \in Edges |-> NoFetch] /\ damage \in Nat
        /\ parsing = [e \in Edges |-> [b \in PdfEditions |-> NoParse]]
        /\ {legacyPdf, pinned} \subseteq PdfEditions \cup {NoEdition}
        /\ sourceRow \in [PdfEditions -> {"none", "legacy", "frozen"}]
        /\ frozenPdf \in [PdfEditions -> {"none", "intact", "broken"}]
    BY DEF ConvInit
  <2> QED
    BY <2>1, <2>2, <2>3, <2>4, <2>5 DEF ConvTypeOK
<1> QED
  BY <1>1 DEF ConvInit, EditionInv, OneEdition, JoinedFetchParses, EditionInHand, NoRev, NoAsk, NoFetch,
              NoParse

\* The catalog's freeze and its pin: a pin is set once.
LEMMA FrozenTyped ==
  ASSUME ConvTypeOK, NEW b \in PdfEditions, Freeze(b)
  PROVE  /\ sourceRow' \in [PdfEditions -> {"none", "legacy", "frozen"}]
         /\ frozenPdf' \in [PdfEditions -> {"none", "intact", "broken"}]
BY DEF ConvTypeOK, Freeze

\* A first pin finds nothing written and nobody at work.
LEMMA Pinning ==
  ASSUME EditionInv, pinned' # pinned, pinned = NoEdition
  PROVE  /\ \A r \in Revisions : revision[r].src = NoEdition
         /\ \A e \in Edges, b \in PdfEditions : parsing[e][b].st = "none"
         /\ \A e \in Edges : /\ asking[e].at \notin {"hit", "stale"}
                             /\ fetching[e].st \notin {"got", "ensure"}
BY ConversionConfig DEF EditionInv, OneEdition, EditionInHand

LEMMA ResolveKeepsEditions ==
  ASSUME EditionInv, NEW e \in Edges, NEW kind \in {"pdf", "content"}, Resolve(e, kind)
  PROVE  EditionInv'
<1>0. UNCHANGED <<legacyPdf, revision, fetching, parsing, damage>> /\ ConvTypeOK
  BY DEF Resolve, EditionInv
<1> DEFINE AskRecs == [kind : {"none", "pdf", "content"}, at : {"idle", "miss", "hit", "stale"},
                    src : PdfEditions \cup {NoEdition}]
           Found(b) == IF kind = "pdf" THEN NoAsk ELSE [at |-> "hit", kind |-> kind, src |-> b]
<1>1. PICK a \in AskRecs :
        /\ asking' = [asking EXCEPT ![e] = a] \/ (asking' = asking /\ a = asking[e])
        /\ pinned' \in PdfEditions \cup {NoEdition}
        /\ pinned' = pinned \/ pinned = NoEdition
        /\ a.at \in {"hit", "stale"} => a.src = pinned' /\ pinned' # NoEdition
        /\ sourceRow' \in [PdfEditions -> {"none", "legacy", "frozen"}]
        /\ frozenPdf' \in [PdfEditions -> {"none", "intact", "broken"}]
  <2>0. NoAsk \in AskRecs /\ NoAsk.at = "idle" /\ asking[e] = NoAsk
    BY DEF NoAsk, Resolve
  <2>1. ASSUME NEW b \in PdfEditions
        PROVE  Found(b) \in AskRecs /\ (Found(b).at \in {"hit", "stale"} => Found(b).src = b)
    BY <2>0
  <2>2. CASE pinned # NoEdition /\ Freezable(pinned) /\ Freeze(pinned) /\ UNCHANGED pinned
             /\ asking' = [asking EXCEPT ![e] = Found(pinned)]
    <3>1. pinned \in PdfEditions
      BY <2>2, <1>0 DEF ConvTypeOK
    <3> HIDE DEF Found, AskRecs
    <3> QED
      BY <1>0, <2>1, <2>2, <3>1, FrozenTyped
  <2>3. ASSUME NEW b \in PdfEditions, pinned = NoEdition, Freeze(b),
               \/ pinned' = b /\ asking' = [asking EXCEPT ![e] = Found(b)]
               \/ UNCHANGED <<pinned, asking>>
        PROVE  \E a \in AskRecs :
                 /\ asking' = [asking EXCEPT ![e] = a] \/ (asking' = asking /\ a = asking[e])
                 /\ pinned' \in PdfEditions \cup {NoEdition}
                 /\ pinned' = pinned \/ pinned = NoEdition
                 /\ a.at \in {"hit", "stale"} => a.src = pinned' /\ pinned' # NoEdition
                 /\ sourceRow' \in [PdfEditions -> {"none", "legacy", "frozen"}]
                 /\ frozenPdf' \in [PdfEditions -> {"none", "intact", "broken"}]
    <3>1. b # NoEdition
      BY ConversionConfig
    <3>2. Found(b) \in AskRecs /\ (Found(b).at \in {"hit", "stale"} => Found(b).src = b)
      BY <2>1
    <3>3. /\ sourceRow' \in [PdfEditions -> {"none", "legacy", "frozen"}]
          /\ frozenPdf' \in [PdfEditions -> {"none", "intact", "broken"}]
      BY <1>0, <2>3, FrozenTyped
    <3> HIDE DEF Found, AskRecs
    <3>4. CASE pinned' = b /\ asking' = [asking EXCEPT ![e] = Found(b)]
      BY <2>3, <3>1, <3>2, <3>3, <3>4
    <3>5. CASE UNCHANGED <<pinned, asking>>
      BY <2>0, <2>3, <3>3, <3>5
    <3> QED
      BY <2>3, <3>4, <3>5
  <2>4. CASE /\ pinned = NoEdition /\ UNCHANGED <<sourceRow, frozenPdf, pinned>>
             /\ asking' = [asking EXCEPT ![e] = [NoAsk EXCEPT !.at = "miss", !.kind = kind]]
    <3>1. [NoAsk EXCEPT !.at = "miss", !.kind = kind] \in AskRecs
          /\ [NoAsk EXCEPT !.at = "miss", !.kind = kind].at = "miss"
      BY DEF NoAsk
    <3> HIDE DEF Found, AskRecs
    <3> QED
      BY <1>0, <2>4, <3>1 DEF ConvTypeOK
  <2>5. \/ /\ pinned # NoEdition /\ Freezable(pinned) /\ Freeze(pinned) /\ UNCHANGED pinned
           /\ asking' = [asking EXCEPT ![e] = Found(pinned)]
        \/ /\ pinned = NoEdition
           /\ \E b \in PdfEditions :
                 /\ Freeze(b)
                 /\ \/ pinned' = b /\ asking' = [asking EXCEPT ![e] = Found(b)]
                    \/ UNCHANGED <<pinned, asking>>
        \/ /\ pinned = NoEdition /\ UNCHANGED <<sourceRow, frozenPdf, pinned>>
           /\ asking' = [asking EXCEPT ![e] = [NoAsk EXCEPT !.at = "miss", !.kind = kind]]
    BY Zenon DEF Resolve
  <2> HIDE DEF Found, AskRecs
  <2> QED
    BY <2>2, <2>3, <2>4, <2>5, Zenon
<1>2. asking' \in [Edges -> AskRecs] /\ asking'[e] = a /\ \A d \in Edges : d # e => asking'[d] = asking[d]
  <2>1. asking \in [Edges -> AskRecs]
    BY <1>0 DEF ConvTypeOK
  <2> HIDE DEF AskRecs, Found
  <2>2. CASE asking' = [asking EXCEPT ![e] = a]
    BY <2>1, <2>2
  <2>3. CASE asking' = asking /\ a = asking[e]
    BY <2>1, <2>3
  <2> QED
    BY <1>1, <2>2, <2>3
<1>3. ConvTypeOK'
  BY <1>0, <1>1, <1>2 DEF ConvTypeOK
<1> HIDE DEF AskRecs, Found
<1>4. pinned' = pinned \/ (pinned' # pinned /\ pinned = NoEdition)
  BY <1>1
<1>5. OneEdition' /\ JoinedFetchParses' /\ EditionInHand'
  <2>1. CASE pinned' = pinned
    BY <1>0, <1>1, <1>2, <2>1 DEF EditionInv, OneEdition, JoinedFetchParses, EditionInHand
  <2>2. CASE pinned' # pinned /\ pinned = NoEdition
    BY <1>0, <1>1, <1>2, <2>2, Pinning DEF EditionInv, OneEdition, JoinedFetchParses, EditionInHand
  <2> QED
    BY <1>4, <2>1, <2>2
<1> QED
  BY <1>3, <1>5 DEF EditionInv

LEMMA Parts ==
  EditionInv <=> CatalogPart /\ AskPart /\ FetchPart /\ ParsePart /\ BundlePart
BY DEF EditionInv, ConvTypeOK, OneEdition, JoinedFetchParses, EditionInHand, CatalogPart, AskPart,
       FetchPart, ParsePart, BundlePart, AskOK, FetchOK, ParseOK, BundleOK, Asks, Fetches, Parses, Bundles

LEMMA PrimedParts ==
  CatalogPart' /\ AskPart' /\ FetchPart' /\ ParsePart' /\ BundlePart' => EditionInv'
BY DEF EditionInv, ConvTypeOK, OneEdition, JoinedFetchParses, EditionInHand, CatalogPart, AskPart,
       FetchPart, ParsePart, BundlePart, AskOK, FetchOK, ParseOK, BundleOK, Asks, Fetches, Parses, Bundles

\* What rests keeps its part, and one new value is enough for what moves.
LEMMA PartsRest ==
  ASSUME EditionInv, pinned' = pinned
  PROVE  /\ UNCHANGED catalogVars => CatalogPart'
         /\ UNCHANGED asking => AskPart'
         /\ UNCHANGED fetching => FetchPart'
         /\ UNCHANGED parsing => ParsePart'
         /\ UNCHANGED revision => BundlePart'
BY Parts DEF catalogVars, CatalogPart, AskPart, FetchPart, ParsePart, BundlePart, AskOK, FetchOK, ParseOK,
             BundleOK

LEMMA AskMoves ==
  ASSUME EditionInv, pinned' = pinned, NEW e \in Edges, NEW a \in Asks, AskOK(a),
         asking' = [asking EXCEPT ![e] = a]
  PROVE  AskPart'
BY Parts DEF AskPart, AskOK

LEMMA FetchMoves ==
  ASSUME EditionInv, pinned' = pinned, NEW e \in Edges, NEW f \in Fetches, FetchOK(f),
         fetching' = [fetching EXCEPT ![e] = f]
  PROVE  FetchPart'
BY Parts DEF FetchPart, FetchOK

LEMMA ParseMoves ==
  ASSUME EditionInv, pinned' = pinned, NEW e \in Edges, NEW b \in PdfEditions, NEW p \in Parses,
         ParseOK(b, p), parsing' = [parsing EXCEPT ![e][b] = p]
  PROVE  ParsePart'
<1>1. parsing \in [Edges -> [PdfEditions -> Parses]]
      /\ \A d \in Edges, c \in PdfEditions : ParseOK(c, parsing[d][c])
  BY Parts DEF ParsePart
<1>2. parsing' \in [Edges -> [PdfEditions -> Parses]]
  BY <1>1
<1>3. ASSUME NEW d \in Edges, NEW c \in PdfEditions PROVE ParseOK(c, parsing[d][c])'
  <2>1. parsing'[d][c] = IF d = e /\ c = b THEN p ELSE parsing[d][c]
    BY <1>1
  <2> QED
    BY <1>1, <2>1 DEF ParseOK
<1> QED
  BY <1>2, <1>3 DEF ParsePart

LEMMA BundleMoves ==
  ASSUME EditionInv, pinned' = pinned, NEW r \in Revisions, NEW v \in Bundles, BundleOK(v),
         revision' = [revision EXCEPT ![r] = v]
  PROVE  BundlePart'
BY Parts DEF BundlePart, BundleOK

LEMMA SubmitMoves ==
  ASSUME EditionInv, pinned' = pinned, NEW e \in Edges, pinned # NoEdition, NEW r \in Revisions,
         Submitted(e, pinned, r)
  PROVE  ParsePart'
<1>1. pinned \in PdfEditions
  BY Parts DEF CatalogPart
<1>2. CASE UNCHANGED parsing
  BY <1>2, PartsRest
<1>3. CASE parsing' = [parsing EXCEPT ![e][pinned] = [st |-> "queued", rev |-> r]]
  <2> DEFINE p == [st |-> "queued", rev |-> r]
  <2>1. p \in Parses /\ ParseOK(pinned, p)
    BY DEF Parses, Unfinished, ParseOK
  <2> HIDE DEF p
  <2> QED
    BY <1>1, <1>3, <2>1, ParseMoves DEF p
<1> QED
  BY <1>2, <1>3 DEF Submitted

LEMMA JobMoves ==
  ASSUME EditionInv, pinned' = pinned, NEW e \in Edges, NEW b \in PdfEditions,
         NEW to \in {"none", "done", "failed"} \cup Unfinished, parsing[e][b].st # "none",
         parsing' = [parsing EXCEPT ![e][b].st = to]
  PROVE  ParsePart'
<1> DEFINE p == [parsing[e][b] EXCEPT !.st = to]
<1>1. parsing \in [Edges -> [PdfEditions -> Parses]] /\ ParseOK(b, parsing[e][b])
  BY Parts DEF ParsePart
<1>2. p \in Parses /\ ParseOK(b, p)
  BY <1>1, SMTT(30) DEF Parses, ParseOK
<1>3. parsing' = [parsing EXCEPT ![e][b] = p]
  BY <1>1
<1> HIDE DEF p
<1> QED
  BY <1>2, <1>3, ParseMoves

\* The requests.
LEMMA RequestsKeepEditions ==
  ASSUME EditionInv, NEW e \in Edges,
         StartFetch(e) \/ CacheHit(e) \/ CacheMiss(e) \/ \E r \in Revisions : Submit(e, r)
  PROVE  EditionInv'
<1>0. /\ UNCHANGED <<catalogVars, revision>> /\ pinned' = pinned /\ CatalogPart' /\ BundlePart'
      /\ asking[e] \in Asks /\ AskOK(asking[e]) /\ fetching[e] \in Fetches /\ FetchOK(fetching[e])
  <2>1. UNCHANGED <<catalogVars, revision>> /\ pinned' = pinned
    BY DEF StartFetch, CacheHit, CacheMiss, Submit, catalogVars
  <2> QED
    BY <2>1, PartsRest, Parts DEF AskPart, FetchPart
<1>1. NoAsk \in Asks /\ AskOK(NoAsk)
  BY DEF NoAsk, Asks, AskOK
<1>2. CASE StartFetch(e)
  <2> DEFINE wants == asking[e].kind = "content"
             f == IF fetching[e].st \in Joinable
                  THEN [fetching[e] EXCEPT !.content = fetching[e].content \/ wants]
                  ELSE [NoFetch EXCEPT !.st = "queued", !.content = wants]
  <2>1. f \in Fetches /\ FetchOK(f)
    <3>1. CASE fetching[e].st \in Joinable
      BY <1>0, <3>1 DEF Fetches, FetchOK, Joinable
    <3>2. CASE fetching[e].st \notin Joinable
      BY <3>2 DEF Fetches, FetchOK, NoFetch
    <3> QED
      BY <3>1, <3>2
  <2>2. fetching' = [fetching EXCEPT ![e] = f] /\ UNCHANGED parsing
    BY <1>2 DEF StartFetch
  <2> HIDE DEF f
  <2>3. FetchPart' /\ ParsePart'
    BY <1>0, <2>1, <2>2, FetchMoves, PartsRest
  <2>4. AskPart'
    BY <1>0, <1>1, <1>2, AskMoves DEF StartFetch
  <2> QED
    BY <1>0, <2>3, <2>4, PrimedParts
<1>3. CASE CacheHit(e)
  <2> DEFINE b == asking[e].src
             p == IF parsing[e][b].st \in Unfinished THEN parsing[e][b] ELSE [st |-> "done", rev |-> 0]
  <2>1. b = pinned /\ b \in PdfEditions
    <3>1. asking[e].at = "hit"
      BY <1>3 DEF CacheHit
    <3>2. asking[e].src = pinned /\ pinned # NoEdition
      BY <1>0, <3>1 DEF AskOK
    <3> QED
      BY <3>2, Parts DEF CatalogPart
  <2>2. p \in Parses /\ ParseOK(b, p)
    BY <2>1, Parts DEF Parses, ParseOK, ParsePart
  <2>3. parsing' = [parsing EXCEPT ![e][b] = p] /\ UNCHANGED fetching
    <3>1. parsing \in [Edges -> [PdfEditions -> Parses]]
      BY Parts DEF ParsePart
    <3> QED
      BY <1>3, <2>1, <3>1 DEF CacheHit
  <2> HIDE DEF b, p
  <2>4. ParsePart' /\ FetchPart'
    BY <1>0, <2>1, <2>2, <2>3, ParseMoves, PartsRest
  <2>5. AskPart'
    BY <1>0, <1>1, <1>3, AskMoves DEF CacheHit
  <2> QED
    BY <1>0, <2>4, <2>5, PrimedParts
<1>4. CASE CacheMiss(e)
  <2> DEFINE a == [asking[e] EXCEPT !.at = "stale"]
  <2>1. a \in Asks /\ AskOK(a)
    BY <1>0, <1>4 DEF CacheMiss, Asks, AskOK
  <2>2. asking' = [asking EXCEPT ![e] = a] /\ UNCHANGED <<fetching, parsing>>
    BY <1>4 DEF CacheMiss
  <2> HIDE DEF a
  <2>3. AskPart' /\ FetchPart' /\ ParsePart'
    BY <1>0, <2>1, <2>2, AskMoves, PartsRest
  <2> QED
    BY <1>0, <2>3, PrimedParts
<1>5. ASSUME NEW r \in Revisions, Submit(e, r) PROVE EditionInv'
  <2>1. asking[e].at = "stale" /\ Submitted(e, asking[e].src, r) /\ UNCHANGED fetching
        /\ asking' = [asking EXCEPT ![e] = NoAsk]
    BY <1>5 DEF Submit
  <2>2. asking[e].src = pinned /\ pinned # NoEdition
    BY <1>0, <2>1 DEF AskOK
  <2>3. ParsePart'
    BY <1>0, <2>1, <2>2, SubmitMoves
  <2>4. AskPart' /\ FetchPart'
    BY <1>0, <1>1, <2>1, AskMoves, PartsRest
  <2> QED
    BY <1>0, <2>3, <2>4, PrimedParts
<1> QED
  BY <1>2, <1>3, <1>4, <1>5

\* The fetch job.
LEMMA FetchesKeepEditions ==
  ASSUME EditionInv, NEW e \in Edges, FetchJob(e)
  PROVE  EditionInv'
<1>0. UNCHANGED <<revision, asking, legacyPdf, damage>> /\ fetching[e] \in Fetches /\ FetchOK(fetching[e])
  <2>1. UNCHANGED <<revision, asking, legacyPdf, damage>>
    BY DEF FetchJob, FetchBegin, FetchRegister, FetchFails, FetchDecides, FetchHandsOver, catalogVars
  <2> QED
    BY <2>1, Parts DEF FetchPart
<1>1. ASSUME NEW st \in {"running", "failed", "ensure", "done"},
             fetching' = [fetching EXCEPT ![e].st = st], UNCHANGED <<catalogVars, parsing>>,
             st = "ensure" => fetching[e].st = "got", st = "done" => ~fetching[e].content
      PROVE  EditionInv'
  <2> DEFINE f == [fetching[e] EXCEPT !.st = st]
  <2>1. f \in Fetches /\ FetchOK(f)
    BY <1>0, <1>1 DEF Fetches, FetchOK
  <2>2. fetching' = [fetching EXCEPT ![e] = f] /\ pinned' = pinned
    BY <1>1 DEF catalogVars
  <2> HIDE DEF f
  <2>3. FetchPart' /\ CatalogPart' /\ AskPart' /\ ParsePart' /\ BundlePart'
    BY <1>0, <1>1, <2>1, <2>2, FetchMoves, PartsRest
  <2> QED
    BY <2>3, PrimedParts
<1>2. CASE FetchBegin(e) \/ FetchFails(e)
  <2>1. PICK st \in {"running", "failed"} : fetching' = [fetching EXCEPT ![e].st = st]
    BY <1>2 DEF FetchBegin, FetchFails
  <2>2. UNCHANGED <<catalogVars, parsing>>
    BY <1>2 DEF FetchBegin, FetchFails
  <2> QED
    BY <1>1, <2>1, <2>2
<1>3. CASE FetchDecides(e)
  <2>1. PICK st : /\ st = (IF fetching[e].content THEN "ensure" ELSE "done")
                  /\ fetching' = [fetching EXCEPT ![e].st = st]
    BY <1>3 DEF FetchDecides
  <2>2. UNCHANGED <<catalogVars, parsing>> /\ fetching[e].st = "got"
    BY <1>3 DEF FetchDecides
  <2>3. st \in {"running", "failed", "ensure", "done"} /\ (st = "done" => ~fetching[e].content)
    BY <2>1
  <2> QED
    BY <1>1, <2>1, <2>2, <2>3
<1>4. CASE FetchRegister(e)
  <2>1. PICK b \in PdfEditions :
          /\ Freeze(b)
          /\ \/ pinned \in {NoEdition, b} /\ pinned' = b
                /\ fetching' = [fetching EXCEPT ![e] = [@ EXCEPT !.st = "got", !.got = b]]
             \/ fetching' = [fetching EXCEPT ![e].st = "failed"] /\ UNCHANGED pinned
    BY <1>4 DEF FetchRegister, Bindable
  <2>2. b # NoEdition /\ UNCHANGED parsing
    BY <1>4, ConversionConfig DEF FetchRegister
  <2>3. CatalogPart' /\ pinned' \in PdfEditions \cup {NoEdition}
    <3>1. pinned \in PdfEditions \cup {NoEdition} /\ legacyPdf \in PdfEditions \cup {NoEdition}
          /\ damage \in Nat /\ ConvTypeOK
      BY Parts DEF CatalogPart, EditionInv
    <3>2. pinned' \in PdfEditions \cup {NoEdition}
      BY <2>1, <3>1
    <3> QED
      BY <1>0, <2>1, <3>1, <3>2, FrozenTyped DEF CatalogPart
  <2>4. CASE pinned' = pinned
    <3>1. PICK f \in Fetches : FetchOK(f) /\ fetching' = [fetching EXCEPT ![e] = f]
      <4>1. CASE pinned' = b /\ fetching' = [fetching EXCEPT ![e] = [@ EXCEPT !.st = "got", !.got = b]]
        <5> DEFINE f == [fetching[e] EXCEPT !.st = "got", !.got = b]
        <5>1. f \in Fetches /\ FetchOK(f)
          BY <1>0, <2>2, <2>4, <4>1 DEF Fetches, FetchOK
        <5> QED
          BY <4>1, <5>1
      <4>2. CASE fetching' = [fetching EXCEPT ![e].st = "failed"]
        <5> DEFINE f == [fetching[e] EXCEPT !.st = "failed"]
        <5>1. f \in Fetches /\ FetchOK(f)
          BY <1>0 DEF Fetches, FetchOK
        <5> QED
          BY <4>2, <5>1
      <4> QED
        BY <2>1, <4>1, <4>2
    <3>2. FetchPart' /\ AskPart' /\ ParsePart' /\ BundlePart'
      BY <1>0, <2>2, <2>4, <3>1, FetchMoves, PartsRest
    <3> QED
      BY <2>3, <3>2, PrimedParts
  <2>5. CASE pinned' # pinned
    <3>0. pinned = NoEdition /\ pinned' = b
          /\ fetching' = [fetching EXCEPT ![e] = [@ EXCEPT !.st = "got", !.got = b]]
      BY <2>1, <2>5
    <3>1. /\ \A r \in Revisions : revision[r].src = NoEdition
          /\ \A d \in Edges, c \in PdfEditions : parsing[d][c].st = "none"
          /\ \A d \in Edges : asking[d].at \notin {"hit", "stale"} /\ fetching[d].st \notin {"got", "ensure"}
      BY <2>5, <3>0, Pinning
    <3>2. BundlePart' /\ ParsePart' /\ AskPart'
      BY <1>0, <2>2, <3>1, Parts DEF BundlePart, BundleOK, ParsePart, ParseOK, AskPart, AskOK
    <3>3. FetchPart'
      <4> DEFINE f == [fetching[e] EXCEPT !.st = "got", !.got = b]
      <4>1. f \in Fetches /\ f.st = "got" /\ f.got = b
        BY <1>0 DEF Fetches
      <4>2. fetching' = [fetching EXCEPT ![e] = f]
        BY <3>0
      <4> HIDE DEF f
      <4>3. fetching' \in [Edges -> Fetches] /\ \A d \in Edges : fetching'[d] = IF d = e THEN f ELSE fetching[d]
        BY <4>1, <4>2, Parts DEF FetchPart
      <4>4. \A d \in Edges : FetchOK(fetching[d])'
        BY <2>2, <3>0, <3>1, <4>1, <4>3, Parts DEF FetchPart, FetchOK
      <4> QED
        BY <4>3, <4>4 DEF FetchPart
    <3> QED
      BY <2>3, <3>2, <3>3, PrimedParts
  <2> QED
    BY <2>4, <2>5
<1>5. ASSUME NEW r \in Revisions, FetchHandsOver(e, r) PROVE EditionInv'
  <2>1. /\ fetching[e].st = "ensure" /\ UNCHANGED catalogVars /\ fetching' = [fetching EXCEPT ![e] = NoFetch]
        /\ UNCHANGED parsing \/ Submitted(e, fetching[e].got, r)
    BY <1>5 DEF FetchHandsOver
  <2>2. pinned' = pinned /\ fetching[e].got = pinned /\ pinned # NoEdition
    BY <1>0, <2>1 DEF FetchOK, catalogVars
  <2>3. ParsePart'
    BY <2>1, <2>2, SubmitMoves, PartsRest
  <2>4. NoFetch \in Fetches /\ FetchOK(NoFetch)
    BY DEF NoFetch, Fetches, FetchOK
  <2>5. FetchPart' /\ CatalogPart' /\ AskPart' /\ BundlePart'
    BY <1>0, <2>1, <2>2, <2>4, FetchMoves, PartsRest
  <2> QED
    BY <2>3, <2>5, PrimedParts
<1> QED
  BY <1>2, <1>3, <1>4, <1>5 DEF FetchJob

\* The parse job.
LEMMA ParsesKeepEditions ==
  ASSUME EditionInv, NEW e \in Edges, NEW b \in PdfEditions, ParseJob(e, b)
  PROVE  EditionInv'
<1>0. UNCHANGED <<catalogVars, asking, fetching>> /\ pinned' = pinned
  BY DEF ParseJob, JobRuns, JobReads, JobWrites, JobPrepares, JobPublishes, JobFails, catalogVars
<1>1. CatalogPart' /\ AskPart' /\ FetchPart'
  BY <1>0, PartsRest
<1>2. /\ parsing[e][b].st # "none" /\ b = pinned /\ b # NoEdition
      /\ parsing[e][b].st \in Unfinished => parsing[e][b].st # "none"
      /\ parsing \in [Edges -> [PdfEditions -> Parses]]
      /\ revision \in [Revisions -> Bundles] /\ \A r \in Revisions : BundleOK(revision[r])
  <2>1. parsing[e][b].st \in Unfinished
    BY DEF ParseJob, JobRuns, JobReads, JobWrites, JobPrepares, JobPublishes, JobFails, ParseStep, Unfinished
  <2>2. parsing[e][b].st # "none"
    BY <2>1 DEF Unfinished
  <2> QED
    BY <2>2, Parts, ConversionConfig DEF ParsePart, ParseOK, BundlePart
<1>3. ParsePart'
  <2>1. ASSUME NEW to \in {"none", "done", "failed"} \cup Unfinished,
               parsing' = [parsing EXCEPT ![e][b].st = to]
        PROVE  ParsePart'
    BY <1>0, <1>2, <2>1, JobMoves
  <2>2. CASE JobPublishes(e, b)
    <3> DEFINE p == [st |-> "done", rev |-> 0]
    <3>1. p \in Parses /\ ParseOK(b, p)
      BY <1>2 DEF Parses, ParseOK
    <3>2. parsing' = [parsing EXCEPT ![e][b] = p]
      BY <2>2 DEF JobPublishes
    <3> HIDE DEF p
    <3> QED
      BY <1>0, <3>1, <3>2, ParseMoves
  <2>3. CASE ~JobPublishes(e, b)
    <3>1. PICK to \in {"running", "parsing", "writing", "prepared", "failed"} :
            parsing' = [parsing EXCEPT ![e][b].st = to]
      BY <2>3 DEF ParseJob, JobRuns, JobReads, JobWrites, JobPrepares, JobFails, ParseStep
    <3> QED
      BY <2>1, <3>1 DEF Unfinished
  <2> QED
    BY <2>2, <2>3
<1>4. BundlePart'
  <2>1. ASSUME NEW r \in Revisions PROVE revision'[r] \in Bundles /\ BundleOK(revision[r])'
    <3>1. CASE revision' = revision
      BY <1>0, <1>2, <3>1 DEF BundleOK
    <3>2. CASE JobWrites(e, b)
      <4>1. revision'[r] = revision[r] \/ revision'[r] = [NoRev EXCEPT !.src = b, !.files = "some"]
        BY <1>2, <3>2 DEF JobWrites
      <4> QED
        BY <1>0, <1>2, <4>1 DEF BundleOK, Bundles, NoRev
    <3>3. CASE JobPrepares(e, b)
      <4>1. revision'[r] = revision[r] \/ revision'[r] = [revision[r] EXCEPT !.files = "all"]
        BY <1>2, <3>3 DEF JobPrepares
      <4>2. revision[r] \in Bundles
        BY <1>2
      <4> QED
        BY <1>0, <1>2, <4>1, <4>2 DEF BundleOK, Bundles
    <3>4. CASE JobPublishes(e, b)
      <4>1. PICK p \in BOOLEAN, c \in BOOLEAN : revision'[r] = [revision[r] EXCEPT !.published = p, !.current = c]
        <5>1. revision[r].published \in BOOLEAN
          BY <1>2 DEF Bundles
        <5>2. revision'[r] = [revision[r] EXCEPT !.published = @ \/ r = parsing[e][b].rev,
                                                 !.current = (r = parsing[e][b].rev)]
          BY <3>4 DEF JobPublishes
        <5> QED
          BY <5>1, <5>2
      <4>2. revision[r] \in Bundles
        BY <1>2
      <4> QED
        BY <1>0, <1>2, <4>1, <4>2 DEF BundleOK, Bundles
    <3> QED
      BY <3>1, <3>2, <3>3, <3>4 DEF ParseJob, JobRuns, JobReads, JobFails
  <2>2. DOMAIN revision' = Revisions /\ revision' = [r \in Revisions |-> revision'[r]]
    BY <1>2 DEF ParseJob, JobRuns, JobReads, JobWrites, JobPrepares, JobPublishes, JobFails
  <2> QED
    BY <2>1, <2>2 DEF BundlePart
<1> QED
  BY <1>1, <1>3, <1>4, PrimedParts

LEMMA CoolsKeepEditions ==
  ASSUME EditionInv, NEW e \in Edges, Cools(e)
  PROVE  EditionInv'
<1>0. pinned' = pinned /\ CatalogPart' /\ AskPart' /\ BundlePart'
  <2>1. UNCHANGED <<catalogVars, revision, asking>> /\ pinned' = pinned
    BY DEF Cools, catalogVars
  <2> QED
    BY <2>1, PartsRest
<1>1. NoFetch \in Fetches /\ FetchOK(NoFetch)
  BY DEF NoFetch, Fetches, FetchOK
<1>2. CASE fetching' = [fetching EXCEPT ![e] = NoFetch] /\ UNCHANGED parsing
  <2>1. FetchPart' /\ ParsePart'
    BY <1>0, <1>1, <1>2, FetchMoves, PartsRest
  <2> QED
    BY <1>0, <2>1, PrimedParts
<1>3. ASSUME NEW b \in PdfEditions, UNCHANGED fetching, parsing' = [parsing EXCEPT ![e][b] = NoParse]
      PROVE  EditionInv'
  <2>1. NoParse \in Parses /\ ParseOK(b, NoParse)
    BY DEF NoParse, Parses, ParseOK
  <2>2. FetchPart' /\ ParsePart'
    BY <1>0, <1>3, <2>1, ParseMoves, PartsRest
  <2> QED
    BY <1>0, <2>2, PrimedParts
<1> QED
  BY <1>2, <1>3 DEF Cools

LEMMA RestartsKeepEditions ==
  ASSUME EditionInv, NEW e \in Edges, EdgeRestarts(e)
  PROVE  EditionInv'
<1>1. /\ UNCHANGED <<legacyPdf, sourceRow, frozenPdf, pinned, revision>> /\ damage' = damage + 1
      /\ asking' = [asking EXCEPT ![e] = NoAsk] /\ fetching' = [fetching EXCEPT ![e] = NoFetch]
      /\ parsing' = [parsing EXCEPT ![e] = [b \in PdfEditions |-> NoParse]]
  BY DEF EdgeRestarts, Damaged
<1>2. CatalogPart' /\ BundlePart'
  BY <1>1, PartsRest, Parts DEF CatalogPart
<1>3. NoFetch \in Fetches /\ FetchOK(NoFetch) /\ NoAsk \in Asks /\ AskOK(NoAsk)
  BY DEF NoFetch, Fetches, FetchOK, NoAsk, Asks, AskOK
<1>4. FetchPart' /\ AskPart'
  BY <1>1, <1>3, FetchMoves, AskMoves
<1>5. ParsePart'
  <2> DEFINE none == [b \in PdfEditions |-> NoParse]
  <2>1. none \in [PdfEditions -> Parses] /\ \A b \in PdfEditions : none[b].st = "none"
    BY DEF NoParse, Parses
  <2>2. parsing' = [parsing EXCEPT ![e] = none]
    BY <1>1
  <2> HIDE DEF none
  <2> QED
    BY <1>1, <2>1, <2>2, Parts DEF ParsePart, ParseOK
<1> QED
  BY <1>2, <1>4, <1>5, PrimedParts

LEMMA FaultsKeepEditions ==
  ASSUME EditionInv, BreakObject \/ LegacyChanges
  PROVE  EditionInv'
<1>1. pinned' = pinned /\ UNCHANGED <<sourceRow, asking, fetching, parsing>> /\ damage' = damage + 1
  BY DEF BreakObject, LegacyChanges, Damaged
<1>2. AskPart' /\ FetchPart' /\ ParsePart'
  BY <1>1, PartsRest
<1>3. CatalogPart' /\ BundlePart'
  <2>1. CASE LegacyChanges
    BY <1>1, <2>1, PartsRest, Parts DEF LegacyChanges, CatalogPart
  <2>2. ASSUME NEW b \in PdfEditions, UNCHANGED <<legacyPdf, revision>>,
               frozenPdf' = [frozenPdf EXCEPT ![b] = "broken"]
        PROVE  CatalogPart' /\ BundlePart'
    BY <1>1, <2>2, PartsRest, Parts DEF CatalogPart
  <2>3. ASSUME NEW r \in Revisions, UNCHANGED <<legacyPdf, frozenPdf>>,
               revision' = [revision EXCEPT ![r].files = "broken"]
        PROVE  CatalogPart' /\ BundlePart'
    <3> DEFINE v == [revision[r] EXCEPT !.files = "broken"]
    <3>1. v \in Bundles /\ BundleOK(v)
      BY Parts DEF BundlePart, Bundles, BundleOK
    <3>2. revision' = [revision EXCEPT ![r] = v]
      BY <2>3
    <3> HIDE DEF v
    <3>3. BundlePart'
      BY <1>1, <3>1, <3>2, BundleMoves
    <3> QED
      BY <1>1, <2>3, <3>3, Parts DEF CatalogPart
  <2> QED
    BY <2>1, <2>2, <2>3 DEF BreakObject
<1> QED
  BY <1>2, <1>3, PrimedParts

LEMMA EditionsKept == EditionInv /\ [ConvNext]_convVars => EditionInv'
<1> SUFFICES ASSUME EditionInv, [ConvNext]_convVars PROVE EditionInv'
  OBVIOUS
<1>1. CASE UNCHANGED convVars
  <2>1. UNCHANGED <<catalogVars, asking, fetching, parsing, revision>> /\ pinned' = pinned
    BY <1>1 DEF convVars, catalogVars
  <2> QED
    BY <2>1, PartsRest, PrimedParts
<1> QED
  BY <1>1, ResolveKeepsEditions, RequestsKeepEditions, FetchesKeepEditions, ParsesKeepEditions,
     CoolsKeepEditions, RestartsKeepEditions, FaultsKeepEditions DEF ConvNext

\* Sources, bundles, requests and conversions keep their types.
LEMMA ConvTypesHold == ConvSpec => []ConvTypeOK
<1>1. EditionInv => ConvTypeOK
  BY DEF EditionInv
<1> QED
  BY <1>1, EditionStarts, EditionsKept, PTL DEF ConvSpec

\* A revision becomes visible by publishBundle only, which has just verified it.
LEMMA WholeWhenPublished ==
  ASSUME EditionInv, [ConvNext]_convVars, NEW r \in Revisions,
         revision'[r].published, ~revision[r].published
  PROVE  Intact(r) /\ \A q \in Revisions : revision'[q].current => q = r
<1>0. revision \in [Revisions -> Bundles]
  BY Parts DEF BundlePart
<1>1. ASSUME NEW e \in Edges, NEW b \in PdfEditions, JobPublishes(e, b)
      PROVE  Intact(r) /\ \A q \in Revisions : revision'[q].current => q = r
  <2> DEFINE n == parsing[e][b].rev
  <2>1. Intact(n) /\ \A q \in Revisions :
          revision'[q] = [revision[q] EXCEPT !.published = @ \/ q = n, !.current = (q = n)]
    BY <1>1 DEF JobPublishes, StillIntact
  <2> HIDE DEF n
  <2>2. ASSUME NEW q \in Revisions
        PROVE  /\ revision'[q].published = (revision[q].published \/ q = n)
               /\ revision'[q].current = (q = n)
    BY <1>0, <2>1, ZenonT(30) DEF Bundles
  <2>3. r = n
    BY <2>2
  <2> QED
    BY <2>1, <2>2, <2>3
<1>2. ASSUME NEW e \in Edges, NEW b \in PdfEditions, JobWrites(e, b) \/ JobPrepares(e, b)
      PROVE  FALSE
  <2>1. \/ revision'[r] = revision[r] \/ revision'[r] = [NoRev EXCEPT !.src = b, !.files = "some"]
        \/ revision'[r] = [revision[r] EXCEPT !.files = "all"]
    BY <1>0, <1>2 DEF JobWrites, JobPrepares
  <2>2. revision[r] \in Bundles
    BY <1>0
  <2> QED
    BY <2>1, <2>2 DEF NoRev, Bundles
<1>3. CASE BreakObject
  <2>1. revision'[r] = revision[r] \/ revision'[r] = [revision[r] EXCEPT !.files = "broken"]
    BY <1>0, <1>3 DEF BreakObject
  <2>2. revision[r] \in Bundles
    BY <1>0
  <2> QED
    BY <2>1, <2>2 DEF Bundles
<1>4. CASE UNCHANGED revision
  BY <1>4
<1> QED
  BY <1>1, <1>2, <1>3, <1>4
     DEF ConvNext, convVars, Resolve, StartFetch, CacheHit, CacheMiss, Submit, FetchJob, FetchBegin,
         FetchRegister, FetchFails, FetchDecides, FetchHandsOver, Cools, EdgeRestarts, ParseJob, JobRuns,
         JobReads, JobFails, LegacyChanges

\* compat.go, content_bundles.go: whatever the legacy store and arXiv deliver,
\* whichever edge asks and wherever a process stops, the bundles of a canonical
\* id are of the edition it is pinned to, a bundle is whole when it becomes
\* visible, and a fetch somebody wants parsed does not end without its parse.
THEOREM EditionsAlwaysSound == ConvSpec => EditionsSound
<1> DEFINE Holds == OneEdition /\ JoinedFetchParses
           Kept == \A r \in Revisions :
                     revision'[r].published /\ ~revision[r].published =>
                        /\ Intact(r)
                        /\ \A q \in Revisions : revision'[q].current => q = r
<1>1. EditionInv => Holds
  BY DEF EditionInv
<1>2. EditionInv /\ [ConvNext]_convVars => [Kept]_convVars
  BY WholeWhenPublished
<1>3. EditionsSound <=> []Holds /\ [][Kept]_convVars
  BY Zenon DEF EditionsSound, PublishedWhole
<1> HIDE DEF Holds, Kept
<1> QED
  BY <1>1, <1>2, <1>3, EditionStarts, EditionsKept, PTL DEF ConvSpec

-----------------------------------------------------------------------------
(* Reading: what a request pinned, and the windows that follow each other.   *)

Pieces  == [rev : ShelfRevisions, text : SUBSET (Nat \X Nat), last : BOOLEAN]
Cursors == [rev : ShelfRevisions \cup {Unset}, block : Nat, offset : Nat]
Visits ==
    [at : {"home", "asked", "pinned", "chosen", "probed", "answered"}, kind : Kinds \cup {"none"},
     by : {"qa", "arxiv", "doi"}, work : Works, source : ShelfSources \cup {Unset},
     version : ShelfEditions, rev : ShelfRevisions \cup {Unset}, cursor : Cursors, paper : Works,
     bundle : ShelfRevisions \cup {Unset}, chosen : ShelfSources \cup {Unset}, pieces : Seq(Pieces)]

EndOfText(r) == [block |-> Len(BlocksOf[r]) + 1, offset |-> 0]
Covered(ps) == UNION {ps[j].text : j \in 1 .. Len(ps)}
Seamless(ps) ==
    /\ \A i, j \in 1 .. Len(ps) : i # j => ps[i].rev = ps[j].rev /\ ps[i].text \cap ps[j].text = {}
    /\ \A i \in 1 .. Len(ps) : ps[i].last =>
          UNION {ps[j].text : j \in 1 .. i} = Span(ps[i].rev, TopOfText, EndOfText(ps[i].rev))
\* A cursor stands where the windows so far end.
CursorOK(q) ==
    q.cursor # NoCursor =>
        /\ q.cursor.rev \in ShelfRevisions /\ q.cursor.block \in 1 .. Len(BlocksOf[q.cursor.rev])
        /\ \A i \in 1 .. Len(q.pieces) : q.pieces[i].rev = q.cursor.rev
        /\ Covered(q.pieces) = Span(q.cursor.rev, TopOfText,
                                    [block |-> q.cursor.block, offset |-> q.cursor.offset])
ChainOK(q) ==
    /\ Seamless(q.pieces) /\ CursorOK(q)
    /\ q.at # "answered" /\ q.cursor = NoCursor => q.pieces = <<>>

\* What is pinned before a source is chosen, and what is chosen then.
PinOK(q) ==
    /\ q.at = "asked" => q.bundle = Unset /\ (q.cursor = NoCursor \/ q.rev = Unset)
    /\ q.at \in {"pinned", "chosen", "probed", "answered"} =>
          /\ q.rev # Unset => q.bundle = q.rev
          /\ q.cursor # NoCursor => q.bundle = q.cursor.rev
    /\ q.at = "pinned" /\ q.bundle # Unset => q.source = ParsedFrom[q.bundle]
    /\ q.at = "probed" => q.bundle # Unset
Proven(q) == \/ q.version = 0 \/ OriginOf[q.chosen] = q.version
             \/ imports[<<q.paper, q.version>>] = q.chosen
ChosenOK(q) ==
    q.at \in {"chosen", "probed", "answered"} =>
        /\ q.chosen \in ShelfSources /\ PaperOf[q.chosen] = q.paper
        /\ q.source # Unset => q.chosen = q.source
        /\ q.bundle # Unset => ParsedFrom[q.bundle] = q.chosen
        /\ Proven(q)
VisitOK(q) == PinOK(q) /\ ChosenOK(q) /\ ChainOK(q)

\* An edition's key is bound to a source of its paper.
KeysBound ==
    /\ imports \in [Works \X ShelfEditions -> ShelfSources \cup {Unset}]
    /\ \A w \in Works, e \in ShelfEditions :
          imports[<<w, e>>] # Unset => PaperOf[imports[<<w, e>>]] = w
ReadInv == /\ KeysBound /\ shelf \subseteq ShelfSources /\ published \subseteq ShelfRevisions
           /\ visit \in [Visitors -> Visits] /\ \A v \in Visitors : VisitOK(visit[v])

\* A binding is made once.
BindingsLast ==
    \A w \in Works, e \in ShelfEditions : imports[<<w, e>>] # Unset => imports'[<<w, e>>] = imports[<<w, e>>]

LEMMA Editions ==
  /\ \A s \in ShelfSources : OriginOf[s] \in ShelfEditions /\ PaperOf[s] \in Works
  /\ 0 \in ShelfEditions
BY ReadingConfig DEF ShelfEditions, Versions, Works

LEMMA HomeOK == Home \in Visits /\ VisitOK(Home)
<1>1. NoCursor \in Cursors
  BY DEF NoCursor, Cursors
<1>2. Home \in Visits
  BY <1>1, Editions DEF Home, Visits, Works, Kinds
<1>3. Seamless(<<>>)
  BY DEF Seamless
<1>4. Home.at = "home" /\ Home.cursor = NoCursor /\ Home.pieces = <<>>
  BY DEF Home
<1> QED
  BY <1>2, <1>3, <1>4 DEF VisitOK, PinOK, ChosenOK, ChainOK, CursorOK

LEMMA ReadStarts == ReaInit => ReadInv
BY HomeOK DEF ReaInit, ReadInv, KeysBound

LEMMA StaysOK ==
  ASSUME ReadInv, BindingsLast, NEW q \in Visits, VisitOK(q)
  PROVE  VisitOK(q)'
<1>0. q.paper \in Works /\ q.version \in ShelfEditions /\ Unset \notin ShelfSources
  BY ReadingConfig DEF Visits
<1>1. Proven(q) /\ q.chosen \in ShelfSources => Proven(q)'
  BY <1>0 DEF Proven, BindingsLast
<1> QED
  BY <1>1 DEF VisitOK, PinOK, ChosenOK, ChainOK, CursorOK

LEMMA VisitSteps ==
  ASSUME ReadInv, BindingsLast, KeysBound', shelf' \subseteq ShelfSources, published' \subseteq ShelfRevisions,
         NEW v \in Visitors, NEW q \in Visits, VisitNow(v, q), VisitOK(q)'
  PROVE  ReadInv'
<1>1. visit' \in [Visitors -> Visits] /\ visit'[v] = q /\ \A w \in Visitors : w # v => visit'[w] = visit[w]
  BY DEF ReadInv, VisitNow
<1>2. ASSUME NEW w \in Visitors, w # v PROVE VisitOK(visit[w])'
  <2>1. PICK x \in Visits : x = visit[w] /\ VisitOK(x)
    BY DEF ReadInv
  <2>2. VisitOK(x)'
    BY <2>1, StaysOK
  <2> QED
    BY <1>1, <1>2, <2>1, <2>2
<1> QED
  BY <1>1, <1>2 DEF ReadInv

\* The same while the catalog rests.
LEMMA VisitMoves ==
  ASSUME ReadInv, UNCHANGED Shelves, NEW v \in Visitors, NEW q \in Visits, VisitNow(v, q), VisitOK(q)
  PROVE  ReadInv'
<1>1. BindingsLast /\ KeysBound' /\ shelf' \subseteq ShelfSources /\ published' \subseteq ShelfRevisions
  BY DEF Shelves, BindingsLast, KeysBound, ReadInv
<1> QED
  BY <1>1, StaysOK, VisitSteps

\* The text up to a place and from there on.
LEMMA SpansMeet ==
  ASSUME NEW r \in ShelfRevisions, NEW b \in Nat, NEW o \in Nat, NEW c \in Nat, NEW n \in Nat,
         b >= 1, c > b \/ (c = b /\ n >= o)
  PROVE  /\ Span(r, TopOfText, [block |-> b, offset |-> o])
              \cap Span(r, [block |-> b, offset |-> o], [block |-> c, offset |-> n]) = {}
         /\ Span(r, TopOfText, [block |-> b, offset |-> o])
              \cup Span(r, [block |-> b, offset |-> o], [block |-> c, offset |-> n])
            = Span(r, TopOfText, [block |-> c, offset |-> n])
<1> DEFINE S == (1 .. Len(BlocksOf[r])) \X (0 .. 9)
           Before(x, i, j) == x[1] < i \/ (x[1] = i /\ x[2] < j)
           Beyond(x, i, j) == x[1] > i \/ (x[1] = i /\ x[2] >= j)
           In(x) == x[2] < BlocksOf[r][x[1]]
<1>1. Span(r, TopOfText, [block |-> b, offset |-> o]) = {x \in S : In(x) /\ Beyond(x, 1, 0) /\ Before(x, b, o)}
  BY DEF Span, TopOfText
<1>2. Span(r, [block |-> b, offset |-> o], [block |-> c, offset |-> n])
        = {x \in S : In(x) /\ Beyond(x, b, o) /\ Before(x, c, n)}
  BY DEF Span
<1>3. Span(r, TopOfText, [block |-> c, offset |-> n]) = {x \in S : In(x) /\ Beyond(x, 1, 0) /\ Before(x, c, n)}
  BY DEF Span, TopOfText
<1>4. ASSUME NEW x \in S
      PROVE  /\ ~(Before(x, b, o) /\ Beyond(x, b, o))
             /\ Before(x, b, o) => Before(x, c, n)
             /\ Beyond(x, b, o) => Beyond(x, 1, 0)
             /\ Before(x, b, o) \/ Beyond(x, b, o)
  <2>1. PICK i \in Nat, j \in Nat : i = x[1] /\ j = x[2]
    BY ReadingConfig
  <2> QED
    BY <2>1
<1> HIDE DEF S, In, Before, Beyond
<1> QED
  BY <1>1, <1>2, <1>3, <1>4

LEMMA DispatchKeeps ==
  ASSUME ReadInv, NEW v \in Visitors, NEW kind \in Kinds, NEW by \in {"qa", "arxiv", "doi"}, NEW work \in Works,
         NEW source \in ShelfSources \cup {Unset}, NEW version \in ShelfEditions,
         NEW rev \in ShelfRevisions \cup {Unset}, Dispatch(v, kind, by, work, source, version, rev)
  PROVE  ReadInv'
<1> DEFINE q == [Home EXCEPT !.at = "asked", !.kind = kind, !.by = by, !.work = work,
                             !.source = source, !.version = version, !.rev = rev]
<1>1. q \in Visits /\ q.at = "asked" /\ q.bundle = Unset /\ q.cursor = NoCursor /\ q.pieces = <<>>
  BY HomeOK DEF Home, Visits
<1>2. Seamless(<<>>)
  BY DEF Seamless
<1>3. VisitNow(v, q) /\ UNCHANGED Shelves
  BY DEF Dispatch
<1> HIDE DEF q
<1>4. VisitOK(q)
  BY <1>1, <1>2 DEF VisitOK, PinOK, ChosenOK, ChainOK, CursorOK
<1> QED
  BY <1>1, <1>3, <1>4, VisitMoves

LEMMA FollowKeeps ==
  ASSUME ReadInv, NEW v \in Visitors, FollowNext(v)
  PROVE  ReadInv'
<1>1. PICK r \in Visits : r = visit[v] /\ VisitOK(r) /\ r.at = "answered" /\ r.cursor # NoCursor
  BY DEF FollowNext, ReadInv
<1> DEFINE q == [Home EXCEPT !.at = "asked", !.kind = "read", !.by = r.by, !.work = r.work,
                             !.cursor = r.cursor, !.pieces = r.pieces]
<1>2. /\ q \in Visits /\ q.at = "asked" /\ q.bundle = Unset /\ q.rev = Unset
      /\ q.cursor = r.cursor /\ q.pieces = r.pieces
  <2>1. "read" \in Kinds /\ Home \in Visits /\ Home.bundle = Unset /\ Home.rev = Unset
    BY HomeOK DEF Home, Kinds
  <2>2. /\ r.by \in {"qa", "arxiv", "doi"} /\ r.work \in Works /\ r.cursor \in Cursors
        /\ r.pieces \in Seq(Pieces)
    BY DEF Visits
  <2> QED
    BY <2>1, <2>2 DEF Visits
<1>3. VisitNow(v, q) /\ UNCHANGED Shelves
  BY <1>1 DEF FollowNext
<1> HIDE DEF q
<1>4. VisitOK(q)
  BY <1>1, <1>2 DEF VisitOK, PinOK, ChosenOK, ChainOK, CursorOK
<1> QED
  BY <1>2, <1>3, <1>4, VisitMoves

\* The handler ends, with an error or with its client gone.
LEMMA VisitEndKeeps ==
  ASSUME ReadInv, NEW v \in Visitors, VisitNow(v, Home), UNCHANGED Shelves
  PROVE  ReadInv'
BY HomeOK, VisitMoves

LEMMA PinKeeps ==
  ASSUME ReadInv, NEW v \in Visitors, PinRevision(v)
  PROVE  ReadInv'
<1>1. PICK r \in Visits : r = visit[v] /\ VisitOK(r) /\ r.at = "asked"
  BY DEF PinRevision, ReadInv
<1> DEFINE rev == PinnedRevision(r)
           home == Canonical(r.work)
<1>2. UNCHANGED Shelves /\ home \in Works
  BY <1>1 DEF PinRevision, Canonical, Works, Visits
<1>3. CASE rev = Unset /\ VisitNow(v, [r EXCEPT !.at = "pinned"])
  <2> DEFINE q == [r EXCEPT !.at = "pinned"]
  <2>1. /\ q \in Visits /\ q.at = "pinned" /\ q.cursor = r.cursor /\ q.pieces = r.pieces /\ q.rev = r.rev
        /\ q.bundle = r.bundle
    BY <1>1 DEF Visits
  <2>2. r.rev = Unset /\ r.cursor = NoCursor
    BY <1>1, <1>3, ReadingConfig DEF PinnedRevision, VisitOK, PinOK, ChainOK, CursorOK
  <2> HIDE DEF q
  <2>3. VisitOK(q)
    BY <1>1, <2>1, <2>2 DEF VisitOK, PinOK, ChosenOK, ChainOK, CursorOK
  <2> QED
    BY <1>2, <1>3, <2>1, <2>3, VisitMoves DEF q
<1>4. CASE /\ rev # Unset /\ rev \in published
           /\ VisitNow(v, [r EXCEPT !.at = "pinned", !.paper = home, !.bundle = rev,
                                    !.source = ParsedFrom[rev]])
  <2> DEFINE q == [r EXCEPT !.at = "pinned", !.paper = home, !.bundle = rev, !.source = ParsedFrom[rev]]
  <2>0. rev \in ShelfRevisions /\ ParsedFrom[rev] \in ShelfSources
    BY <1>4, ReadingConfig DEF ReadInv
  <2>1. /\ q \in Visits /\ q.at = "pinned" /\ q.cursor = r.cursor /\ q.pieces = r.pieces /\ q.rev = r.rev
        /\ q.bundle = rev /\ q.source = ParsedFrom[rev]
    BY <1>1, <1>2, <2>0 DEF Visits
  <2>2. (r.rev # Unset => rev = r.rev) /\ (r.cursor # NoCursor => rev = r.cursor.rev)
    BY <1>1 DEF PinnedRevision, VisitOK, PinOK
  <2>3. VisitNow(v, q)
    BY <1>4
  <2> HIDE DEF q, rev, home
  <2>4. VisitOK(q)
    BY <1>1, <2>1, <2>2 DEF VisitOK, PinOK, ChosenOK, ChainOK, CursorOK
  <2> QED
    BY <1>2, <2>1, <2>3, <2>4, VisitMoves
<1> QED
  BY <1>1, <1>2, <1>3, <1>4, VisitEndKeeps DEF PinRevision, Refuse

\* A source is chosen: what is left to show.
LEMMA ChoiceKeeps ==
  ASSUME ReadInv, BindingsLast, KeysBound', shelf' \subseteq ShelfSources, published' \subseteq ShelfRevisions,
         NEW v \in Visitors, NEW r \in Visits, r = visit[v], r.at = "pinned",
         NEW home \in Works, NEW s \in ShelfSources,
         VisitNow(v, [r EXCEPT !.at = "chosen", !.paper = home, !.chosen = s]),
         PaperOf[s] = home, r.source # Unset => s = r.source,
         r.version = 0 \/ OriginOf[s] = r.version \/ imports'[<<home, r.version>>] = s,
         r.source = Unset => r.bundle = Unset
  PROVE  ReadInv'
<1> DEFINE q == [r EXCEPT !.at = "chosen", !.paper = home, !.chosen = s]
<1>1. /\ q \in Visits /\ q.at = "chosen" /\ q.cursor = r.cursor /\ q.pieces = r.pieces /\ q.rev = r.rev
      /\ q.bundle = r.bundle /\ q.source = r.source /\ q.version = r.version /\ q.chosen = s /\ q.paper = home
  BY DEF Visits
<1>2. VisitOK(r) /\ VisitNow(v, q)
  BY DEF ReadInv
<1> HIDE DEF q
<1>3. PinOK(q)' /\ ChainOK(q)'
  BY <1>1, <1>2 DEF VisitOK, PinOK, ChainOK, CursorOK
<1>4. Proven(q)'
  BY <1>1 DEF Proven
<1>5. q.bundle # Unset => ParsedFrom[q.bundle] = q.chosen
  BY <1>1, <1>2 DEF VisitOK, PinOK
<1>6. ChosenOK(q)'
  BY <1>1, <1>4, <1>5 DEF ChosenOK
<1> QED
  BY <1>1, <1>2, <1>3, <1>6, VisitSteps DEF VisitOK

LEMMA SelectKeeps ==
  ASSUME ReadInv, NEW v \in Visitors,
         SelectPinned(v) \/ SelectImported(v) \/ SelectRanked(v) \/ ImportLegacy(v)
  PROVE  ReadInv'
<1>1. PICK r \in Visits : r = visit[v] /\ VisitOK(r) /\ r.at = "pinned"
  BY DEF SelectPinned, SelectImported, SelectRanked, ImportLegacy, ReadInv
<1> DEFINE home == Canonical(r.work)
<1>2. /\ home \in Works /\ r.version \in ShelfEditions /\ r.source \in ShelfSources \cup {Unset}
      /\ r.bundle # Unset => r.source = ParsedFrom[r.bundle] /\ r.source # Unset
  BY <1>1, ReadingConfig DEF Canonical, Works, Visits, VisitOK, PinOK
<1>3. ASSUME UNCHANGED Shelves
      PROVE  BindingsLast /\ KeysBound' /\ shelf' \subseteq ShelfSources /\ published' \subseteq ShelfRevisions
  BY <1>3 DEF Shelves, BindingsLast, KeysBound, ReadInv
<1>4. CASE SelectPinned(v)
  <2>1. r.source # Unset /\ r.source \in ShelfSources /\ UNCHANGED Shelves
    BY <1>1, <1>2, <1>4 DEF SelectPinned
  <2>2. CASE SourcePinHolds(r, home) /\ VisitNow(v, [r EXCEPT !.at = "chosen", !.paper = home, !.chosen = r.source])
    <3>1. /\ PaperOf[r.source] = home
          /\ r.version = 0 \/ OriginOf[r.source] = r.version \/ imports'[<<home, r.version>>] = r.source
      BY <2>1, <2>2 DEF SourcePinHolds, Shelves
    <3> HIDE DEF home
    <3> QED
      BY <1>1, <1>2, <1>3, <2>1, <2>2, <3>1, ChoiceKeeps
  <2>3. CASE Refuse(v)
    BY <2>1, <2>3, VisitEndKeeps DEF Refuse
  <2> QED
    BY <1>1, <1>4, <2>2, <2>3 DEF SelectPinned
<1>5. CASE SelectImported(v)
  <2>1. PICK s \in Imported(r, home) :
          VisitNow(v, [r EXCEPT !.at = "chosen", !.paper = home, !.chosen = s])
    BY <1>1, <1>5 DEF SelectImported
  <2>2. r.source = Unset /\ UNCHANGED Shelves
    BY <1>1, <1>5 DEF SelectImported
  <2>3. PICK e \in AliasOf(r) : s = imports[<<home, e>>] /\ s # Unset
    BY <2>1 DEF Imported
  <2>4. e \in ShelfEditions /\ (r.version # 0 => e = r.version)
    BY <1>2, Editions DEF AliasOf
  <2>5. s \in ShelfSources /\ PaperOf[s] = home
    BY <1>2, <2>3, <2>4 DEF ReadInv, KeysBound
  <2>6. r.version = 0 \/ OriginOf[s] = r.version \/ imports'[<<home, r.version>>] = s
    BY <2>2, <2>3, <2>4 DEF Shelves
  <2> HIDE DEF home
  <2> QED
    BY <1>1, <1>2, <1>3, <2>1, <2>2, <2>5, <2>6, ChoiceKeeps
<1>6. CASE SelectRanked(v)
  <2> DEFINE here == {OriginOf[s] : s \in Shelved(home)}
             old == {e \in ShelfEditions : <<home, e>> \in legacyKeys}
  <2>1. PICK e \in Ranked(r, here \cup old), s \in Shelved(home) :
          OriginOf[s] = e /\ VisitNow(v, [r EXCEPT !.at = "chosen", !.paper = home, !.chosen = s])
    BY <1>1, <1>6 DEF SelectRanked
  <2>2. r.source = Unset /\ UNCHANGED Shelves
    BY <1>1, <1>6 DEF SelectRanked
  <2>3. s \in ShelfSources /\ PaperOf[s] = home
    BY DEF Shelved, ReadInv
  <2>4. r.version # 0 => e = r.version
    BY DEF Ranked, Rank
  <2> HIDE DEF home
  <2> QED
    BY <1>1, <1>2, <1>3, <2>1, <2>2, <2>3, <2>4, ChoiceKeeps
<1>7. CASE ImportLegacy(v)
  <2> DEFINE here == {OriginOf[s] : s \in Shelved(home)}
             old == {e \in ShelfEditions : <<home, e>> \in legacyKeys}
  <2>1. PICK e \in Ranked(r, here \cup old), s \in ShelfSources :
          /\ e \in old \ here /\ PaperOf[s] = home /\ OriginOf[s] = e
          /\ IF imports[<<home, e>>] = Unset
             THEN shelf' = shelf \cup {s} /\ imports' = [imports EXCEPT ![<<home, e>>] = s]
             ELSE UNCHANGED <<shelf, imports>>
          /\ VisitNow(v, [r EXCEPT !.at = "chosen", !.paper = home, !.chosen = imports'[<<home, e>>]])
    BY <1>1, <1>7 DEF ImportLegacy
  <2>2. r.source = Unset /\ UNCHANGED published
    BY <1>1, <1>7 DEF ImportLegacy
  <2>3. e \in ShelfEditions /\ (r.version # 0 => e = r.version)
    BY <2>1 DEF Ranked, Rank
  <2> HIDE DEF home
  <2>4. <<home, e>> \in Works \X ShelfEditions /\ imports \in [Works \X ShelfEditions -> ShelfSources \cup {Unset}]
    BY <1>2, <2>3 DEF ReadInv, KeysBound
  <2>5. BindingsLast /\ KeysBound' /\ shelf' \subseteq ShelfSources /\ published' \subseteq ShelfRevisions
    <3>1. CASE imports[<<home, e>>] = Unset
      BY <1>2, <2>1, <2>2, <2>3, <2>4, <3>1 DEF ReadInv, KeysBound, BindingsLast
    <3>2. CASE imports[<<home, e>>] # Unset
      BY <2>1, <2>2, <3>2 DEF ReadInv, KeysBound, BindingsLast
    <3> QED
      BY <3>1, <3>2
  <2>6. PICK c \in ShelfSources : c = imports'[<<home, e>>] /\ PaperOf[c] = home
    <3>1. CASE imports[<<home, e>>] = Unset
      BY <2>1, <2>4, <3>1
    <3>2. CASE imports[<<home, e>>] # Unset
      BY <1>2, <2>1, <2>3, <2>4, <3>2 DEF ReadInv, KeysBound
    <3> QED
      BY <3>1, <3>2
  <2>7. r.version = 0 \/ OriginOf[c] = r.version \/ imports'[<<home, r.version>>] = c
    BY <2>3, <2>6
  <2>8. VisitNow(v, [r EXCEPT !.at = "chosen", !.paper = home, !.chosen = c])
    BY <2>1, <2>6
  <2> QED
    BY <1>1, <1>2, <2>2, <2>5, <2>6, <2>7, <2>8, ChoiceKeeps
<1> QED
  BY <1>4, <1>5, <1>6, <1>7

\* The handlers between the choice and the answer.
LEMMA AnswerKeeps ==
  ASSUME ReadInv, NEW v \in Visitors, ReadyContent(v) \/ AnswerWhole(v) \/ ServeSourcePDF(v)
  PROVE  ReadInv'
<1>1. PICK r \in Visits : r = visit[v] /\ VisitOK(r) /\ r.at \in {"chosen", "probed"}
  BY DEF ReadyContent, AnswerWhole, ServeSourcePDF, ReadInv
<1>2. UNCHANGED Shelves
  BY DEF ReadyContent, AnswerWhole, ServeSourcePDF
<1>3. ASSUME NEW to \in {"probed", "answered"}, VisitTo(v, to), to = "probed" => r.bundle # Unset
      PROVE  ReadInv'
  <2> DEFINE q == [r EXCEPT !.at = to]
  <2>1. /\ q \in Visits /\ q.at = to /\ q.cursor = r.cursor /\ q.pieces = r.pieces /\ q.rev = r.rev
        /\ q.bundle = r.bundle /\ q.source = r.source /\ q.version = r.version /\ q.chosen = r.chosen
        /\ q.paper = r.paper
    BY DEF Visits
  <2>2. VisitNow(v, q)
    BY <1>1, <1>3 DEF VisitTo
  <2> HIDE DEF q
  <2>3. VisitOK(q)
    BY <1>1, <1>3, <2>1 DEF VisitOK, PinOK, ChosenOK, ChainOK, CursorOK, Proven
  <2> QED
    BY <1>2, <2>1, <2>2, <2>3, VisitMoves
<1>4. ASSUME NEW n \in Newest(r.chosen), r.at = "chosen", r.bundle = Unset,
             VisitNow(v, [r EXCEPT !.at = "probed", !.bundle = n])
      PROVE  ReadInv'
  <2> DEFINE q == [r EXCEPT !.at = "probed", !.bundle = n]
  <2>1. n \in ShelfRevisions /\ ParsedFrom[n] = r.chosen
    BY DEF Newest, ReadInv
  <2>2. /\ q \in Visits /\ q.at = "probed" /\ q.cursor = r.cursor /\ q.pieces = r.pieces /\ q.rev = r.rev
        /\ q.bundle = n /\ q.source = r.source /\ q.version = r.version /\ q.chosen = r.chosen
        /\ q.paper = r.paper
    BY <2>1 DEF Visits
  <2>3. n # Unset /\ r.rev = Unset /\ r.cursor = NoCursor
    BY <1>1, <1>4, <2>1, ReadingConfig DEF VisitOK, PinOK, ChainOK, CursorOK
  <2>4. VisitNow(v, q)
    BY <1>4
  <2> HIDE DEF q
  <2>5. VisitOK(q)
    BY <1>1, <1>4, <2>1, <2>2, <2>3 DEF VisitOK, PinOK, ChosenOK, ChainOK, CursorOK, Proven
  <2> QED
    BY <1>2, <2>2, <2>4, <2>5, VisitMoves
<1>5. CASE ReadyContent(v)
  BY <1>1, <1>3, <1>4, <1>5, VisitEndKeeps DEF ReadyContent, Refuse
<1>6. CASE AnswerWhole(v) \/ ServeSourcePDF(v)
  BY <1>1, <1>3, <1>6, VisitEndKeeps DEF AnswerWhole, ServeSourcePDF, Refuse
<1> QED
  BY <1>5, <1>6

\* A bounded set of numbers that is not empty has a greatest one.
LEMMA GreatestNumber ==
  ASSUME NEW m \in Nat, NEW S, S \subseteq 0 .. m, S # {}
  PROVE  Max(S) \in S
<1> DEFINE T == {m - x : x \in S}
<1>1. T \subseteq Nat /\ T # {}
  <2>1. ASSUME NEW x \in S PROVE m - x \in Nat
    BY <2>1
  <2>2. PICK x : x \in S
    OBVIOUS
  <2> QED
    BY <2>1, <2>2
<1> HIDE DEF T
<1>2. PICK t \in T : \A y \in T : t <= y
  BY <1>1, LeastNumber
<1>3. PICK x \in S : t = m - x
  BY DEF T
<1>4. ASSUME NEW y \in S PROVE x >= y
  <2>1. m - y \in T
    BY DEF T
  <2>2. m - x <= m - y /\ x \in Nat /\ y \in Nat
    BY <1>2, <1>3, <2>1
  <2> QED
    BY <2>2
<1>5. \E z \in S : \A y \in S : z >= y
  BY <1>4
<1> QED
  BY <1>5 DEF Max

\* A window ends where the next one begins, and at or after its own beginning;
\* when it reaches the end it holds all that was left.
LEMMA WindowEnds ==
  ASSUME NEW r \in ShelfRevisions, NEW b \in Nat, NEW o \in Nat, b >= 1,
         b <= Len(BlocksOf[r]) \/ b = 1,
         NEW next \in AfterWindow(r, [block |-> b, offset |-> o])
  PROVE  /\ next = [block |-> next.block, offset |-> next.offset] /\ next.block \in Nat /\ next.offset \in Nat
         /\ next.block > b \/ (next.block = b /\ next.offset >= o)
         /\ Fitting(r, [block |-> b, offset |-> o]) # {} =>
               next = [block |-> Max(Fitting(r, [block |-> b, offset |-> o])) + 1, offset |-> 0]
         /\ next.block > Len(BlocksOf[r]) =>
               Span(r, TopOfText, next) = Span(r, TopOfText, EndOfText(r))
<1> DEFINE at == [block |-> b, offset |-> o]
           F == Fitting(r, at)
<1>1. PICK m \in Nat : m = Len(BlocksOf[r])
  BY ReadingConfig
<1>2. at.block = b /\ at.offset = o
  OBVIOUS
<1>3. F \subseteq b .. m
  BY <1>1, <1>2 DEF Fitting
<1> HIDE DEF at
<1>4. CASE F # {}
  <2>1. Max(F) \in F
    <3> HIDE DEF F
    <3>1. F \subseteq 0 .. m
      BY <1>3
    <3> QED
      BY <1>4, <3>1, GreatestNumber
  <2>2. next = [block |-> Max(F) + 1, offset |-> 0]
    BY <1>4 DEF AfterWindow, at
  <2> HIDE DEF F
  <2>3. Max(F) \in Nat /\ b <= Max(F) /\ Max(F) <= m
    <3>1. Max(F) \in b .. m
      BY <1>3, <2>1
    <3> QED
      BY <3>1
  <2>4. next.block = Max(F) + 1 /\ next.offset = 0
    BY <2>2
  <2>5. next.block > m => next = EndOfText(r)
    BY <1>1, <2>2, <2>3, <2>4 DEF EndOfText
  <2> QED
    BY <1>1, <2>2, <2>3, <2>4, <2>5 DEF F, at
<1>5. CASE F = {}
  <2>1. PICK n \in (WindowLimit \div 2 + 1) .. WindowLimit : next = [block |-> b, offset |-> o + n]
    BY <1>2, <1>5 DEF AfterWindow, at
  <2>2. n \in Nat
    <3>1. WindowLimit \in Nat
      BY ReadingConfig
    <3>2. WindowLimit \div 2 \in Nat
      BY <3>1
    <3> QED
      BY <3>1, <3>2
  <2>3. next.block = b /\ next.offset = o + n
    BY <2>1
  <2>4. next.block > m => Span(r, TopOfText, next) = Span(r, TopOfText, EndOfText(r))
    <3>1. CASE m = 0
      <4>1. 1 .. Len(BlocksOf[r]) = {}
        BY <1>1, <3>1
      <4> QED
        BY <4>1 DEF Span
    <3> QED
      BY <1>1, <2>3, <3>1
  <2> QED
    BY <1>1, <1>5, <2>1, <2>2, <2>3, <2>4 DEF F, at
<1> QED
  BY <1>4, <1>5

\* One more window after the ones so far.
LEMMA Appended ==
  ASSUME NEW ps \in Seq(Pieces), NEW p \in Pieces, Seamless(ps),
         \A i \in 1 .. Len(ps) : ps[i].rev = p.rev, Covered(ps) \cap p.text = {},
         p.last => Covered(ps) \cup p.text = Span(p.rev, TopOfText, EndOfText(p.rev))
  PROVE  /\ Append(ps, p) \in Seq(Pieces) /\ Seamless(Append(ps, p))
         /\ Covered(Append(ps, p)) = Covered(ps) \cup p.text
         /\ \A i \in 1 .. Len(Append(ps, p)) : Append(ps, p)[i].rev = p.rev
<1> DEFINE qs == Append(ps, p)
<1>1. PICK n \in Nat : n = Len(ps)
  OBVIOUS
<1>2. /\ qs \in Seq(Pieces) /\ Len(qs) = n + 1 /\ qs[n + 1] = p
      /\ \A i \in 1 .. n : qs[i] = ps[i]
  BY <1>1
<1> HIDE DEF qs
<1>3. ASSUME NEW i \in 1 .. n
      PROVE  UNION {qs[j].text : j \in 1 .. i} = UNION {ps[j].text : j \in 1 .. i}
  BY <1>2
<1>4. UNION {qs[j].text : j \in 1 .. n + 1} = Covered(ps) \cup p.text
  <2>1. 1 .. n + 1 = (1 .. n) \cup {n + 1}
    OBVIOUS
  <2>2. {qs[j].text : j \in 1 .. n + 1} = {ps[j].text : j \in 1 .. n} \cup {p.text}
    BY <1>2, <2>1
  <2> QED
    BY <1>1, <2>2 DEF Covered
<1>5. \A i \in 1 .. n : qs[i].text \cap p.text = {}
  BY <1>1, <1>2 DEF Covered
<1>6. \A i, j \in 1 .. n + 1 : i # j => qs[i].rev = qs[j].rev /\ qs[i].text \cap qs[j].text = {}
  <2>1. ASSUME NEW i \in 1 .. n + 1, NEW j \in 1 .. n + 1, i # j
        PROVE  qs[i].rev = qs[j].rev /\ qs[i].text \cap qs[j].text = {}
    <3>1. CASE i \in 1 .. n /\ j \in 1 .. n
      BY <1>1, <1>2, <2>1, <3>1 DEF Seamless
    <3>2. CASE i \in 1 .. n /\ j = n + 1
      BY <1>1, <1>2, <1>5, <3>2
    <3>3. CASE i = n + 1 /\ j \in 1 .. n
      BY <1>1, <1>2, <1>5, <3>3
    <3> QED
      BY <2>1, <3>1, <3>2, <3>3
  <2> QED
    BY <2>1
<1>7. ASSUME NEW i \in 1 .. n + 1, qs[i].last
      PROVE  UNION {qs[j].text : j \in 1 .. i} = Span(qs[i].rev, TopOfText, EndOfText(qs[i].rev))
  <2>1. CASE i \in 1 .. n
    <3>1. UNION {ps[j].text : j \in 1 .. i} = Span(ps[i].rev, TopOfText, EndOfText(ps[i].rev))
      BY <1>1, <1>2, <1>7, <2>1 DEF Seamless
    <3> QED
      BY <1>2, <1>3, <2>1, <3>1
  <2>2. CASE i = n + 1
    BY <1>2, <1>4, <1>7, <2>2
  <2> QED
    BY <2>1, <2>2
<1>8. \A i \in 1 .. n + 1 : qs[i].rev = p.rev
  <2>1. ASSUME NEW i \in 1 .. n + 1 PROVE qs[i].rev = p.rev
    <3>1. CASE i \in 1 .. n
      BY <1>1, <1>2, <3>1
    <3>2. CASE i = n + 1
      BY <1>2, <3>2
    <3> QED
      BY <3>1, <3>2
  <2> QED
    BY <2>1
<1> QED
  BY <1>2, <1>4, <1>6, <1>7, <1>8 DEF Seamless, Covered, qs

LEMMA WindowKeeps ==
  ASSUME ReadInv, NEW v \in Visitors, ReadWindow(v)
  PROVE  ReadInv'
<1>1. PICK r \in Visits : r = visit[v] /\ VisitOK(r) /\ r.at = "probed"
  BY DEF ReadWindow, ReadInv
<1> DEFINE R == r.bundle
           from == StartOf(r)
<1>2. /\ R \in ShelfRevisions /\ UNCHANGED Shelves /\ Seamless(r.pieces) /\ r.pieces \in Seq(Pieces)
      /\ r.cursor \in Cursors
  BY <1>1 DEF ReadWindow, Visits, VisitOK, PinOK, ChainOK
<1>3. PICK b \in Nat, o \in Nat :
        /\ from = [block |-> b, offset |-> o] /\ b >= 1 /\ (b <= Len(BlocksOf[R]) \/ b = 1)
        /\ Covered(r.pieces) = Span(R, TopOfText, [block |-> b, offset |-> o])
        /\ \A i \in 1 .. Len(r.pieces) : r.pieces[i].rev = R
  <2>1. CASE r.cursor = NoCursor
    <3>1. r.pieces = <<>> /\ from = [block |-> 1, offset |-> 0]
      BY <1>1, <2>1 DEF VisitOK, ChainOK, StartOf, TopOfText
    <3>2. Span(R, TopOfText, [block |-> 1, offset |-> 0]) = {}
      <4>1. ASSUME NEW x \in (1 .. Len(BlocksOf[R])) \X (0 .. 9)
            PROVE  ~(x[1] < 1 \/ (x[1] = 1 /\ x[2] < 0))
        OBVIOUS
      <4> QED
        BY <4>1 DEF Span
    <3>3. Covered(<<>>) = {}
      BY DEF Covered
    <3>4. Covered(r.pieces) = Span(R, TopOfText, [block |-> 1, offset |-> 0]) /\ Len(r.pieces) = 0
      BY <3>1, <3>2, <3>3
    <3> HIDE DEF from, R
    <3> QED
      BY <3>1, <3>4, SMTT(30)
  <2>2. CASE r.cursor # NoCursor
    <3>1. /\ r.cursor.rev = R /\ r.cursor.block \in 1 .. Len(BlocksOf[R])
          /\ \A i \in 1 .. Len(r.pieces) : r.pieces[i].rev = R
          /\ Covered(r.pieces) = Span(R, TopOfText, [block |-> r.cursor.block, offset |-> r.cursor.offset])
      BY <1>1, <2>2 DEF VisitOK, ChainOK, CursorOK, PinOK
    <3>2. from = [block |-> r.cursor.block, offset |-> r.cursor.offset]
      BY <2>2 DEF StartOf
    <3>3. r.cursor.block \in Nat /\ r.cursor.offset \in Nat
      BY <1>2 DEF Cursors
    <3>4. r.cursor.block >= 1 /\ r.cursor.block <= Len(BlocksOf[R])
      BY <3>1, <3>3
    <3> QED
      BY <3>1, <3>2, <3>3, <3>4
  <2> QED
    BY <2>1, <2>2
<1> DEFINE at == [block |-> b, offset |-> o]
           len == Len(BlocksOf[R])
<1>4. PICK next \in AfterWindow(R, at) :
        VisitNow(v, [r EXCEPT !.at = "answered",
           !.pieces = Append(@, [rev |-> R, last |-> next.block > len,
                                 text |-> Span(R, at, IF Fitting(R, at) # {}
                                                      THEN [block |-> Max(Fitting(R, at)) + 1, offset |-> 0]
                                                      ELSE next)]),
           !.cursor = IF next.block > len THEN NoCursor
                      ELSE [rev |-> R, block |-> next.block, offset |-> next.offset]])
  <2>1. from = at
    BY <1>3
  <2>2. PICK next \in AfterWindow(R, from) :
          VisitNow(v, [r EXCEPT !.at = "answered",
             !.pieces = Append(@, [rev |-> R,
                                   text |-> Span(R, from, IF Fitting(R, from) # {}
                                                        THEN [block |-> Max(Fitting(R, from)) + 1, offset |-> 0]
                                                        ELSE next),
                                   last |-> next.block > len]),
             !.cursor = IF next.block > len THEN NoCursor
                        ELSE [rev |-> R, block |-> next.block, offset |-> next.offset]])
    BY <1>1 DEF ReadWindow
  <2> HIDE DEF from, at, R, len
  <2> QED
    BY <2>1, <2>2
<1>5. /\ next = [block |-> next.block, offset |-> next.offset] /\ next.block \in Nat /\ next.offset \in Nat
      /\ next.block > b \/ (next.block = b /\ next.offset >= o)
      /\ Fitting(R, at) # {} => next = [block |-> Max(Fitting(R, at)) + 1, offset |-> 0]
      /\ next.block > len => Span(R, TopOfText, next) = Span(R, TopOfText, EndOfText(R))
  <2> HIDE DEF R, from
  <2> QED
    BY <1>2, <1>3, <1>4, WindowEnds
<1> DEFINE p == [rev |-> R, text |-> Span(R, at, next), last |-> next.block > len]
           c == IF next.block > len THEN NoCursor
                ELSE [rev |-> R, block |-> next.block, offset |-> next.offset]
           ps == Append(r.pieces, p)
           q == [r EXCEPT !.at = "answered", !.pieces = ps, !.cursor = c]
<1>6. VisitNow(v, q)
  <2>1. next = IF Fitting(R, at) # {} THEN [block |-> Max(Fitting(R, at)) + 1, offset |-> 0] ELSE next
    <3> HIDE DEF R, at
    <3> QED
      BY <1>5
  <2> HIDE DEF R, at, len
  <2> QED
    BY <1>4, <2>1
<1>7. /\ Covered(r.pieces) \cap p.text = {}
      /\ Covered(r.pieces) \cup p.text = Span(R, TopOfText, next)
  <2>1. PICK i \in Nat, j \in Nat : next = [block |-> i, offset |-> j] /\ (i > b \/ (i = b /\ j >= o))
    BY <1>5
  <2>2. p.text = Span(R, at, next)
    OBVIOUS
  <2> HIDE DEF R, p
  <2> QED
    BY <1>2, <1>3, <2>1, <2>2, SpansMeet
<1>8. p \in Pieces /\ p.rev = R /\ (p.last <=> next.block > len)
  <2>1. Span(R, at, next) \subseteq Nat \X Nat
    BY DEF Span
  <2>2. (next.block > len) \in BOOLEAN
    OBVIOUS
  <2> HIDE DEF at, len
  <2> QED
    BY <1>2, <2>1, <2>2 DEF Pieces
<1>9. /\ ps \in Seq(Pieces) /\ Seamless(ps) /\ Covered(ps) = Span(R, TopOfText, next)
      /\ \A i \in 1 .. Len(ps) : ps[i].rev = R
  <2>1. p.last => Covered(r.pieces) \cup p.text = Span(p.rev, TopOfText, EndOfText(p.rev))
    <3> HIDE DEF p, R, at, len
    <3> QED
      BY <1>5, <1>7, <1>8
  <2>2. \A i \in 1 .. Len(r.pieces) : r.pieces[i].rev = p.rev
    <3> HIDE DEF p, R, at, len
    <3> QED
      BY <1>3, <1>8
  <2> HIDE DEF p, R, at, len
  <2>3. /\ ps \in Seq(Pieces) /\ Seamless(ps) /\ Covered(ps) = Covered(r.pieces) \cup p.text
        /\ \A i \in 1 .. Len(ps) : ps[i].rev = p.rev
    BY <1>2, <1>7, <1>8, <2>1, <2>2, Appended, Zenon
  <2> HIDE DEF ps
  <2> QED
    BY <1>7, <1>8, <2>3
<1>10. c \in Cursors /\ (c # NoCursor => next.block <= len /\ c = [rev |-> R, block |-> next.block, offset |-> next.offset])
  <2>1. NoCursor \in Cursors
    BY DEF NoCursor, Cursors
  <2>2. len \in Nat
    BY <1>2, ReadingConfig
  <2> HIDE DEF len, R
  <2> QED
    BY <1>2, <1>5, <2>1, <2>2 DEF Cursors
<1>11. /\ q \in Visits /\ q.at = "answered" /\ q.cursor = c /\ q.pieces = ps /\ q.rev = r.rev
       /\ q.bundle = R /\ q.source = r.source /\ q.version = r.version /\ q.chosen = r.chosen
       /\ q.paper = r.paper
  <2>1. ps \in Seq(Pieces) /\ c \in Cursors
    BY <1>9, <1>10
  <2> HIDE DEF ps, c
  <2> QED
    BY <2>1 DEF Visits
<1> HIDE DEF q
<1>12. CursorOK(q)
  <2>1. CASE c = NoCursor
    BY <1>11, <2>1 DEF CursorOK
  <2>2. CASE c # NoCursor
    <3>1. c.rev = R /\ c.block = next.block /\ c.offset = next.offset /\ next.block <= len
      BY <1>10, <2>2
    <3>2. next.block \in 1 .. len
      BY <1>3, <1>5, <3>1
    <3>3. Covered(ps) = Span(R, TopOfText, [block |-> c.block, offset |-> c.offset])
      BY <1>5, <1>9, <3>1
    <3> HIDE DEF c, ps, R
    <3> QED
      BY <1>2, <1>9, <1>11, <3>1, <3>2, <3>3 DEF CursorOK
  <2> QED
    BY <2>1, <2>2
<1>13. VisitOK(q)
  <2>1. ChainOK(q)
    BY <1>9, <1>11, <1>12 DEF ChainOK
  <2>2. PinOK(q)
    <3>1. c # NoCursor => c.rev = R
      BY <1>10
    <3> HIDE DEF c
    <3> QED
      BY <1>1, <1>11, <3>1 DEF VisitOK, PinOK
  <2>3. ChosenOK(q)
    BY <1>1, <1>11 DEF VisitOK, ChosenOK, Proven
  <2> QED
    BY <2>1, <2>2, <2>3 DEF VisitOK
<1> QED
  BY <1>2, <1>6, <1>11, <1>13, VisitMoves

\* The catalog meanwhile.
LEMMA CatalogStepsKeep ==
  ASSUME ReadInv, \/ MergeWorks \/ \E s \in ShelfSources : Shelve(s)
                  \/ \E r \in ShelfRevisions : PublishRevision(r)
                  \/ \E x \in ShelfSources \cup ShelfRevisions : Mishap(x)
  PROVE  ReadInv'
<1>1. UNCHANGED visit /\ shelf' \subseteq ShelfSources /\ published' \subseteq ShelfRevisions
  BY DEF MergeWorks, Shelve, PublishRevision, Mishap, ReadInv
<1>2. BindingsLast /\ KeysBound'
  <2>1. CASE UNCHANGED imports
    BY <2>1 DEF BindingsLast, KeysBound, ReadInv
  <2>2. ASSUME NEW s \in ShelfSources,
               imports' = [imports EXCEPT ![<<PaperOf[s], OriginOf[s]>>] = IF @ = Unset THEN s ELSE @]
        PROVE  BindingsLast /\ KeysBound'
    <3> DEFINE k == <<PaperOf[s], OriginOf[s]>>
    <3>1. k \in Works \X ShelfEditions /\ imports \in [Works \X ShelfEditions -> ShelfSources \cup {Unset}]
      BY Editions DEF ReadInv, KeysBound
    <3>2. imports' = [imports EXCEPT ![k] = IF imports[k] = Unset THEN s ELSE imports[k]]
      BY <2>2, <3>1
    <3>3. imports' \in [Works \X ShelfEditions -> ShelfSources \cup {Unset}]
      BY <3>1, <3>2
    <3>4. ASSUME NEW w \in Works, NEW e \in ShelfEditions
          PROVE  /\ imports[<<w, e>>] # Unset => imports'[<<w, e>>] = imports[<<w, e>>]
                 /\ imports'[<<w, e>>] # Unset => PaperOf[imports'[<<w, e>>]] = w
      <4>1. CASE <<w, e>> = k
        BY <3>1, <3>2, <4>1 DEF ReadInv, KeysBound
      <4>2. CASE <<w, e>> # k
        <5>1. imports'[<<w, e>>] = imports[<<w, e>>]
          BY <3>1, <3>2, <4>2
        <5> QED
          BY <5>1 DEF ReadInv, KeysBound
      <4> QED
        BY <4>1, <4>2
    <3> QED
      BY <3>3, <3>4 DEF BindingsLast, KeysBound
  <2> QED
    BY <2>1, <2>2 DEF MergeWorks, Shelve, PublishRevision, Mishap
<1>3. ASSUME NEW v \in Visitors PROVE VisitOK(visit[v])'
  <2>1. PICK q \in Visits : q = visit[v] /\ VisitOK(q)
    BY DEF ReadInv
  <2>2. VisitOK(q)'
    BY <1>2, <2>1, StaysOK
  <2> QED
    BY <1>1, <2>1, <2>2
<1> QED
  BY <1>1, <1>2, <1>3 DEF ReadInv

LEMMA ReadInvNext == ReadInv /\ [ReaNext]_reaVars => ReadInv'
<1> SUFFICES ASSUME ReadInv, [ReaNext]_reaVars PROVE ReadInv'
  OBVIOUS
<1>1. CASE UNCHANGED reaVars
  <2>1. UNCHANGED <<imports, shelf, published, visit>>
    BY <1>1 DEF reaVars
  <2> QED
    BY <2>1 DEF ReadInv, KeysBound, VisitOK, PinOK, ChosenOK, Proven, ChainOK, CursorOK
<1>2. ASSUME NEW v \in Visitors, Depart(v) \/ NothingSelected(v) \/ Corrupt(v) PROVE ReadInv'
  BY <1>2, VisitEndKeeps DEF Depart, NothingSelected, Corrupt, Refuse
<1> QED
  BY <1>1, <1>2, DispatchKeeps, FollowKeeps, PinKeeps, SelectKeeps, AnswerKeeps, WindowKeeps,
     CatalogStepsKeep DEF ReaNext

\* papers_read.go: whatever is merged, frozen, bound, published or damaged
\* between a handler's calls, an answer is of what the request pinned, and the
\* windows of one reading are of one revision, do not overlap and leave nothing
\* out.
THEOREM ReadingAlwaysSound == ReaSpec => []ReadingSound
<1>1. ReadInv => ReadingSound
  <2> SUFFICES ASSUME ReadInv PROVE ReadingSound
    OBVIOUS
  <2>1. PinsHonoured
    BY DEF ReadInv, VisitOK, PinOK, ChosenOK, Proven, PinsHonoured
  <2>2. ReadingSeamless
    BY Zenon DEF ReadInv, VisitOK, ChainOK, Seamless, ReadingSeamless, EndOfText
  <2> QED
    BY <2>1, <2>2 DEF ReadingSound
<1> QED
  BY <1>1, ReadStarts, ReadInvNext, PTL DEF ReaSpec

\* A request in progress has room for one more window.
Underway == {"asked", "pinned", "chosen", "probed"}
RoomOK(q) == Len(q.pieces) <= MaxPieces /\ (q.at \in Underway => Len(q.pieces) < MaxPieces)
RoomInv == /\ mergedQ \in BOOLEAN /\ legacyKeys \subseteq Works \X ShelfEditions
           /\ \A v \in Visitors : RoomOK(visit[v])

\* One visit moves on, to a record with room.
LEMMA RoomLeft ==
  ASSUME ReadInv, RoomInv, NEW v \in Visitors, NEW q, VisitNow(v, q), RoomOK(q),
         UNCHANGED <<mergedQ, legacyKeys>>
  PROVE  RoomInv'
<1>1. visit \in [Visitors -> Visits]
  BY DEF ReadInv
<1>2. \A w \in Visitors : visit'[w] = IF w = v THEN q ELSE visit[w]
  BY <1>1 DEF VisitNow
<1>3. \A w \in Visitors : RoomOK(visit'[w])
  BY <1>2 DEF RoomInv
<1> QED
  BY <1>3 DEF RoomInv, RoomOK

\* What the handlers write into a request leaves its windows alone.
WithStage(r, at)               == [r EXCEPT !.at = at]
WithBundle(r, bundle)          == [r EXCEPT !.at = "probed", !.bundle = bundle]
WithChoice(r, work, src)       == [r EXCEPT !.at = "chosen", !.paper = work, !.chosen = src]
WithPin(r, work, bundle, src)  == [r EXCEPT !.at = "pinned", !.paper = work, !.bundle = bundle,
                                            !.source = src]
Keeps(q, r) == q.pieces = r.pieces \/ q = Home
LEMMA PiecesStay ==
  ASSUME NEW r \in Visits, NEW at, NEW work, NEW bundle, NEW src
  PROVE  /\ Keeps(WithStage(r, at), r) /\ Keeps(WithBundle(r, bundle), r)
         /\ Keeps(WithChoice(r, work, src), r) /\ Keeps(WithPin(r, work, bundle, src), r)
         /\ Keeps(Home, r)
<1>1. WithStage(r, at).pieces = r.pieces /\ WithBundle(r, bundle).pieces = r.pieces
  BY DEF Visits, WithStage, WithBundle
<1>2. WithChoice(r, work, src).pieces = r.pieces /\ WithPin(r, work, bundle, src).pieces = r.pieces
  BY DEF Visits, WithChoice, WithPin
<1> QED
  BY <1>1, <1>2 DEF Keeps

\* A handler that does not answer a window.
LEMMA HandlersRoom ==
  ASSUME ReadInv, RoomInv, NEW v \in Visitors, visit[v].at \in Underway, UNCHANGED <<mergedQ, legacyKeys>>,
         NEW q, VisitNow(v, q), Keeps(q, visit[v])
  PROVE  RoomInv'
<1>1. MaxPieces \in Nat \ {0}
  BY ReadingConfig
<1>2. CASE q = Home
  <2>1. Len(Home.pieces) = 0
    BY DEF Home
  <2>2. RoomOK(q)
    BY <1>1, <1>2, <2>1 DEF RoomOK
  <2> QED
    BY <2>2, RoomLeft
<1>3. CASE q.pieces = visit[v].pieces
  <2>1. RoomOK(q)
    BY <1>3 DEF RoomInv, RoomOK
  <2> QED
    BY <2>1, RoomLeft
<1> QED
  BY <1>2, <1>3 DEF Keeps

LEMMA ResolvesRoom ==
  ASSUME ReadInv, RoomInv, NEW v \in Visitors,
         \/ PinRevision(v) \/ SelectPinned(v) \/ SelectImported(v) \/ SelectRanked(v)
         \/ ImportLegacy(v) \/ NothingSelected(v)
  PROVE  RoomInv'
<1>1. PICK r \in Visits : r = visit[v]
  BY DEF ReadInv
<1>2. r.at \in {"asked", "pinned"} /\ UNCHANGED <<mergedQ, legacyKeys>>
  <2>1. PinRevision(v) \/ SelectPinned(v) \/ SelectImported(v) =>
           r.at \in {"asked", "pinned"} /\ UNCHANGED <<mergedQ, legacyKeys>>
    BY <1>1 DEF PinRevision, SelectPinned, SelectImported, Shelves
  <2>2. SelectRanked(v) => r.at = "pinned" /\ UNCHANGED <<mergedQ, legacyKeys>>
    BY <1>1 DEF SelectRanked, Shelves
  <2>3. ImportLegacy(v) => r.at = "pinned" /\ UNCHANGED <<mergedQ, legacyKeys>>
    BY <1>1 DEF ImportLegacy
  <2>4. NothingSelected(v) => r.at = "pinned" /\ UNCHANGED <<mergedQ, legacyKeys>>
    BY <1>1 DEF NothingSelected, Shelves
  <2> QED
    BY <2>1, <2>2, <2>3, <2>4
<1>3. \/ VisitNow(v, Home) \/ VisitNow(v, WithStage(r, "pinned"))
      \/ \E work, src : VisitNow(v, WithChoice(r, work, src))
      \/ \E work, bundle, src : VisitNow(v, WithPin(r, work, bundle, src))
  <2>1. CASE PinRevision(v)
    BY <1>1, <2>1, Zenon DEF PinRevision, Refuse, WithStage, WithPin
  <2>2. CASE SelectPinned(v)
    BY <1>1, <2>2, Zenon DEF SelectPinned, Refuse, WithChoice
  <2>3. CASE SelectImported(v)
    BY <1>1, <2>3, Zenon DEF SelectImported, WithChoice
  <2>4. CASE SelectRanked(v)
    BY <1>1, <2>4, Zenon DEF SelectRanked, WithChoice
  <2>5. CASE ImportLegacy(v)
    BY <1>1, <2>5, Zenon DEF ImportLegacy, WithChoice
  <2>6. CASE NothingSelected(v)
    BY <2>6, Zenon DEF NothingSelected, Refuse
  <2> QED
    BY <2>1, <2>2, <2>3, <2>4, <2>5, <2>6
<1>4. r.at \in Underway
  BY <1>2 DEF Underway
<1> QED
  BY <1>1, <1>2, <1>3, <1>4, PiecesStay, HandlersRoom

LEMMA AnswersRoom ==
  ASSUME ReadInv, RoomInv, NEW v \in Visitors,
         ReadyContent(v) \/ Corrupt(v) \/ AnswerWhole(v) \/ ServeSourcePDF(v)
  PROVE  RoomInv'
<1>1. PICK r \in Visits : r = visit[v]
  BY DEF ReadInv
<1>2. r.at \in Underway /\ UNCHANGED <<mergedQ, legacyKeys>>
  <2>1. ReadyContent(v) => r.at = "chosen" /\ UNCHANGED <<mergedQ, legacyKeys>>
    BY <1>1 DEF ReadyContent, Shelves
  <2>2. Corrupt(v) \/ AnswerWhole(v) \/ ServeSourcePDF(v) =>
           r.at \in {"chosen", "probed"} /\ UNCHANGED <<mergedQ, legacyKeys>>
    BY <1>1 DEF Corrupt, AnswerWhole, ServeSourcePDF, Shelves
  <2> QED
    BY <2>1, <2>2 DEF Underway
<1>3. \/ VisitNow(v, Home) \/ \E at : VisitNow(v, WithStage(r, at))
      \/ \E bundle : VisitNow(v, WithBundle(r, bundle))
  <2>1. CASE ReadyContent(v)
    BY <1>1, <2>1, Zenon DEF ReadyContent, Refuse, VisitTo, WithStage, WithBundle
  <2>2. CASE Corrupt(v) \/ AnswerWhole(v) \/ ServeSourcePDF(v)
    BY <1>1, <2>2, Zenon DEF Corrupt, AnswerWhole, ServeSourcePDF, Refuse, VisitTo, WithStage
  <2> QED
    BY <2>1, <2>2
<1> QED
  BY <1>1, <1>2, <1>3, PiecesStay, HandlersRoom

LEMMA WindowRoom ==
  ASSUME ReadInv, RoomInv, NEW v \in Visitors, ReadWindow(v)
  PROVE  RoomInv'
<1>1. PICK r \in Visits : r = visit[v]
  BY DEF ReadInv
<1>2. /\ r.at \in Underway /\ UNCHANGED <<mergedQ, legacyKeys>> /\ MaxPieces \in Nat
      /\ Len(r.pieces) < MaxPieces /\ r.pieces \in Seq(Pieces)
  BY <1>1, ReadingConfig DEF ReadWindow, Underway, Shelves, RoomInv, RoomOK, Visits
<1>3. PICK piece, at : VisitNow(v, [r EXCEPT !.at = "answered", !.pieces = Append(r.pieces, piece),
                                             !.cursor = at])
  BY <1>1, Zenon DEF ReadWindow
<1> DEFINE q == [r EXCEPT !.at = "answered", !.pieces = Append(r.pieces, piece), !.cursor = at]
<1>4. q.at = "answered" /\ q.pieces = Append(r.pieces, piece)
  BY DEF Visits
<1>5. Len(q.pieces) = Len(r.pieces) + 1
  BY <1>2, <1>4
<1> HIDE DEF q
<1>6. RoomOK(q)
  BY <1>2, <1>4, <1>5 DEF RoomOK, Underway
<1>7. VisitNow(v, q)
  BY <1>3 DEF q
<1> QED
  BY <1>2, <1>6, <1>7, RoomLeft

LEMMA RoomKept == ReadInv /\ RoomInv /\ [ReaNext]_reaVars => RoomInv'
<1> SUFFICES ASSUME ReadInv, RoomInv, [ReaNext]_reaVars PROVE RoomInv'
  OBVIOUS
<1>1. MaxPieces \in Nat \ {0} /\ Len(Home.pieces) = 0
  BY ReadingConfig DEF Home
<1>2. ASSUME NEW v \in Visitors, NEW kind \in Kinds, NEW by \in {"qa", "arxiv", "doi"}, NEW work \in Works,
             NEW source \in ShelfSources \cup {Unset}, NEW version \in ShelfEditions,
             NEW rev \in ShelfRevisions \cup {Unset}, Dispatch(v, kind, by, work, source, version, rev)
      PROVE  RoomInv'
  <2> DEFINE q == [Home EXCEPT !.at = "asked", !.kind = kind, !.by = by, !.work = work,
                               !.source = source, !.version = version, !.rev = rev]
  <2>1. q.pieces = Home.pieces
    BY DEF Home
  <2>2. VisitNow(v, q) /\ UNCHANGED <<mergedQ, legacyKeys>>
    BY <1>2 DEF Dispatch, Shelves
  <2> HIDE DEF q
  <2>3. RoomOK(q)
    BY <1>1, <2>1 DEF RoomOK
  <2> QED
    BY <2>2, <2>3, RoomLeft
<1>3. ASSUME NEW v \in Visitors, FollowNext(v) PROVE RoomInv'
  <2> DEFINE q == [Home EXCEPT !.at = "asked", !.kind = "read", !.by = visit[v].by,
                               !.work = visit[v].work, !.cursor = visit[v].cursor,
                               !.pieces = visit[v].pieces]
  <2>1. q.pieces = visit[v].pieces
    BY DEF Home
  <2>2. VisitNow(v, q) /\ UNCHANGED <<mergedQ, legacyKeys>> /\ Len(visit[v].pieces) < MaxPieces
    BY <1>3 DEF FollowNext, Shelves
  <2> HIDE DEF q
  <2>3. RoomOK(q)
    BY <2>1, <2>2 DEF RoomOK, RoomInv
  <2> QED
    BY <2>2, <2>3, RoomLeft
<1>4. ASSUME NEW v \in Visitors, Depart(v) PROVE RoomInv'
  <2>1. VisitNow(v, Home) /\ UNCHANGED <<mergedQ, legacyKeys>> /\ RoomOK(Home)
    BY <1>1, <1>4 DEF Depart, Shelves, RoomOK
  <2> QED
    BY <2>1, RoomLeft
<1>5. ASSUME UNCHANGED <<legacyKeys, visit>>, mergedQ' \in BOOLEAN PROVE RoomInv'
  BY <1>5 DEF RoomInv, RoomOK
<1>6. CASE \/ MergeWorks \/ \E s \in ShelfSources : Shelve(s)
           \/ \E r \in ShelfRevisions : PublishRevision(r)
           \/ \E x \in ShelfSources \cup ShelfRevisions : Mishap(x)
  <2>1. UNCHANGED <<legacyKeys, visit>> /\ mergedQ' \in BOOLEAN
    BY <1>6 DEF MergeWorks, Shelve, PublishRevision, Mishap, RoomInv
  <2> QED
    BY <1>5, <2>1
<1>7. CASE UNCHANGED reaVars
  BY <1>5, <1>7 DEF reaVars, RoomInv
<1> QED
  BY <1>2, <1>3, <1>4, <1>6, <1>7, ResolvesRoom, AnswersRoom, WindowRoom DEF ReaNext

\* Every shelf, every binding and every request keeps its type.
LEMMA ReaTypesHold == ReaSpec => []ReaTypeOK
<1>1. ReaInit => RoomInv
  <2> SUFFICES ASSUME ReaInit PROVE RoomInv
    OBVIOUS
  <2>1. \A v \in Visitors : visit[v] = Home
    BY DEF ReaInit
  <2>2. MaxPieces \in Nat \ {0} /\ Len(Home.pieces) = 0
    BY ReadingConfig DEF Home
  <2>3. legacyKeys \subseteq Works \X ShelfEditions /\ mergedQ \in BOOLEAN
    <3>1. \A s \in ShelfSources : <<PaperOf[s], OriginOf[s]>> \in Works \X ShelfEditions
      BY Editions
    <3>2. mergedQ = FALSE /\ legacyKeys \subseteq {<<PaperOf[s], OriginOf[s]>> : s \in ShelfSources}
      BY Zenon DEF ReaInit
    <3> QED
      BY <3>1, <3>2
  <2> QED
    BY <2>1, <2>2, <2>3 DEF RoomInv, RoomOK
<1>2. ReadInv /\ RoomInv => ReaTypeOK
  <2> SUFFICES ASSUME ReadInv, RoomInv PROVE ReaTypeOK
    OBVIOUS
  <2>1. ASSUME NEW v \in Visitors
        PROVE  /\ visit[v].at \in {"home", "asked", "pinned", "chosen", "probed", "answered"}
               /\ visit[v].kind \in Kinds \cup {"none"} /\ visit[v].by \in {"qa", "arxiv", "doi"}
               /\ visit[v].chosen \in ShelfSources \cup {Unset}
               /\ visit[v].bundle \in ShelfRevisions \cup {Unset}
               /\ Len(visit[v].pieces) <= MaxPieces
    <3>1. visit[v] \in Visits
      BY DEF ReadInv
    <3> QED
      BY <3>1 DEF Visits, RoomInv, RoomOK
  <2> QED
    BY <2>1 DEF ReaTypeOK, RoomInv, ReadInv, KeysBound
<1> QED
  BY <1>1, <1>2, ReadStarts, ReadInvNext, RoomKept, PTL DEF ReaSpec

-----------------------------------------------------------------------------
(* The comments.                                                             *)

CommentRow == [on : 0 .. MaxComments, by : Users, at : 1 .. MaxTime, rev : Nat \ {0}, status : States]
WriteRec   == [op : {"idle", "lookup", "begin", "create", "remember", "status", "edit", "editing"},
               id : 0 .. MaxComments, mine : 0 .. MaxComments, at : 0 .. MaxTime, rev : Nat,
               key : Keys \cup {NoKey}, body : Bodies \cup {0}, status : States]
\* What a write still knows when it goes on: the id it minted is free, the
\* comment it changes is there.
WriteOK(x, rows, ids) ==
    /\ x.op = "idle" => x = NoWrite
    /\ x.op = "create" => x.mine \in 1 .. ids /\ rows[x.mine] = Absent
    /\ x.op \in {"create", "status", "editing"} => x.at # 0
    /\ x.op = "remember" => x.key \in Keys
    /\ x.op \in {"status", "edit", "editing"} => x.id \in CommentIds /\ rows[x.id] # Absent
RowsInv ==
    /\ comment \in [CommentIds -> CommentRow \cup {Absent}]
    /\ minted \in 0 .. MaxComments /\ time \in 1 .. MaxTime
    /\ \A i \in CommentIds : comment[i] = Absent \/ i <= minted
    /\ write \in [Clients -> WriteRec] /\ \A c \in Clients : WriteOK(write[c], comment, minted)
    /\ \A c, d \in Clients : write[c].op = "create" /\ write[d].op = "create" /\ c # d =>
                                write[c].mine # write[d].mine
CacheInv == DOMAIN replay \subseteq Keys /\ order \in Seq(Keys)
\* What a listing owes is there, and was shown or is still below its cursor.
PagesInv ==
    /\ follower.cursor \in 0 .. MaxComments /\ follower.owed \subseteq CommentIds
    /\ follower.cursor # 0 /\ follower.owed # {} => follower.since = NoSince
    /\ \A i \in follower.owed :
          /\ Discussion(i)
          /\ i \in {v[1] : v \in follower.seen} \/ (follower.cursor # 0 /\ i < follower.cursor)
ComInv == RowsInv /\ CacheInv

LEMMA ComBounds ==
  /\ MaxComments \in Nat /\ MaxTime \in Nat \ {0} /\ PageSize \in Nat \ {0}
  /\ CacheSize \in Nat \ {0}
BY CommentsConfig

LEMMA WriteTypes ==
  /\ NoWrite \in WriteRec /\ NoWrite.op = "idle" /\ Absent \notin CommentRow
  /\ Absent.on = -1
BY ComBounds DEF NoWrite, WriteRec, States, Absent, CommentRow

\* A write goes on; the rows stay or gain the one it minted.
LEMMA WriteMoves ==
  ASSUME RowsInv, NEW c \in Clients, NEW x \in WriteRec, write' = [write EXCEPT ![c] = x],
         x.op # "create" \/ (write[c].op = "create" /\ write[c].mine = x.mine), UNCHANGED <<time, minted>>,
         comment' \in [CommentIds -> CommentRow \cup {Absent}],
         \A i \in CommentIds : comment[i] # Absent => comment'[i] # Absent,
         \A i \in CommentIds : comment[i] = Absent /\ comment'[i] # Absent =>
            write[c].op = "create" /\ i = write[c].mine,
         WriteOK(x, comment', minted)
  PROVE  RowsInv'
<1> MaxComments \in Nat /\ MaxTime \in Nat
  BY ComBounds
<1>1. ASSUME NEW d \in Clients, d # c PROVE WriteOK(write[d], comment', minted)
  <2>1. WriteOK(write[d], comment, minted) /\ write[d] \in WriteRec /\ minted \in 0 .. MaxComments
    BY <1>1 DEF RowsInv
  <2>2. write[d].op = "create" => comment'[write[d].mine] = Absent
    BY <1>1, <2>1 DEF RowsInv, WriteOK, CommentIds
  <2> QED
    BY <2>1, <2>2 DEF WriteOK
<1>2. \A d \in Clients : WriteOK(write'[d], comment', minted')
  BY <1>1 DEF RowsInv
<1>3. write' \in [Clients -> WriteRec]
  BY DEF RowsInv
<1>4. \A d, e \in Clients : write'[d].op = "create" /\ write'[e].op = "create" /\ d # e =>
                               write'[d].mine # write'[e].mine
  BY DEF RowsInv
<1>5. \A i \in CommentIds : comment'[i] = Absent \/ i <= minted'
  BY DEF RowsInv, WriteOK
<1> QED
  BY <1>2, <1>3, <1>4, <1>5 DEF RowsInv

\* Where no entry changes.
LEMMA WriteAlone ==
  ASSUME RowsInv, NEW c \in Clients, NEW x \in WriteRec, write' = [write EXCEPT ![c] = x],
         x.op # "create", WriteOK(x, comment, minted), UNCHANGED <<comment, time, minted>>
  PROVE  RowsInv'
<1>1. WriteOK(x, comment', minted)
  OBVIOUS
<1>2. comment' \in [CommentIds -> CommentRow \cup {Absent}]
  BY DEF RowsInv
<1> QED
  BY <1>1, <1>2, WriteMoves

LEMMA WriteDone ==
  ASSUME RowsInv, NEW c \in Clients, write' = [write EXCEPT ![c] = NoWrite],
         UNCHANGED <<comment, time, minted>>
  PROVE  RowsInv'
<1>1. WriteOK(NoWrite, comment, minted)
  BY WriteTypes DEF WriteOK
<1> QED
  BY <1>1, WriteTypes, WriteAlone

\* POST, as far as the transaction.
LEMMA PostsKeep ==
  ASSUME RowsInv, NEW c \in Clients,
         \/ \E b \in Bodies, k \in Keys \cup {NoKey} :
               \/ \E s \in States : createDiscussion(c, b, k, s)
               \/ \E on \in 1 .. minted : createReply(c, on, b, k)
         \/ Lookup(c) \/ Begin(c) \/ commentStoreError(c)
  PROVE  RowsInv'
<1>1. ASSUME NEW on \in 0 .. MaxComments, NEW b \in Bodies, NEW k \in Keys \cup {NoKey},
             NEW s \in States, Posts(c, on, b, k, s)
      PROVE  RowsInv'
  <2> DEFINE x1 == [NoWrite EXCEPT !.op = "lookup"]
             x2 == [x1 EXCEPT !.id = on]
             x3 == [x2 EXCEPT !.body = b]
             x4 == [x3 EXCEPT !.key = k]
             x  == [x4 EXCEPT !.status = s]
  <2>2. write' = [write EXCEPT ![c] = x] /\ UNCHANGED <<comment, time, minted>>
    BY <1>1 DEF Posts, rowVars
  <2>4. x1 \in WriteRec /\ x1.op = "lookup"
    BY WriteTypes DEF WriteRec
  <2> HIDE DEF x1
  <2>6. x2 \in WriteRec /\ x2.op = "lookup"
    BY <2>4 DEF WriteRec
  <2> HIDE DEF x2
  <2>7. x3 \in WriteRec /\ x3.op = "lookup"
    BY <2>6 DEF WriteRec
  <2> HIDE DEF x3
  <2>8. x4 \in WriteRec /\ x4.op = "lookup"
    BY <2>7 DEF WriteRec
  <2> HIDE DEF x4
  <2>5. x \in WriteRec /\ x.op = "lookup"
    BY <2>8 DEF WriteRec
  <2> HIDE DEF x
  <2>3. WriteOK(x, comment, minted)
    BY <2>5 DEF WriteOK
  <2> QED
    BY <2>5, <2>2, <2>3, WriteAlone
<1>2. CASE Lookup(c)
  <2> DEFINE x == [write[c] EXCEPT !.op = "begin"]
  <2>1. write[c] \in WriteRec /\ x \in WriteRec /\ x.op = "begin"
    BY DEF RowsInv, WriteRec
  <2>2. WriteOK(x, comment, minted)
    BY <2>1 DEF WriteOK
  <2>3. UNCHANGED <<comment, time, minted>> /\ (\/ write' = [write EXCEPT ![c] = NoWrite]
                                            \/ write' = [write EXCEPT ![c] = x])
    BY <1>2 DEF Lookup, rowVars
  <2> QED
    BY <2>1, <2>2, <2>3, WriteAlone, WriteDone
<1>3. CASE Begin(c)
  <2>1. CASE write' = [write EXCEPT ![c] = NoWrite] /\ UNCHANGED minted
    BY <1>3, <2>1, WriteDone DEF Begin
  <2>2. CASE /\ write' = [write EXCEPT ![c] = [@ EXCEPT !.op = "create", !.at = time,
                                                       !.mine = minted + 1]]
             /\ minted' = minted + 1
    <3> DEFINE x1 == [write[c] EXCEPT !.op = "create"]
               x2 == [x1 EXCEPT !.at = time]
               x  == [x2 EXCEPT !.mine = minted + 1]
    <3>1. write[c] \in WriteRec /\ minted \in 0 .. MaxComments /\ minted < MaxComments
          /\ time \in 1 .. MaxTime /\ MaxComments \in Nat /\ MaxTime \in Nat
      BY <1>3, ComBounds DEF Begin, RowsInv
    <3>3. write' = [write EXCEPT ![c] = x]
      BY <2>2
    <3>9. UNCHANGED <<comment, time>> /\ minted' = minted + 1 /\ minted' \in 0 .. MaxComments
      BY <1>3, <2>2, <3>1 DEF Begin
    <3>7. x1 \in WriteRec /\ x1.op = "create"
      BY <3>1 DEF WriteRec
    <3> HIDE DEF x1
    <3>8. x2 \in WriteRec /\ x2.op = "create" /\ x2.at = time
      BY <3>1, <3>7 DEF WriteRec
    <3> HIDE DEF x2
    <3>2. x \in WriteRec /\ x.op = "create" /\ x.mine = minted + 1 /\ x.at # 0
      BY <3>1, <3>8 DEF WriteRec
    <3> HIDE DEF x
    <3>4. comment[minted + 1] = Absent
      BY <3>1 DEF RowsInv, CommentIds
    <3>5. WriteOK(x, comment', minted')
      BY <3>1, <3>2, <3>4, <3>9 DEF WriteOK
    <3>6. ASSUME NEW d \in Clients, d # c
          PROVE  WriteOK(write'[d], comment', minted') /\ (write'[d].op = "create" => write'[d].mine # minted + 1)
      <4>1. write'[d] = write[d] /\ WriteOK(write[d], comment, minted)
        BY <3>3, <3>6 DEF RowsInv
      <4> QED
        BY <4>1, <3>1, <3>9 DEF WriteOK
    <3>10. write' \in [Clients -> WriteRec]
      BY <3>2, <3>3 DEF RowsInv
    <3>11. \A d \in Clients : WriteOK(write'[d], comment', minted')
      BY <3>3, <3>5, <3>6 DEF RowsInv
    <3>12. \A d, e \in Clients : write'[d].op = "create" /\ write'[e].op = "create" /\ d # e =>
                                    write'[d].mine # write'[e].mine
      BY <3>2, <3>3, <3>6 DEF RowsInv
    <3>13. \A i \in CommentIds : comment'[i] = Absent \/ i <= minted'
      BY <3>1, <3>9 DEF RowsInv, CommentIds
    <3> QED
      BY <3>9, <3>10, <3>11, <3>12, <3>13 DEF RowsInv
  <2> QED
    BY <1>3, <2>1, <2>2 DEF Begin
<1>4. CASE commentStoreError(c)
  BY <1>4, WriteDone DEF commentStoreError, rowVars
<1>5. ASSUME NEW b \in Bodies, NEW k \in Keys \cup {NoKey}
      PROVE  /\ \A s \in States : createDiscussion(c, b, k, s) => RowsInv'
             /\ \A on \in 1 .. minted : createReply(c, on, b, k) => RowsInv'
  <2>1. 0 \in 0 .. MaxComments /\ "none" \in States /\ 1 .. minted \subseteq 0 .. MaxComments
    BY ComBounds DEF States, RowsInv
  <2> QED
    BY <1>1, <2>1 DEF createDiscussion, createReply
<1> QED
  BY <1>2, <1>3, <1>4, <1>5

\* A discussion stays one, and a reply stays with its discussion.
OnStays == \A i \in CommentIds : comment[i] # Absent => comment'[i].on = comment[i].on

\* The transaction inserts the entry whose id it minted.
LEMMA InsertsKeep ==
  ASSUME RowsInv, NEW c \in Clients, CreateDiscussion(c) \/ CreateReply(c)
  PROVE  RowsInv' /\ OnStays
<1> DEFINE x == write[c]
           entry == [on |-> x.id, by |-> UserOf[c], at |-> x.at, rev |-> 1, status |-> x.status]
<1>1. x \in WriteRec /\ WriteOK(x, comment, minted) /\ x.op = "create"
      /\ UNCHANGED <<minted, time>>
  BY DEF RowsInv, CreateDiscussion, CreateReply
<1>2. CASE /\ comment' = [comment EXCEPT ![x.mine] = entry]
           /\ write' = [write EXCEPT ![c] = IF x.key = NoKey THEN NoWrite ELSE [x EXCEPT !.op = "remember"]]
  <2>1. x.mine \in CommentIds /\ comment[x.mine] = Absent
    BY <1>1, ComBounds DEF WriteOK, RowsInv, CommentIds
  <2>2. entry \in CommentRow
    BY <1>1, ComBounds, CommentsConfig DEF WriteOK, WriteRec, CommentRow
  <2>3. entry # Absent
    BY <2>2, WriteTypes
  <2> HIDE DEF entry
  <2>4. comment' \in [CommentIds -> CommentRow \cup {Absent}] /\ OnStays
    BY <1>2, <2>1, <2>2 DEF RowsInv, OnStays
  <2> DEFINE y == [x EXCEPT !.op = "remember"]
  <2>5. y \in WriteRec /\ y.op = "remember" /\ y.key = x.key
    BY <1>1 DEF WriteRec
  <2>6. x.key \in Keys \cup {NoKey}
    BY <1>1 DEF WriteRec
  <2> HIDE DEF y
  <2>7. ASSUME NEW z \in WriteRec, write' = [write EXCEPT ![c] = z], z.op # "create",
               WriteOK(z, comment', minted)
        PROVE  RowsInv'
    BY <1>1, <1>2, <2>1, <2>3, <2>4, <2>7, WriteMoves DEF RowsInv
  <2>8. CASE x.key = NoKey
    <3>1. write' = [write EXCEPT ![c] = NoWrite]
      BY <1>2, <2>8
    <3>2. WriteOK(NoWrite, comment', minted)
      BY WriteTypes DEF WriteOK
    <3> QED
      BY <2>4, <2>7, <3>1, <3>2, WriteTypes
  <2>9. CASE x.key # NoKey
    <3>1. write' = [write EXCEPT ![c] = y]
      BY <1>2, <2>9 DEF y
    <3>2. WriteOK(y, comment', minted)
      BY <2>5, <2>6, <2>9 DEF WriteOK
    <3> QED
      BY <2>4, <2>5, <2>7, <3>1, <3>2
  <2> QED
    BY <2>8, <2>9
<1>3. CASE write' = [write EXCEPT ![c] = NoWrite] /\ UNCHANGED comment
  BY <1>1, <1>3, WriteDone DEF OnStays
<1> QED
  BY <1>2, <1>3 DEF CreateDiscussion, CreateReply, Inserts

\* A write is done, with a change of a comment that is there.
LEMMA RowChanges ==
  ASSUME RowsInv, NEW c \in Clients, NEW i \in CommentIds, NEW r \in CommentRow, comment[i] # Absent,
         r.on = comment[i].on, write' = [write EXCEPT ![c] = NoWrite], UNCHANGED <<minted, time>>,
         comment' = [comment EXCEPT ![i] = r]
  PROVE  RowsInv' /\ OnStays
<1>1. comment' \in [CommentIds -> CommentRow \cup {Absent}] /\ OnStays
  BY DEF RowsInv, OnStays
<1>2. WriteOK(NoWrite, comment', minted) /\ NoWrite.op # "create"
  BY WriteTypes DEF WriteOK
<1>3. r # Absent
  BY WriteTypes
<1>4. \A j \in CommentIds : (comment[j] # Absent) = (comment'[j] # Absent)
  BY <1>3 DEF RowsInv
<1> QED
  BY <1>1, <1>2, <1>4, WriteTypes, WriteMoves

\* PATCH: the status and the bodies, and what a client reads before an edit.
LEMMA StatusKeeps ==
  ASSUME RowsInv, NEW c \in Clients
  PROVE  /\ \A i \in CommentIds, s \in Statuses : setStatus(c, i, s) => RowsInv' /\ OnStays
         /\ SetStatus(c) => RowsInv' /\ OnStays
<1>1. ASSUME NEW i \in CommentIds, NEW s \in Statuses, setStatus(c, i, s) PROVE RowsInv' /\ OnStays
  <2> DEFINE x1 == [NoWrite EXCEPT !.op = "status"]
             x2 == [x1 EXCEPT !.id = i]
             x3 == [x2 EXCEPT !.at = time]
             x  == [x3 EXCEPT !.status = s]
  <2>1. write' = [write EXCEPT ![c] = x] /\ UNCHANGED <<comment, time, minted>> /\ Discussion(i)
    BY <1>1 DEF setStatus, rowVars
  <2>2. i \in 0 .. MaxComments /\ time \in 0 .. MaxTime /\ time # 0 /\ s \in States
        /\ comment[i] # Absent
    BY <2>1, ComBounds, WriteTypes DEF RowsInv, CommentIds, States, Discussion
  <2>3. x1 \in WriteRec /\ x1.op = "status"
    BY WriteTypes DEF WriteRec
  <2> HIDE DEF x1
  <2>4. x2 \in WriteRec /\ x2.op = "status" /\ x2.id = i
    BY <2>2, <2>3 DEF WriteRec
  <2> HIDE DEF x2
  <2>5. x3 \in WriteRec /\ x3.op = "status" /\ x3.id = i /\ x3.at = time
    BY <2>2, <2>4 DEF WriteRec
  <2> HIDE DEF x3
  <2>6. x \in WriteRec /\ x.op = "status" /\ x.id = i /\ x.at = time
    BY <2>2, <2>5 DEF WriteRec
  <2> HIDE DEF x
  <2>7. WriteOK(x, comment, minted)
    BY <2>2, <2>6 DEF WriteOK
  <2> QED
    BY <2>1, <2>6, <2>7, WriteAlone DEF OnStays
<1>2. CASE SetStatus(c)
  <2> DEFINE x == write[c]
             r1 == [comment[x.id] EXCEPT !.status = x.status]
             r  == [r1 EXCEPT !.at = x.at]
  <2>1. x \in WriteRec /\ WriteOK(x, comment, minted) /\ x.op = "status"
        /\ write' = [write EXCEPT ![c] = NoWrite] /\ UNCHANGED <<minted, time>>
        /\ comment' = [comment EXCEPT ![x.id] = r]
    BY <1>2 DEF RowsInv, SetStatus
  <2>2. x.id \in CommentIds /\ comment[x.id] \in CommentRow /\ x.status \in States /\ x.at \in 1 .. MaxTime
        /\ comment[x.id] # Absent
    BY <2>1, ComBounds DEF WriteOK, RowsInv, WriteRec
  <2>3. r1 \in CommentRow /\ r1.on = comment[x.id].on
    BY <2>2 DEF CommentRow
  <2> HIDE DEF r1
  <2>4. r \in CommentRow /\ r.on = comment[x.id].on
    BY <2>2, <2>3 DEF CommentRow
  <2> HIDE DEF r
  <2> QED
    BY <2>1, <2>2, <2>4, RowChanges
<1> QED
  BY <1>1, <1>2
\* PATCH of a body: what the client read, the guard, the compare-and-set.
LEMMA BodyKeeps ==
  ASSUME RowsInv, NEW c \in Clients
  PROVE  /\ \A d, i \in CommentIds : getDiscussion(c, d, i) => RowsInv' /\ OnStays
         /\ write[c].op = "edit" /\ Edits(c) => RowsInv' /\ OnStays
         /\ write[c].op = "editing" /\ Revises(c) => RowsInv' /\ OnStays
<1> DEFINE x == write[c]
<1>1. x \in WriteRec /\ WriteOK(x, comment, minted)
  BY DEF RowsInv
<1>2. ASSUME NEW d \in CommentIds, NEW i \in CommentIds, getDiscussion(c, d, i) PROVE RowsInv' /\ OnStays
  <2> DEFINE x1 == [NoWrite EXCEPT !.op = "edit"]
             x2 == [x1 EXCEPT !.id = i]
             y  == [x2 EXCEPT !.rev = comment[i].rev]
  <2>1. write' = [write EXCEPT ![c] = y] /\ UNCHANGED <<comment, time, minted>>
        /\ Discussion(d) /\ (i = d \/ Stored(i))
    BY <1>2 DEF getDiscussion, rowVars, ListReplies
  <2>2. comment[i] # Absent /\ i \in 0 .. MaxComments
    BY <2>1, WriteTypes, ComBounds DEF Discussion, Stored, CommentIds
  <2>3. comment[i].rev \in Nat
    BY <2>2 DEF RowsInv, CommentRow
  <2>4. x1 \in WriteRec /\ x1.op = "edit"
    BY WriteTypes DEF WriteRec
  <2> HIDE DEF x1
  <2>5. x2 \in WriteRec /\ x2.op = "edit" /\ x2.id = i
    BY <2>2, <2>4 DEF WriteRec
  <2> HIDE DEF x2
  <2>6. y \in WriteRec /\ y.op = "edit" /\ y.id = i
    BY <2>3, <2>5 DEF WriteRec
  <2> HIDE DEF y
  <2>7. WriteOK(y, comment, minted)
    BY <2>2, <2>6 DEF WriteOK
  <2> QED
    BY <2>1, <2>6, <2>7, WriteAlone DEF OnStays
<1>3. ASSUME x.op = "edit", Edits(c) PROVE RowsInv' /\ OnStays
  <2> DEFINE y1 == [x EXCEPT !.op = "editing"]
             y  == [y1 EXCEPT !.at = time]
  <2>1. /\ write' = [write EXCEPT ![c] = NoWrite] \/ write' = [write EXCEPT ![c] = y]
        /\ UNCHANGED <<comment, time, minted>>
    BY <1>3 DEF Edits, rowVars
  <2>2. time \in 0 .. MaxTime /\ time # 0
    BY ComBounds DEF RowsInv
  <2>3. y1 \in WriteRec /\ y1.op = "editing" /\ y1.id = x.id
    BY <1>1 DEF WriteRec
  <2> HIDE DEF y1
  <2>4. y \in WriteRec /\ y.op = "editing" /\ y.id = x.id /\ y.at = time
    BY <2>2, <2>3 DEF WriteRec
  <2> HIDE DEF y
  <2>5. WriteOK(y, comment, minted)
    BY <1>1, <1>3, <2>2, <2>4 DEF WriteOK
  <2> QED
    BY <2>1, <2>4, <2>5, WriteAlone, WriteDone DEF OnStays
<1>4. ASSUME x.op = "editing", Revises(c) PROVE RowsInv' /\ OnStays
  <2> DEFINE r1 == [comment[x.id] EXCEPT !.rev = comment[x.id].rev + 1]
             r  == [r1 EXCEPT !.at = x.at]
  <2>1. /\ write' = [write EXCEPT ![c] = NoWrite] /\ UNCHANGED <<minted, time>>
        /\ comment' = [comment EXCEPT ![x.id] = r] \/ UNCHANGED comment
    BY <1>4 DEF Revises
  <2>2. x.id \in CommentIds /\ comment[x.id] \in CommentRow /\ x.at \in 1 .. MaxTime
        /\ comment[x.id] # Absent
    BY <1>1, <1>4, ComBounds DEF WriteOK, RowsInv, WriteRec
  <2>3. r1 \in CommentRow /\ r1.on = comment[x.id].on
    BY <2>2 DEF CommentRow
  <2> HIDE DEF r1
  <2>4. r \in CommentRow /\ r.on = comment[x.id].on
    BY <2>2, <2>3 DEF CommentRow
  <2> HIDE DEF r
  <2>5. CASE UNCHANGED comment
    BY <2>1, <2>5, WriteDone DEF OnStays
  <2> QED
    BY <2>1, <2>2, <2>4, <2>5, RowChanges
<1> QED
  BY <1>2, <1>3, <1>4

\* Remember, and the eviction of the oldest key.
LEMMA RememberKeeps ==
  ASSUME RowsInv, CacheInv, NEW c \in Clients, Remember(c)
  PROVE  RowsInv' /\ CacheInv' /\ OnStays
<1> DEFINE k == write[c].key
<1>1. k \in Keys /\ write' = [write EXCEPT ![c] = NoWrite] /\ UNCHANGED <<comment, time, minted>>
  BY DEF RowsInv, WriteOK, Remember, rowVars
<1>2. Ordered(k) \in Seq(Keys)
  BY <1>1 DEF Ordered, CacheInv
<1>3. Len(Ordered(k)) > CacheSize => Ordered(k) # <<>>
  BY <1>2, ComBounds
<1>4. order' \in Seq(Keys)
  BY <1>2, <1>3 DEF Remember
<1>5. DOMAIN replay' \subseteq Keys
  BY <1>1 DEF Remember, Put, Without, CacheInv
<1> QED
  BY <1>1, <1>4, <1>5, WriteDone DEF CacheInv, OnStays

-----------------------------------------------------------------------------
(* The pages.                                                                *)

\* A nonempty set of numbers up to n has a least and a greatest one.
LEMMA Greatest ==
  ASSUME NEW n \in Nat, NEW S \in SUBSET (1 .. n), S # {}
  PROVE  (\E i \in S : \A j \in S : i <= j) /\ (\E i \in S : \A j \in S : j <= i)
<1>1. S \subseteq Nat /\ \A i \in S : i <= n
  OBVIOUS
<1>2. \E i \in S : \A j \in S : i <= j
  BY <1>1, Least
<1> DEFINE T == {n - i : i \in S}
<1>3. \A i \in S : n - i \in Nat /\ i \in Int
  BY <1>1
<1>4. T \in SUBSET Nat /\ T # {}
  BY <1>3
<1> HIDE DEF T
<1>5. PICK t \in T : \A u \in T : t <= u
  BY <1>4, Least
<1>6. PICK i \in S : t = n - i
  BY DEF T
<1>7. ASSUME NEW j \in S PROVE j <= i
  <2>1. t <= n - j
    BY <1>5 DEF T
  <2> QED
    BY <2>1, <1>3, <1>6
<1> QED
  BY <1>2, <1>7

\* A page is a run of the greatest matching ids: what is not on it is below the
\* whole of it, and a short page is all there is.
LEMMA PageIsTop ==
  ASSUME NEW from \in 0 .. MaxComments, NEW since
  PROVE  /\ Page(from, since) \subseteq Matching(from, since) /\ IsFiniteSet(Page(from, since))
         /\ \A i \in Matching(from, since) \ Page(from, since), j \in Page(from, since) : i < j
         /\ Cardinality(Page(from, since)) < PageSize => Page(from, since) = Matching(from, since)
<1> DEFINE m == Matching(from, since)
           Above(i) == {j \in m : j > i}
           page == Page(from, since)
<1>1. m \subseteq CommentIds /\ CommentIds \subseteq Nat /\ IsFiniteSet(CommentIds)
  BY ComBounds, FS_Interval DEF Matching, CommentIds
<1>2. page = {i \in m : Cardinality(Above(i)) < PageSize}
  BY DEF Page
<1> HIDE DEF m, page
<1>3. IsFiniteSet(page) /\ page \subseteq m /\ \A i \in m : IsFiniteSet(Above(i))
  BY <1>1, <1>2, FS_Subset
<1>4. ASSUME NEW i \in m \ page, NEW j \in page PROVE i < j
  <2>1. i \in Nat /\ j \in Nat /\ i \in m /\ j \in m
    BY <1>1, <1>3
  <2>2. SUFFICES ASSUME j <= i PROVE FALSE
    BY <2>1
  <2>6. \A k \in m : k > i => k > j
    BY <1>1, <2>1, <2>2
  <2>3. Above(i) \subseteq Above(j)
    BY <2>6
  <2>4. Cardinality(Above(i)) <= Cardinality(Above(j)) /\ Cardinality(Above(i)) \in Nat
        /\ Cardinality(Above(j)) \in Nat
    BY <1>3, <2>1, <2>3, FS_Subset, FS_CardinalityType
  <2>5. ~(Cardinality(Above(i)) < PageSize) /\ Cardinality(Above(j)) < PageSize
    BY <1>2
  <2> QED
    BY <2>4, <2>5, ComBounds
<1>5. ASSUME Cardinality(page) < PageSize, page # m PROVE FALSE
  <2>1. m \ page # {} /\ m \ page \subseteq CommentIds
    BY <1>1, <1>3, <1>5
  <2>2. PICK i \in m \ page : \A j \in m \ page : j <= i
    BY <2>1, Greatest, ComBounds DEF CommentIds
  <2>6. \A k \in m \ page : ~(k > i)
    BY <1>1, <2>2
  <2>3. Above(i) \subseteq page
    BY <2>6
  <2>4. Cardinality(Above(i)) <= Cardinality(page) /\ Cardinality(Above(i)) \in Nat
        /\ Cardinality(page) \in Nat
    BY <1>3, <2>3, FS_Subset, FS_CardinalityType
  <2>5. ~(Cardinality(Above(i)) < PageSize)
    BY <1>2
  <2> QED
    BY <1>5, <2>4, <2>5, ComBounds
<1> QED
  BY <1>3, <1>4, <1>5 DEF m, page

LEMMA ListingKeeps ==
  ASSUME RowsInv, PagesInv, ListDiscussions
  PROVE  PagesInv' /\ UNCHANGED <<comment, minted, time, write, replay, order>>
<1> DEFINE f     == follower
           items == Page(f.cursor, f.since)
           m     == Matching(f.cursor, f.since)
           last  == Cardinality(items) < PageSize
           owing == IF f.cursor # 0 THEN f.owed
                    ELSE IF f.since = NoSince THEN Matching(0, NoSince) ELSE {}
<1>1. /\ follower' = [cursor |-> IF last THEN 0 ELSE NextCursor(items),
                      since  |-> IF last THEN Advanced(items, f.since) ELSE f.since,
                      seen   |-> f.seen \cup {Version(i) : i \in items}, owed |-> owing]
      /\ UNCHANGED <<comment, minted, time, write, replay, order>>
  BY DEF ListDiscussions, rowVars
<1>2. items \subseteq m /\ m \subseteq CommentIds /\ IsFiniteSet(items)
      /\ (\A i \in m \ items, j \in items : i < j) /\ (last => items = m)
  BY PageIsTop DEF PagesInv, Matching
<1>3. ~last => NextCursor(items) \in items
  <2>1. SUFFICES ASSUME ~last PROVE NextCursor(items) \in items
    OBVIOUS
  <2>2. items # {}
    BY <2>1, FS_EmptySet, ComBounds
  <2>3. \E i \in items : \A j \in items : i <= j
    BY <1>2, <2>2, Greatest, ComBounds DEF CommentIds
  <2> QED
    BY <2>3 DEF NextCursor
<1>4. owing \subseteq CommentIds /\ (owing # {} => f.since = NoSince) /\ \A i \in owing : Discussion(i)
  BY DEF PagesInv, Matching
<1>5. \A i \in owing : i \in {v[1] : v \in f.seen} \/ i \in m
  BY <1>4 DEF PagesInv, Matching
<1>6. \A i \in items : Version(i)[1] = i
  BY DEF Version
<1>7. CommentIds \subseteq 0 .. MaxComments /\ 0 \notin CommentIds /\ 0 \in 0 .. MaxComments
  BY ComBounds DEF CommentIds
<1>8. \A i \in owing : Discussion(i)'
  BY <1>1, <1>4 DEF Discussion
<1> DEFINE next == IF last THEN 0 ELSE NextCursor(items)
           seen == f.seen \cup {Version(i) : i \in items}
<1>9. follower'.cursor = next /\ follower'.owed = owing /\ follower'.seen = seen
      /\ (~last => follower'.since = f.since)
  BY <1>1
<1> HIDE DEF owing, items, m, last, f
<1>10. ASSUME NEW i \in owing PROVE i \in {v[1] : v \in seen} \/ (next # 0 /\ i < next)
  <2>1. CASE i \in {v[1] : v \in f.seen}
    BY <2>1
  <2>2. CASE i \in items
    BY <1>6, <2>2
  <2>3. CASE i \in m \ items
    BY <1>2, <1>3, <1>7, <2>3
  <2> QED
    BY <1>5, <2>1, <2>2, <2>3
<1>11. next \in 0 .. MaxComments /\ (next # 0 /\ owing # {} => f.since = NoSince)
  BY <1>2, <1>3, <1>4, <1>7
<1> HIDE DEF next, seen
<1>12. next # 0 => ~last
  BY DEF next
<1>13. PagesInv'
  BY <1>4, <1>8, <1>9, <1>10, <1>11, <1>12 DEF PagesInv
<1> QED
  BY <1>1, <1>13

\* What the handlers leave alone.
LEMMA ComFrames ==
  ASSUME NEW c
  PROVE  /\ \A i, b, k, s : Posts(c, i, b, k, s) => UNCHANGED <<comment, replay, order, follower>>
         /\ Lookup(c) \/ Begin(c) \/ commentStoreError(c) => UNCHANGED <<comment, replay, order, follower>>
         /\ \A i, s : setStatus(c, i, s) => UNCHANGED <<replay, order, follower>>
         /\ SetStatus(c) \/ Edits(c) \/ Revises(c) => UNCHANGED <<replay, order, follower>>
         /\ \A d, i : getDiscussion(c, d, i) => UNCHANGED <<replay, order, follower>>
<1>1. ASSUME NEW i, NEW b, NEW k, NEW s, Posts(c, i, b, k, s) PROVE UNCHANGED <<comment, replay, order, follower>>
  BY <1>1 DEF Posts, rowVars
<1>2. Lookup(c) \/ Begin(c) \/ commentStoreError(c) => UNCHANGED <<comment, replay, order, follower>>
  BY DEF Lookup, Begin, commentStoreError, rowVars
<1>3. ASSUME NEW i, NEW s, setStatus(c, i, s) PROVE UNCHANGED <<replay, order, follower>>
  BY <1>3 DEF setStatus
<1>4. SetStatus(c) \/ Edits(c) \/ Revises(c) => UNCHANGED <<replay, order, follower>>
  BY DEF SetStatus, Edits, Revises
<1>5. ASSUME NEW d, NEW i, getDiscussion(c, d, i) PROVE UNCHANGED <<replay, order, follower>>
  BY <1>5 DEF getDiscussion
<1> QED
  BY <1>1, <1>2, <1>3, <1>4, <1>5

\* A step of the comments.
LEMMA ComKept == ComInv /\ PagesInv /\ [ComNext]_comVars => ComInv' /\ PagesInv'
<1> SUFFICES ASSUME ComInv, PagesInv, [ComNext]_comVars PROVE ComInv' /\ PagesInv'
  OBVIOUS
<1>1. ASSUME OnStays, UNCHANGED follower PROVE PagesInv'
  <2>1. \A i \in CommentIds : Discussion(i) => Discussion(i)'
    BY <1>1, WriteTypes DEF OnStays, Discussion
  <2> QED
    BY <1>1, <2>1 DEF PagesInv
<1>2. ASSUME NEW c \in Clients,
             \/ \E b \in Bodies, k \in Keys \cup {NoKey} :
                   \/ \E s \in States : createDiscussion(c, b, k, s)
                   \/ \E on \in 1 .. minted : createReply(c, on, b, k)
             \/ Lookup(c) \/ Begin(c) \/ commentStoreError(c)
      PROVE  ComInv' /\ PagesInv'
  <2>1. UNCHANGED <<comment, replay, order, follower>>
    BY <1>2, ComFrames, Zenon DEF createDiscussion, createReply
  <2>2. RowsInv'
    BY <1>2, PostsKeep DEF ComInv
  <2> QED
    BY <1>1, <2>1, <2>2 DEF ComInv, CacheInv, OnStays
<1>3. ASSUME NEW c \in Clients, CreateDiscussion(c) \/ CreateReply(c) PROVE ComInv' /\ PagesInv'
  BY <1>1, <1>3, InsertsKeep DEF ComInv, CacheInv, CreateDiscussion, CreateReply
<1>4. ASSUME NEW c \in Clients, Remember(c) PROVE ComInv' /\ PagesInv'
  BY <1>1, <1>4, RememberKeeps DEF ComInv, Remember
<1>5. ASSUME NEW c \in Clients,
             (\E i \in CommentIds, s \in Statuses : setStatus(c, i, s)) \/ SetStatus(c)
      PROVE  ComInv' /\ PagesInv'
  <2>1. UNCHANGED <<replay, order, follower>>
    BY <1>5, ComFrames, Zenon
  <2>2. RowsInv' /\ OnStays
    BY <1>5, StatusKeeps DEF ComInv
  <2> QED
    BY <1>1, <2>1, <2>2 DEF ComInv, CacheInv
<1>6. ASSUME NEW c \in Clients,
             \/ \E d, i \in CommentIds : getDiscussion(c, d, i)
             \/ editDiscussionBody(c) \/ editReplyBody(c)
             \/ UpdateDiscussionBody(c) \/ UpdateReplyBody(c)
      PROVE  ComInv' /\ PagesInv'
  <2>1. UNCHANGED <<replay, order, follower>>
    BY <1>6, ComFrames, Zenon DEF editDiscussionBody, editReplyBody, UpdateDiscussionBody, UpdateReplyBody
  <2>2. RowsInv' /\ OnStays
    BY <1>6, BodyKeeps DEF ComInv, editDiscussionBody, editReplyBody, UpdateDiscussionBody, UpdateReplyBody
  <2> QED
    BY <1>1, <2>1, <2>2 DEF ComInv, CacheInv
<1>7. CASE ListDiscussions
  <2>1. PagesInv' /\ UNCHANGED <<comment, minted, time, write, replay, order>>
    BY <1>7, ListingKeeps DEF ComInv
  <2> QED
    BY <2>1 DEF ComInv, RowsInv, CacheInv
<1>8. CASE Clock
  <2>1. UNCHANGED <<comment, minted, write, replay, order, follower>> /\ time' \in 1 .. MaxTime
    BY <1>8, ComBounds DEF Clock, rowVars, ComInv, RowsInv
  <2> QED
    BY <1>1, <2>1 DEF ComInv, RowsInv, CacheInv, OnStays
<1>9. CASE ComRestart
  <2>1. UNCHANGED <<comment, minted, time, follower>> /\ replay' = <<>> /\ order' = <<>>
        /\ write' = [c \in Clients |-> NoWrite]
    BY <1>9 DEF ComRestart, rowVars
  <2>2. RowsInv'
    BY <2>1, WriteTypes DEF ComInv, RowsInv, WriteOK
  <2> QED
    BY <1>1, <2>1, <2>2 DEF ComInv, CacheInv, OnStays
<1>10. CASE UNCHANGED comVars
  <2>1. UNCHANGED <<comment, minted, time, write, replay, order, follower>>
    BY <1>10 DEF comVars
  <2> QED
    BY <1>1, <2>1 DEF ComInv, RowsInv, CacheInv, OnStays
<1> QED
  BY <1>2, <1>3, <1>4, <1>5, <1>6, <1>7, <1>8, <1>9, <1>10 DEF ComNext

LEMMA ComHolds == ComSpec => [](ComInv /\ PagesInv)
<1>1. ComInit => ComInv /\ PagesInv
  <2> SUFFICES ASSUME ComInit PROVE ComInv /\ PagesInv
    OBVIOUS
  <2>1. RowsInv
    BY WriteTypes, ComBounds DEF ComInit, RowsInv, WriteOK
  <2>2. CacheInv /\ PagesInv
    BY ComBounds DEF ComInit, CacheInv, PagesInv
  <2> QED
    BY <2>1, <2>2 DEF ComInv
<1>2. (ComInv /\ PagesInv) /\ [ComNext]_comVars => (ComInv /\ PagesInv)'
  BY ComKept
<1> QED
  BY <1>1, <1>2, PTL DEF ComSpec

\* Comments stay within their types: ids, revisions, the calls in flight, the
\* replay cache and its order, the reader's cursor.
LEMMA ComTypesHold == ComSpec => []ComTypeOK
<1>1. ComInv /\ PagesInv => ComTypeOK
  <2> SUFFICES ASSUME ComInv, PagesInv PROVE ComTypeOK
    OBVIOUS
  <2>1. \A i \in CommentIds : comment[i] = Absent \/ comment[i] \in CommentRow
    BY DEF ComInv, RowsInv
  <2>2. ASSUME NEW c \in Clients
        PROVE  write[c] = NoWrite \/ write[c].op \in {"lookup", "begin", "create", "remember", "status",
                                                     "edit", "editing"}
    <3>1. write[c] \in WriteRec /\ (write[c].op = "idle" => write[c] = NoWrite)
      BY DEF ComInv, RowsInv, WriteOK
    <3> QED
      BY <3>1 DEF WriteRec
  <2> QED
    BY <2>1, <2>2 DEF ComTypeOK, CommentRow, ComInv, RowsInv, CacheInv, PagesInv
<1> QED
  BY <1>1, ComHolds, PTL

-----------------------------------------------------------------------------
(* The history.                                                              *)

StatusRecord == [id : CommentIds, from : States, to : States]
EditRecord   == [id : CommentIds, read : Nat, old : Nat]
RecordsOf(log, i) == {n \in DOMAIN log : log[n].id = i}
\* A log of status events accounts for status s of comment i, and a log of edits
\* for its revision r.
StatusTold(log, i, s) ==
    LET ev == RecordsOf(log, i)
    IN  s = Left(log, ev) /\ \A n \in ev : log[n].from = Left(log, {m \in ev : m < n})
EditsTold(log, i, r) ==
    LET ed == RecordsOf(log, i)
    IN  /\ r = Cardinality(ed) + 1
        /\ \A n \in ed : log[n].read = log[n].old /\ log[n].old = Cardinality(UpTo(ed, n))
HistInv ==
    /\ trail \in Seq(StatusRecord) /\ edits \in Seq(EditRecord)
    /\ \A n \in DOMAIN trail : trail[n].id \in CommentIds /\ comment[trail[n].id] # Absent
    /\ \A n \in DOMAIN edits : edits[n].id \in CommentIds /\ comment[edits[n].id] # Absent
    /\ \A i \in CommentIds :
          /\ Discussion(i) => StatusTold(trail, i, comment[i].status)
          /\ Stored(i) => EditsTold(edits, i, comment[i].rev)

\* The newest of the ids.
LEMMA LatestIs ==
  ASSUME NEW k \in Nat, NEW S \in SUBSET (1 .. k)
  PROVE  (S # {} => LatestId(S) \in S) /\ LatestId(S \cup {k + 1}) = k + 1
<1>1. S # {} => LatestId(S) \in S
  BY Greatest DEF LatestId
<1> DEFINE T == S \cup {k + 1}
<1>2. k + 1 \in T /\ \A m \in T : m <= k + 1 /\ m \in Int
  OBVIOUS
<1>3. \A n \in T : (\A m \in T : m <= n) => n = k + 1
  BY <1>2
<1> HIDE DEF T
<1>4. \E n \in T : \A m \in T : m <= n
  BY <1>2
<1>5. LatestId(T) = k + 1
  BY <1>3, <1>4 DEF LatestId
<1> QED
  BY <1>1, <1>5 DEF T

\* What an added record does to the records of a comment.
LEMMA RecordAdded ==
  ASSUME NEW R, NEW log \in Seq(R), NEW e \in R, NEW i
  PROVE  LET new == Append(log, e)
         IN  /\ RecordsOf(new, i) = RecordsOf(log, i) \cup (IF e.id = i THEN {Len(log) + 1} ELSE {})
             /\ RecordsOf(log, i) \in SUBSET (1 .. Len(log)) /\ Len(log) \in Nat
             /\ new[Len(log) + 1] = e /\ \A n \in 1 .. Len(log) : new[n] = log[n]
<1> DEFINE new == Append(log, e)
<1>1. /\ DOMAIN log = 1 .. Len(log) /\ DOMAIN new = 1 .. Len(log) + 1 /\ Len(log) \in Nat
      /\ new[Len(log) + 1] = e /\ \A n \in 1 .. Len(log) : new[n] = log[n]
  OBVIOUS
<1>2. 1 .. Len(log) + 1 = (1 .. Len(log)) \cup {Len(log) + 1}
  BY <1>1
<1> HIDE DEF new
<1>3. RecordsOf(new, i) = RecordsOf(log, i) \cup (IF e.id = i THEN {Len(log) + 1} ELSE {})
  BY <1>1, <1>2 DEF RecordsOf
<1> QED
  BY <1>1, <1>3 DEF RecordsOf, new

\* An event leads on from the status before it.
LEMMA StatusAdded ==
  ASSUME NEW log \in Seq(StatusRecord), NEW e \in StatusRecord, NEW i, NEW s, StatusTold(log, i, s),
         e.id = i => e.from = s
  PROVE  StatusTold(Append(log, e), i, IF e.id = i THEN e.to ELSE s)
<1> DEFINE new == Append(log, e)
           k   == Len(log)
           ev  == RecordsOf(log, i)
<1>1. /\ RecordsOf(new, i) = ev \cup (IF e.id = i THEN {k + 1} ELSE {})
      /\ ev \in SUBSET (1 .. k) /\ k \in Nat
      /\ new[k + 1] = e /\ \A n \in 1 .. k : new[n] = log[n]
  BY RecordAdded
<1>2. s = Left(log, ev) /\ \A n \in ev : log[n].from = Left(log, {m \in ev : m < n})
  BY DEF StatusTold
<1> HIDE DEF new, k, ev
<1>3. ASSUME NEW S \in SUBSET ev PROVE Left(new, S) = Left(log, S)
  <2>1. S \in SUBSET (1 .. k)
    BY <1>1
  <2>2. S # {} => LatestId(S) \in 1 .. k
    BY <1>1, <2>1, LatestIs
  <2> QED
    BY <1>1, <2>2 DEF Left
<1>4. ASSUME NEW n \in ev PROVE new[n].from = Left(new, {m \in ev : m < n})
  <2>1. {m \in ev : m < n} \in SUBSET ev
    OBVIOUS
  <2>2. Left(new, {m \in ev : m < n}) = Left(log, {m \in ev : m < n})
    BY <1>3, <2>1
  <2>3. new[n] = log[n]
    BY <1>1
  <2> QED
    BY <1>2, <2>2, <2>3
<1>7. (\A m \in ev : m \in Int /\ m <= k /\ m < k + 1 /\ m # k + 1) /\ ~(k + 1 < k + 1)
  BY <1>1
<1>5. CASE e.id # i
  <2>1. RecordsOf(new, i) = ev /\ s = Left(new, ev)
    BY <1>1, <1>2, <1>3, <1>5
  <2>2. StatusTold(new, i, s)
    BY <1>4, <2>1 DEF StatusTold
  <2> QED
    BY <1>5, <2>2 DEF new
<1>6. CASE e.id = i
  <2> DEFINE ev2 == ev \cup {k + 1}
  <2>1. RecordsOf(new, i) = ev2
    BY <1>1, <1>6
  <2>2. LatestId(ev2) = k + 1 /\ ev2 # {}
    BY <1>1, LatestIs
  <2>3. Left(new, ev2) = e.to
    BY <1>1, <2>2 DEF Left
  <2>4. {m \in ev2 : m < k + 1} = ev
    BY <1>7
  <2>8. \A n \in ev : ~(k + 1 < n)
    BY <1>1, <1>7
  <2>5. \A n \in ev : {m \in ev2 : m < n} = {m \in ev : m < n}
    BY <2>8
  <2>6. new[k + 1].from = Left(new, {m \in ev2 : m < k + 1})
    BY <1>1, <1>2, <1>3, <1>6, <2>4
  <2>7. \A n \in ev : new[n].from = Left(new, {m \in ev2 : m < n})
    BY <1>4, <2>5
  <2>9. StatusTold(new, i, e.to)
    <3> HIDE DEF ev2
    <3>1. \A n \in ev2 : n \in ev \/ n = k + 1
      BY DEF ev2
    <3> QED
      BY <2>1, <2>3, <2>6, <2>7, <3>1 DEF StatusTold
  <2> QED
    BY <1>6, <2>9 DEF new
<1> QED
  BY <1>5, <1>6

\* An edit is the next one.
LEMMA EditAdded ==
  ASSUME NEW log \in Seq(EditRecord), NEW e \in EditRecord, NEW i, NEW r \in Nat, EditsTold(log, i, r),
         e.id = i => e.read = e.old /\ e.old = r
  PROVE  EditsTold(Append(log, e), i, IF e.id = i THEN r + 1 ELSE r)
<1> DEFINE new == Append(log, e)
           k   == Len(log)
           ed  == RecordsOf(log, i)
<1>1. /\ RecordsOf(new, i) = ed \cup (IF e.id = i THEN {k + 1} ELSE {})
      /\ ed \in SUBSET (1 .. k) /\ k \in Nat
      /\ new[k + 1] = e /\ \A n \in 1 .. k : new[n] = log[n]
  BY RecordAdded
<1>2. /\ r = Cardinality(ed) + 1
      /\ \A n \in ed : log[n].read = log[n].old /\ log[n].old = Cardinality(UpTo(ed, n))
  BY DEF EditsTold
<1> HIDE DEF new, k, ed
<1>5. (\A m \in ed : m \in Int /\ m <= k + 1 /\ m # k + 1 /\ ~(k + 1 <= m)) /\ k + 1 <= k + 1
  <2>1. \A m \in 1 .. k : m \in Int /\ m <= k + 1 /\ m # k + 1 /\ ~(k + 1 <= m)
    BY <1>1
  <2>2. k + 1 <= k + 1
    BY <1>1
  <2> QED
    BY <1>1, <2>1, <2>2
<1>3. CASE e.id # i
  <2>1. RecordsOf(new, i) = ed
    BY <1>1, <1>3
  <2>2. EditsTold(new, i, r)
    BY <1>1, <1>2, <2>1 DEF EditsTold
  <2> QED
    BY <1>3, <2>2 DEF new
<1>4. CASE e.id = i
  <2> DEFINE ed2 == ed \cup {k + 1}
  <2>1. RecordsOf(new, i) = ed2
    BY <1>1, <1>4
  <2>2. IsFiniteSet(ed) /\ k + 1 \notin ed
    <3>1. IsFiniteSet(1 .. k)
      BY <1>1, FS_Interval
    <3> QED
      BY <1>1, <1>5, <3>1, FS_Subset
  <2>3. Cardinality(ed2) = Cardinality(ed) + 1
    BY <2>2, FS_AddElement
  <2>4. UpTo(ed2, k + 1) = ed2
    BY <1>5 DEF UpTo
  <2>5. \A n \in ed : UpTo(ed2, n) = UpTo(ed, n)
    BY <1>5 DEF UpTo
  <2>6. new[k + 1].read = new[k + 1].old /\ new[k + 1].old = Cardinality(UpTo(ed2, k + 1))
    BY <1>1, <1>2, <1>4, <2>3, <2>4
  <2>7. \A n \in ed : new[n].read = new[n].old /\ new[n].old = Cardinality(UpTo(ed2, n))
    BY <1>1, <1>2, <2>5
  <2>8. r + 1 = Cardinality(ed2) + 1
    BY <1>2, <2>3
  <2>9. EditsTold(new, i, r + 1)
    <3> HIDE DEF ed2
    <3>1. \A n \in ed2 : n \in ed \/ n = k + 1
      BY DEF ed2
    <3> QED
      BY <2>1, <2>6, <2>7, <2>8, <3>1 DEF EditsTold
  <2> QED
    BY <1>4, <2>9 DEF new
<1> QED
  BY <1>3, <1>4
\* The logs stay, and so do the comments they are about.
LEMMA LogsStay ==
  ASSUME HistInv, UNCHANGED <<trail, edits>>,
         \A i \in CommentIds : comment[i] # Absent => /\ comment'[i].on = comment[i].on
                                                  /\ comment'[i].rev = comment[i].rev
                                                  /\ comment'[i].status = comment[i].status
                                                  /\ comment'[i] # Absent,
         \A i \in CommentIds : comment[i] = Absent /\ comment'[i] # Absent =>
            comment'[i].rev = 1 /\ (comment'[i].on = 0 => comment'[i].status = "none")
  PROVE  HistInv'
<1>1. ASSUME NEW i \in CommentIds, comment[i] # Absent
      PROVE  /\ Discussion(i)' => StatusTold(trail', i, comment'[i].status)
             /\ Stored(i)' => EditsTold(edits', i, comment'[i].rev)
  BY <1>1 DEF HistInv, Discussion, Stored
<1>2. ASSUME NEW i \in CommentIds, comment[i] = Absent, comment'[i] # Absent
      PROVE  /\ Discussion(i)' => StatusTold(trail', i, comment'[i].status)
             /\ Stored(i)' => EditsTold(edits', i, comment'[i].rev)
  <2>1. RecordsOf(trail, i) = {} /\ RecordsOf(edits, i) = {}
    BY <1>2 DEF HistInv, RecordsOf
  <2> QED
    BY <1>2, <2>1, FS_EmptySet DEF Discussion, StatusTold, EditsTold, Left
<1>3. ASSUME NEW i \in CommentIds, comment'[i] = Absent PROVE ~Discussion(i)' /\ ~Stored(i)'
  BY <1>3, WriteTypes DEF Discussion, Stored
<1> QED
  BY <1>1, <1>2, <1>3 DEF HistInv

\* A write that touches neither rows nor logs.
LEMMA HistoryStill == HistInv /\ UNCHANGED <<comment, trail, edits>> => HistInv'
BY DEF HistInv, Discussion, Stored

LEMMA InsertTells ==
  ASSUME RowsInv, HistInv, NEW c \in Clients, CreateDiscussion(c) \/ CreateReply(c)
  PROVE  HistInv'
<1> DEFINE x == write[c]
           entry == [on |-> x.id, by |-> UserOf[c], at |-> x.at, rev |-> 1, status |-> x.status]
<1>1. x \in WriteRec /\ WriteOK(x, comment, minted) /\ x.op = "create" /\ UNCHANGED edits
  BY DEF RowsInv, CreateDiscussion, CreateReply
<1>2. x.mine \in CommentIds /\ comment[x.mine] = Absent
  BY <1>1, ComBounds DEF WriteOK, RowsInv, CommentIds
<1>3. entry.on = x.id /\ entry.rev = 1 /\ entry.status = x.status /\ entry.on # -1
  BY <1>1, ComBounds DEF WriteRec
<1> HIDE DEF entry
<1>4. CASE comment' = [comment EXCEPT ![x.mine] = entry] /\ UNCHANGED trail /\ (x.id = 0 => x.status = "none")
  <2>1. \A i \in CommentIds : comment[i] # Absent => comment'[i] = comment[i]
    BY <1>2, <1>4 DEF RowsInv
  <2>2. \A i \in CommentIds : comment[i] = Absent /\ comment'[i] # Absent => comment'[i] = entry
    BY <1>2, <1>4 DEF RowsInv
  <2> QED
    BY <1>1, <1>3, <1>4, <2>1, <2>2, LogsStay
<1>5. CASE UNCHANGED <<comment, trail>>
  BY <1>1, <1>5, HistoryStill
<1>6. CASE /\ comment' = [comment EXCEPT ![x.mine] = entry] /\ x.id = 0
           /\ trail' = Append(trail, [id |-> x.mine, from |-> "none", to |-> x.status])
  <2> DEFINE e == [id |-> x.mine, from |-> "none", to |-> x.status]
  <2>1. e \in StatusRecord /\ e.id = x.mine /\ e.from = "none" /\ e.to = x.status
    BY <1>1, <1>2 DEF StatusRecord, States, WriteRec
  <2> HIDE DEF e
  <2>2. trail' = Append(trail, e) /\ trail \in Seq(StatusRecord)
    BY <1>6 DEF HistInv, e
  <2>3. trail' \in Seq(StatusRecord)
    BY <2>1, <2>2
  <2>4. /\ comment'[x.mine] = entry /\ entry # Absent
        /\ \A i \in CommentIds : i # x.mine => comment'[i] = comment[i]
    BY <1>2, <1>3, <1>6, WriteTypes DEF RowsInv
  <2>5. ASSUME NEW i \in CommentIds, i # x.mine, Discussion(i)'
        PROVE  StatusTold(trail', i, comment'[i].status)
    BY <2>1, <2>2, <2>4, <2>5, StatusAdded DEF HistInv, Discussion
  <2>6. StatusTold(trail, x.mine, "none") /\ RecordsOf(edits, x.mine) = {}
    BY <1>2 DEF HistInv, RecordsOf, StatusTold, Left
  <2>7. StatusTold(trail', x.mine, x.status)
    BY <2>1, <2>2, <2>6, StatusAdded
  <2>8. \A i \in CommentIds : Discussion(i)' => StatusTold(trail', i, comment'[i].status)
    BY <1>3, <2>4, <2>5, <2>7
  <2>9. \A i \in CommentIds : Stored(i)' => EditsTold(edits', i, comment'[i].rev)
    <3>1. EditsTold(edits, x.mine, 1)
      BY <2>6, FS_EmptySet DEF EditsTold
    <3> QED
      BY <1>1, <1>3, <2>4, <3>1 DEF HistInv, Stored
  <2>10. \A n \in DOMAIN trail' : trail'[n].id \in CommentIds /\ comment'[trail'[n].id] # Absent
    <3>1. \A n \in DOMAIN trail' : (n \in DOMAIN trail /\ trail'[n] = trail[n]) \/ trail'[n] = e
      BY <2>2
    <3> QED
      BY <1>2, <2>1, <2>4, <3>1 DEF HistInv
  <2>11. \A n \in DOMAIN edits' : edits'[n].id \in CommentIds /\ comment'[edits'[n].id] # Absent
    BY <1>1, <1>2, <2>4 DEF HistInv
  <2> QED
    BY <1>1, <2>3, <2>8, <2>9, <2>10, <2>11 DEF HistInv
<1> QED
  BY <1>1, <1>4, <1>5, <1>6 DEF CreateDiscussion, CreateReply, Inserts, entry
\* A status event leaves the status the log ends with.
LEMMA StatusTells ==
  ASSUME RowsInv, HistInv, NEW c \in Clients, SetStatus(c)
  PROVE  HistInv'
<1> DEFINE x == write[c]
           e == [id |-> x.id, from |-> comment[x.id].status, to |-> x.status]
           r1 == [comment[x.id] EXCEPT !.status = x.status]
           r  == [r1 EXCEPT !.at = x.at]
<1>1. x \in WriteRec /\ WriteOK(x, comment, minted) /\ x.op = "status" /\ UNCHANGED edits
      /\ comment' = [comment EXCEPT ![x.id] = r]
  BY DEF RowsInv, SetStatus
<1>2. trail' = Append(trail, e) /\ trail \in Seq(StatusRecord)
  BY DEF SetStatus, FromStatus, HistInv
<1>3. x.id \in CommentIds /\ comment[x.id] \in CommentRow /\ x.status \in States /\ comment[x.id] # Absent
      /\ x.at \in 1 .. MaxTime
  BY <1>1, ComBounds DEF WriteOK, RowsInv, WriteRec
<1>4. e \in StatusRecord /\ e.id = x.id /\ e.from = comment[x.id].status /\ e.to = x.status
  BY <1>3 DEF StatusRecord, CommentRow
<1>5. r1 \in CommentRow /\ r1.on = comment[x.id].on /\ r1.rev = comment[x.id].rev /\ r1.status = x.status
  BY <1>3 DEF CommentRow
<1> HIDE DEF e, r1
<1>6. r \in CommentRow /\ r.on = comment[x.id].on /\ r.rev = comment[x.id].rev /\ r.status = x.status
  BY <1>3, <1>5 DEF CommentRow
<1> HIDE DEF r
<1>7. /\ comment'[x.id] = r /\ r # Absent
      /\ \A i \in CommentIds : i # x.id => comment'[i] = comment[i]
  BY <1>1, <1>3, <1>6, WriteTypes DEF RowsInv
<1>8. trail' \in Seq(StatusRecord)
        /\ \A n \in DOMAIN trail' : (n \in DOMAIN trail /\ trail'[n] = trail[n]) \/ trail'[n] = e
  BY <1>2, <1>4
<1>9. ASSUME NEW i \in CommentIds, Discussion(i)'
      PROVE  StatusTold(trail', i, comment'[i].status)
  <2>1. Discussion(i)
    BY <1>6, <1>7, <1>9 DEF Discussion
  <2>2. StatusTold(trail, i, comment[i].status)
    BY <2>1 DEF HistInv
  <2> QED
    BY <1>2, <1>4, <1>6, <1>7, <2>2, StatusAdded
<1>10. \A i \in CommentIds : Stored(i)' => EditsTold(edits', i, comment'[i].rev)
  BY <1>1, <1>6, <1>7 DEF HistInv, Stored
<1>11. \A n \in DOMAIN trail' : trail'[n].id \in CommentIds /\ comment'[trail'[n].id] # Absent
  BY <1>3, <1>4, <1>7, <1>8 DEF HistInv
<1>12. \A n \in DOMAIN edits' : edits'[n].id \in CommentIds /\ comment'[edits'[n].id] # Absent
  BY <1>1, <1>7 DEF HistInv
<1> QED
  BY <1>1, <1>8, <1>9, <1>10, <1>11, <1>12 DEF HistInv

\* An edit is logged with the text it replaced, which its editor had read.
LEMMA EditTells ==
  ASSUME RowsInv, HistInv, NEW c \in Clients, write[c].op = "editing", Revises(c)
  PROVE  HistInv'
<1> DEFINE x == write[c]
           e == [id |-> x.id, read |-> x.rev, old |-> comment[x.id].rev]
           r1 == [comment[x.id] EXCEPT !.rev = comment[x.id].rev + 1]
           r  == [r1 EXCEPT !.at = x.at]
<1>1. x \in WriteRec /\ WriteOK(x, comment, minted) /\ UNCHANGED trail
  BY DEF RowsInv, Revises
<1>2. CASE UNCHANGED <<comment, edits>>
  BY <1>1, <1>2, HistoryStill
<1>3. CASE edits' = Append(edits, e) /\ comment' = [comment EXCEPT ![x.id] = r] /\ comment[x.id].rev = x.rev
  <2>1. x.id \in CommentIds /\ comment[x.id] \in CommentRow /\ comment[x.id] # Absent
        /\ x.at \in 1 .. MaxTime
    BY <1>1, ComBounds DEF WriteOK, RowsInv, WriteRec
  <2>2. e \in EditRecord /\ e.id = x.id /\ e.read = e.old /\ e.old = comment[x.id].rev
    BY <1>3, <2>1 DEF EditRecord, CommentRow
  <2>3. r1 \in CommentRow /\ r1.on = comment[x.id].on /\ r1.status = comment[x.id].status
        /\ r1.rev = comment[x.id].rev + 1
    BY <2>1 DEF CommentRow
  <2>4. edits' = Append(edits, e) /\ edits \in Seq(EditRecord)
    BY <1>3 DEF HistInv
  <2>5. comment' = [comment EXCEPT ![x.id] = r]
    BY <1>3
  <2> HIDE DEF e, r1
  <2>6. r \in CommentRow /\ r.on = comment[x.id].on /\ r.status = comment[x.id].status
        /\ r.rev = comment[x.id].rev + 1
    BY <2>1, <2>3 DEF CommentRow
  <2> HIDE DEF r
  <2>7. /\ comment'[x.id] = r /\ r # Absent
        /\ \A i \in CommentIds : i # x.id => comment'[i] = comment[i]
    BY <2>1, <2>5, <2>6, WriteTypes DEF RowsInv
  <2>8. edits' \in Seq(EditRecord)
        /\ \A n \in DOMAIN edits' : (n \in DOMAIN edits /\ edits'[n] = edits[n]) \/ edits'[n] = e
    BY <2>2, <2>4
  <2>9. ASSUME NEW i \in CommentIds, Stored(i)'
        PROVE  EditsTold(edits', i, comment'[i].rev)
    <3>1. Stored(i)
      BY <2>6, <2>7, <2>9 DEF Stored
    <3>2. comment[i] \in CommentRow
      BY <3>1, WriteTypes DEF RowsInv, Stored
    <3>3. EditsTold(edits, i, comment[i].rev) /\ comment[i].rev \in Nat
      BY <3>1, <3>2 DEF HistInv, CommentRow
    <3>4. EditsTold(edits', i, IF e.id = i THEN comment[i].rev + 1 ELSE comment[i].rev)
      BY <2>2, <2>4, <3>3, EditAdded
    <3> QED
      BY <2>2, <2>6, <2>7, <3>4
  <2>10. \A i \in CommentIds : Discussion(i)' => StatusTold(trail', i, comment'[i].status)
    BY <1>1, <2>6, <2>7 DEF HistInv, Discussion
  <2>11. \A n \in DOMAIN edits' : edits'[n].id \in CommentIds /\ comment'[edits'[n].id] # Absent
    BY <2>1, <2>2, <2>7, <2>8 DEF HistInv
  <2>12. \A n \in DOMAIN trail' : trail'[n].id \in CommentIds /\ comment'[trail'[n].id] # Absent
    BY <1>1, <2>7 DEF HistInv
  <2> QED
    BY <1>1, <2>8, <2>9, <2>10, <2>11, <2>12 DEF HistInv
<1> QED
  BY <1>2, <1>3 DEF Revises, Current
LEMMA LogFrames ==
  ASSUME NEW c
  PROVE  /\ \A i, b, k, s : Posts(c, i, b, k, s) => UNCHANGED <<comment, trail, edits>>
         /\ Lookup(c) \/ Begin(c) \/ commentStoreError(c) => UNCHANGED <<comment, trail, edits>>
         /\ \A i, s : setStatus(c, i, s) => UNCHANGED <<comment, trail, edits>>
         /\ Edits(c) \/ Remember(c) => UNCHANGED <<comment, trail, edits>>
         /\ \A d, i : getDiscussion(c, d, i) => UNCHANGED <<comment, trail, edits>>
<1>1. ASSUME NEW i, NEW b, NEW k, NEW s, Posts(c, i, b, k, s) PROVE UNCHANGED <<comment, trail, edits>>
  BY <1>1 DEF Posts, rowVars
<1>2. Lookup(c) \/ Begin(c) \/ commentStoreError(c) => UNCHANGED <<comment, trail, edits>>
  BY DEF Lookup, Begin, commentStoreError, rowVars
<1>3. ASSUME NEW i, NEW s, setStatus(c, i, s) PROVE UNCHANGED <<comment, trail, edits>>
  BY <1>3 DEF setStatus, rowVars
<1>4. Edits(c) \/ Remember(c) => UNCHANGED <<comment, trail, edits>>
  BY DEF Edits, Remember, rowVars
<1>5. ASSUME NEW d, NEW i, getDiscussion(c, d, i) PROVE UNCHANGED <<comment, trail, edits>>
  BY <1>5 DEF getDiscussion, rowVars
<1> QED
  BY <1>1, <1>2, <1>3, <1>4, <1>5

LEMMA HistoryKept == RowsInv /\ HistInv /\ [ComNext]_comVars => HistInv'
<1> SUFFICES ASSUME RowsInv, HistInv, [ComNext]_comVars PROVE HistInv'
  OBVIOUS
<1>1. ASSUME NEW c \in Clients,
             \/ \E b \in Bodies, k \in Keys \cup {NoKey} :
                   \/ \E s \in States : createDiscussion(c, b, k, s)
                   \/ \E on \in 1 .. minted : createReply(c, on, b, k)
             \/ Lookup(c) \/ Begin(c) \/ commentStoreError(c) \/ Remember(c)
             \/ \E i \in CommentIds, s \in Statuses : setStatus(c, i, s)
             \/ \E d, i \in CommentIds : getDiscussion(c, d, i)
             \/ editDiscussionBody(c) \/ editReplyBody(c)
      PROVE  HistInv'
  <2>1. UNCHANGED <<comment, trail, edits>>
    BY <1>1, LogFrames, Zenon DEF createDiscussion, createReply, editDiscussionBody, editReplyBody
  <2> QED
    BY <2>1, HistoryStill
<1>2. ASSUME NEW c \in Clients, CreateDiscussion(c) \/ CreateReply(c) PROVE HistInv'
  BY <1>2, InsertTells
<1>3. ASSUME NEW c \in Clients, SetStatus(c) PROVE HistInv'
  BY <1>3, StatusTells
<1>4. ASSUME NEW c \in Clients, UpdateDiscussionBody(c) \/ UpdateReplyBody(c) PROVE HistInv'
  BY <1>4, EditTells DEF UpdateDiscussionBody, UpdateReplyBody
<1>5. CASE ListDiscussions \/ Clock \/ ComRestart \/ UNCHANGED comVars
  <2>1. UNCHANGED <<comment, trail, edits>>
    BY <1>5 DEF ListDiscussions, Clock, ComRestart, comVars, rowVars
  <2> QED
    BY <2>1, HistoryStill
<1> QED
  BY <1>1, <1>2, <1>3, <1>4, <1>5 DEF ComNext

\* What readers are shown is what is there: a discussion's history accounts for
\* its status and for every revision of it and its replies, however many clients
\* write at once; and a full listing that reached its last page has shown every
\* discussion that was there when it began, whatever was posted or edited
\* between its pages.
THEOREM CommentsAlwaysShown == ComSpec => []CommentsShown
<1>1. ComInit => HistInv
  BY WriteTypes DEF ComInit, HistInv, Discussion, Stored
<1>2. ComInv => RowsInv
  BY DEF ComInv
<1>3. ASSUME HistInv PROVE HistoryFaithful
  <2>1. SUFFICES ASSUME NEW d \in CommentIds, Discussion(d)
        PROVE  LET h == History(d)
               IN  /\ \A n \in h.events : trail[n].from = Left(trail, {m \in h.events : m < n})
                   /\ comment[d].status = Left(trail, h.events)
                   /\ \A i \in {j \in CommentIds : j = d \/ comment[j].on = d} :
                         LET ed == EditsOf(h, i)
                         IN  /\ comment[i].rev = Cardinality(ed) + 1
                             /\ \A n \in ed : /\ edits[n].read = edits[n].old
                                              /\ edits[n].old = Cardinality(UpTo(ed, n))
    BY DEF HistoryFaithful
  <2>2. History(d).events = RecordsOf(trail, d)
    BY DEF History, RecordsOf
  <2>3. StatusTold(trail, d, comment[d].status)
    BY <1>3, <2>1 DEF HistInv
  <2>4. ASSUME NEW i \in CommentIds, i = d \/ comment[i].on = d
        PROVE  EditsOf(History(d), i) = RecordsOf(edits, i) /\ EditsTold(edits, i, comment[i].rev)
    <3>1. Stored(i)
      BY <2>1, <2>4, ComBounds DEF Stored, Discussion, CommentIds
    <3>2. EditsOf(History(d), i) = RecordsOf(edits, i)
      BY <2>4 DEF EditsOf, History, RecordsOf
    <3> QED
      BY <1>3, <3>1, <3>2 DEF HistInv
  <2> QED
    BY <2>2, <2>3, <2>4 DEF StatusTold, EditsTold
<1>4. PagesInv => PagesComplete
  BY DEF PagesInv, PagesComplete
<1>5. HistInv /\ PagesInv => CommentsShown
  BY <1>3, <1>4 DEF CommentsShown
<1> QED
  BY <1>1, <1>2, <1>5, ComHolds, HistoryKept, PTL DEF ComSpec

-----------------------------------------------------------------------------
(* Side by side.                                                             *)

\* A step of the services is a step of each of them or leaves it alone.
LEMMA ServicesSteps ==
  /\ ServicesInit => /\ PoolInit /\ AcqInit /\ DaeInit /\ ConvInit /\ ComInit /\ AccInit /\ StoInit
                     /\ CatInit /\ ReaInit
  /\ [ServicesNext]_servicesVars =>
        /\ [PoolNext]_poolVars /\ [AcqNext]_acqVars /\ [DaeNext]_daeVars /\ [ConvNext]_convVars
        /\ [ComNext]_comVars /\ [AccNext]_accVars /\ [StoNext]_stoVars /\ [CatNext]_catVars
        /\ [ReaNext]_reaVars
BY DEF ServicesInit, ServicesNext, servicesVars, PoolMoves, AcquisitionMoves, DaemonMoves,
       ConversionMoves, CommentsMove, AccessMoves, StorageMoves, CatalogMoves, ReadingMoves, Only, Still

\* The services, each with its own behaviour, keep every type: of the run's
\* composition, and for every value of the constants.
THEOREM ServicesTyped == ServicesSpec => []ServicesTypeOK
<1>1. /\ ServicesSpec => PoolSpec /\ AcqSpec /\ DaeSpec
      /\ ServicesSpec => ConvSpec /\ ComSpec /\ AccSpec
      /\ ServicesSpec => StoSpec /\ CatSpec /\ ReaSpec
  BY ServicesSteps, PTL DEF ServicesSpec, PoolSpec, AcqSpec, DaeSpec, ConvSpec, ComSpec, AccSpec, StoSpec,
                            CatSpec, ReaSpec
<1>2. (PoolTypeOK /\ AcqTypeOK /\ DaeTypeOK /\ ConvTypeOK /\ ComTypeOK /\ AccTypeOK /\ StoTypeOK
         /\ CatTypeOK /\ ReaTypeOK) => ServicesTypeOK
  BY DEF ServicesTypeOK
<1> QED
  BY <1>1, <1>2, PoolTypesHold, AcqTypesHold, DaeTypesHold, ConvTypesHold, ComTypesHold, AccTypesHold,
     StoTypesHold, CatTypesHold, ReaTypesHold, PTL

\* What the MinerU services promise each other holds of the services the run
\* checks, and for every value of the constants.
THEOREM MineruAlwaysSound == ServicesSpec => MineruSound
<1>1. ServicesSpec => PoolSpec
  BY ServicesSteps, PTL DEF ServicesSpec, PoolSpec
<1>2. ServicesSpec => ConvSpec
  BY ServicesSteps, PTL DEF ServicesSpec, ConvSpec
<1> QED
  BY <1>1, <1>2, RingAlwaysSound, EditionsAlwaysSound, PTL DEF MineruSound
=============================================================================
