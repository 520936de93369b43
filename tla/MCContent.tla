----------------------------- MODULE MCContent -----------------------------
(***************************************************************************)
(* Small instances of the services that find and take in papers.           *)
(* They have no variable in common (where one depends on another, its      *)
(* module states what it relies on), so they are checked one at a time:    *)
(* focus names the service that moves, the others rest in their initial    *)
(* state.                                                                  *)
(***************************************************************************)
EXTENDS SearchEngine, Originals, Resolver, Corpus, Intake, Reconcile,
        ObjectStore, Ingest, Catalog, TLC

CONSTANTS Focus, a1, a2, b1, b2

(* Values of the constants. *)
MCSymmetry   == Permutations({a1, a2})
\* SearchEngine: d1 and x1 are one work.
MCWorkOf     == [i \in {"d1", "x1", "d2"} |-> IF i \in {"d1", "x1"} THEN 1 ELSE 2]
MCHit(d, x, s) == [doi |-> d, arxiv |-> x, title |-> "t", score |-> s]
MCFound      == [p \in {"arxiv", "remote"} |->
                   IF p = "arxiv" THEN <<MCHit("none", "x1", 2)>>
                   ELSE <<MCHit("d2", "none", 3), MCHit("d1", "x1", 2), MCHit("none", "none", 1)>>]
\* Originals: a well-formed artifact of each layout and one that is refused.
MCBlock(p, i, box, d) == [page |-> p, index |-> i, bbox |-> box, discarded |-> d]
MCArtifact   ==
    "flat" :> [schema |-> "docvortex", version |-> TRUE, layout |-> "flat",
               blocks |-> <<MCBlock(1, 1, "none", FALSE), MCBlock(0, 2, "good", FALSE),
                            MCBlock(0, 4, "none", FALSE)>>]
    @@ "native" :> [schema |-> "none", version |-> FALSE, layout |-> "native",
                    blocks |-> <<MCBlock(0, 0, "bad", TRUE), MCBlock(0, 1, "good", FALSE),
                                 MCBlock(1, 0, "good", FALSE)>>]
    @@ "odd" :> [schema |-> "docvortex", version |-> TRUE, layout |-> "pages",
                 blocks |-> <<MCBlock(0, 0, "bad", FALSE)>>]
MCSourceOf   == "flat" :> "s1" @@ "native" :> "s2" @@ "odd" :> "s1"
MCPdfPages   == "s1" :> 2 @@ "s2" :> 1
\* Resolver: what OpenAlex may know of the work.
MCWorkRec(a, b, l) == [arxiv |-> a, mirror |-> NoUrl, best |-> b, locs |-> l]
MCRecords    == {MCWorkRec(FALSE, NoUrl, <<>>), MCWorkRec(TRUE, "u", <<"u", "v">>)}
\* Corpus: a later part revises a work of an earlier one; NoRecord is a bad line.
MCWork(i, rev, y, a, c) == [id |-> i, rev |-> rev, year |-> y, arxiv |-> a, cites |-> c]
MCParts      == << [date |-> 1, works |-> <<MCWork(1, 1, 5, TRUE, {}), NoRecord,
                                            MCWork(2, 1, 5, FALSE, {1})>>],
                   [date |-> 2, works |-> <<MCWork(1, 2, 5, TRUE, {2})>>] >>
MCRefLists   == {<<[kind |-> "arxiv", id |-> 1], [kind |-> "odd", id |-> 1],
                  [kind |-> "arxiv", id |-> 1]>>}
\* Reconcile: objects in both shards and both prefixes.
MCObject(k, s, d, w, v) == [kind |-> k, shard |-> s, dir |-> d, work |-> w, version |-> v]
MCBucket     == {MCObject("pdf", 1, 0, 1, 1), MCObject("markdown", 1, 0, 1, 1),
                 MCObject("pdf", 1, 1, 2, 2), MCObject("pdf", 0, 1, 2, 0)}
MCReports    == 1 :> "x" @@ 2 :> "x"
\* ObjectStore: names that are prefixes of each other.
MCShelf      == {<< <<"a">>, <<"a">>, <<"a">> >>, << <<"a">>, <<"a", "b">> >>,
                 << <<"a", "b">>, <<"a">> >>, << <<"a">>, <<"b">> >>,
                 << <<"b", "a">>, <<"a">> >>}
MCPrefixes   == {<<>>, << <<"a">> >>, << <<"a", "b">> >>, << <<"a">>, <<"a">> >>,
                 << <<"a">>, <<"a", "b">> >>, << <<"a">>, <<"b">> >>, << <<"b">> >>}
MCRefOf      == <<"bad", "doi">>
MCCatKeys    == {<<"doi", 1>>, <<"arxiv", 1>>}
MCSeeded     == << {<<"doi", 1>>}, {<<"arxiv", 1>>} >>

VARIABLE focus

\* Services that do not move have one initial state.
OthersRest ==
    /\ focus = "resolver" \/ \A d \in Dois : held[d][1].last = Absent
    /\ focus = "intake" \/ oldPdfs = [n \in Names |-> NoPdf]
    /\ focus = "reconcile" \/ stored = {}
    /\ focus = "objects" \/ \A k \in Kinds : backends[k] = "none"
    /\ focus = "ingest" \/ \A p \in Papers : standing[p] = "ready"
ContentInit ==
    /\ focus \in Focus
    /\ EngInit /\ OrigInit /\ ResolverInit /\ CorpusInit /\ IntakeInit
    /\ RecInit /\ ObjInit /\ IngestInit /\ CatInit
    /\ OthersRest

Still(name, v) == IF focus = name THEN TRUE ELSE UNCHANGED v
Only(name) ==
    /\ focus = name /\ UNCHANGED focus
    /\ Still("engine", engVars) /\ Still("originals", origVars)
    /\ Still("resolver", resolverVars) /\ Still("corpus", corpusVars)
    /\ Still("intake", intakeVars) /\ Still("reconcile", recVars)
    /\ Still("objects", objVars) /\ Still("ingest", ingestVars)
    /\ Still("catalog", catVars)
EngineMoves      == Only("engine") /\ EngNext
OriginalsMove    == Only("originals") /\ OrigNext
ResolverMoves    == Only("resolver") /\ ResolverNext
CorpusMoves      == Only("corpus") /\ CorpusNext
IntakeMoves      == Only("intake") /\ IntakeNext
ReconcileMoves   == Only("reconcile") /\ RecNext
ObjectsMove      == Only("objects") /\ ObjNext
IngestMoves      == Only("ingest") /\ IngestNext
CatalogMoves     == Only("catalog") /\ CatNext
ContentNext ==
    \/ EngineMoves \/ OriginalsMove \/ ResolverMoves \/ CorpusMoves
    \/ IntakeMoves \/ ReconcileMoves \/ ObjectsMove \/ IngestMoves
    \/ CatalogMoves

contentVars ==
    <<focus, engVars, origVars, resolverVars, corpusVars, intakeVars,
      recVars, objVars, ingestVars, catVars>>
ContentSpec == ContentInit /\ [][ContentNext]_contentVars

\* Every service keeps its state within its types.
ContentTypeOK ==
    /\ focus = "engine" => EngTypeOK
    /\ focus = "originals" => OrigTypeOK
    /\ focus = "resolver" => ResolverTypeOK
    /\ focus = "corpus" => CorpusTypeOK
    /\ focus = "intake" => IntakeTypeOK
    /\ focus = "reconcile" => RecTypeOK
    /\ focus = "objects" => ObjTypeOK
    /\ focus = "ingest" => IngestTypeOK
    /\ focus = "catalog" => CatTypeOK

\* No answer is about another work than the one asked for: not when results of
\* several providers are merged, when a look-up joins one already in flight, or
\* when the corpus is rebuilt while it is read.
SearchHonest == SearchAnchors /\ ResolverHonest /\ CorpusFaithful

\* Whichever way a PDF comes in (a contributor, the ingest queue, the nightly
\* reconciliation), what was accepted for a paper stays with that paper, and
\* whatever papers are merged, a reader that follows merged_into arrives.
PapersSound == ContributionsKept /\ IngestSound /\ ReconcileSafe /\ []MergeChainsEnd
=============================================================================
