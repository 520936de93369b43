----------------------------- MODULE MCServices -----------------------------
(***************************************************************************)
(* Small instances of the services behind the routes.                      *)
(* They have no variable in common (where one depends on another, its      *)
(* module states what it relies on), so they are checked one at a time:    *)
(* focus names the service that moves, the others rest in their initial    *)
(* state.                                                                  *)
(***************************************************************************)
EXTENDS TokenPool, Acquisition, Daemon, Conversion, Comments, Access,
        Storage, Catalog, Reading, TLC

CONSTANTS Focus, a1, a2, b1, b2, pub, ver

(* Values of the constants. *)
MCConfig     == <<"t1", "t2">>
MCRequests   == [p \in Papers |-> IF p \in WithDOI THEN 2 ELSE 1]
MCUserOf     == [c \in Clients |-> CHOOSE u \in Users : TRUE]
MCCatKeys    == {<<"doi", 1>>, <<"arxiv", 1>>}
MCSeeded     == << {<<"doi", 1>>}, {<<"arxiv", 1>>} >>
MCPaperOf    == [s \in ShelfSources |-> "q"]
MCOriginOf   == [s \in ShelfSources |-> IF s = pub THEN 0 ELSE 1]
MCParsedFrom == [r \in ShelfRevisions |-> ver]
MCBlocksOf   == [r \in ShelfRevisions |-> IF r = 1 THEN <<1, 3, 1>> ELSE <<2, 1>>]
\* The services use the same model values for their symmetric sets.
MCSymmetry   == Permutations({a1, a2})

VARIABLE focus

\* Services that do not move have one initial state.
OthersRest ==
    /\ focus = "pool" \/ tokenRows = <<>>
    /\ focus = "daemon" \/ (~conf.postgres /\ ~conf.remote /\ ~conf.access)
    /\ focus = "conversion" \/ (legacyPdf = NoEdition /\ \A b \in PdfEditions : sourceRow[b] = "none")
    /\ focus = "reading" \/ legacyKeys = {}
ServicesInit ==
    /\ focus \in Focus
    /\ PoolInit /\ AcqInit /\ DaeInit /\ ConvInit /\ ComInit /\ AccInit
    /\ StoInit /\ CatInit /\ ReaInit
    /\ OthersRest

Still(name, v) == IF focus = name THEN TRUE ELSE UNCHANGED v
Only(name) ==
    /\ focus = name /\ UNCHANGED focus
    /\ Still("pool", poolVars) /\ Still("acquisition", acqVars)
    /\ Still("daemon", daeVars) /\ Still("conversion", convVars)
    /\ Still("comments", comVars) /\ Still("access", accVars)
    /\ Still("storage", stoVars) /\ Still("catalog", catVars)
    /\ Still("reading", reaVars)
PoolMoves        == Only("pool") /\ PoolNext
AcquisitionMoves == Only("acquisition") /\ AcqNext
DaemonMoves      == Only("daemon") /\ DaeNext
ConversionMoves  == Only("conversion") /\ ConvNext
CommentsMove     == Only("comments") /\ ComNext
AccessMoves      == Only("access") /\ AccNext
StorageMoves     == Only("storage") /\ StoNext
CatalogMoves     == Only("catalog") /\ CatNext
ReadingMoves     == Only("reading") /\ ReaNext
ServicesNext ==
    \/ PoolMoves \/ AcquisitionMoves \/ DaemonMoves \/ ConversionMoves
    \/ CommentsMove \/ AccessMoves \/ StorageMoves \/ CatalogMoves
    \/ ReadingMoves

servicesVars ==
    <<focus, poolVars, acqVars, daeVars, convVars, comVars, accVars, stoVars,
      catVars, reaVars>>
ServicesSpec == ServicesInit /\ [][ServicesNext]_servicesVars

\* Every service keeps its state within its types.
ServicesTypeOK ==
    /\ focus = "pool" => PoolTypeOK
    /\ focus = "acquisition" => AcqTypeOK
    /\ focus = "daemon" => DaeTypeOK
    /\ focus = "conversion" => ConvTypeOK
    /\ focus = "comments" => ComTypeOK
    /\ focus = "access" => AccTypeOK
    /\ focus = "storage" => StoTypeOK
    /\ focus = "catalog" => CatTypeOK
    /\ focus = "reading" => ReaTypeOK

\* What the MinerU services promise each other: a key ring in step with itself,
\* and bundles that are whole and of one edition.
MineruSound == RingSound /\ EditionsSound
=============================================================================
