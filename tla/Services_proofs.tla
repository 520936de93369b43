-------------------------- MODULE Services_proofs --------------------------
(***************************************************************************)
(* Proofs about the services of one server: the downloader's admissions, the *)
(* MinerU key ring, the server process and its pools, the assets of the      *)
(* bucket, the access tokens and the conversion leases of the registry, for   *)
(* every number of papers, goroutines, jobs, admins, keys, callers, codes,    *)
(* tokens and contributors.  Each section ends with the component's types.    *)
(***************************************************************************)
EXTENDS TokenPool, Acquisition, Daemon, Access, Storage, Catalog, FiniteSetTheorems, WellFoundedInduction, TLAPS

-----------------------------------------------------------------------------
(* The downloader: a finished admission ran, and a done one has its PDF.     *)

AcqTyped ==
    /\ row \in [Papers -> [state : {"none", "queued", "done", "failed"}, id : Nat]]
    /\ tickets \subseteq Papers \X Nat
    /\ download \in [Papers -> [pc : DownloadPCs, id : Nat, tried : BOOLEAN, next : DownloadPCs]]
    /\ fleet \in [Papers -> [state : {"none", "working", "archived", "failed"}, id : Nat]]

Announced(p) == p \in announced \/ p \in owed

\* What a job at a certain place has behind it: verified bytes before the hooks,
\* an answer of the fleet's archive, both before it is finished.
JobSound(p) ==
    /\ download[p].next \in {"idle", "failing", "browser", "over", "archived"}
    /\ download[p].next = "archived" => Announced(p)
    /\ download[p].pc = "archived" => Announced(p)
    /\ download[p].pc = "hooks" => p \in bound
    /\ download[p].pc = "finish" => p \in bound /\ Announced(p)
FleetSound(p) == fleet[p].state = "archived" => p \in bound /\ Announced(p)
RowSound(p) ==
    /\ row[p].state \in {"done", "failed"} => <<p, row[p].id>> \in ran
    /\ row[p].state = "done" => p \in bound /\ Announced(p)

AcqInv == AcqTyped /\ \A p \in Papers : JobSound(p) /\ FleetSound(p) /\ RowSound(p)

\* What no step but a crash takes back.
Grows ==
    /\ bound \subseteq bound' /\ ran \subseteq ran'
    /\ \A p \in Papers : Announced(p) => Announced(p)'

\* A step of one paper's job, with the journal and the fleet as they are.
LEMMA OneJobStep ==
  ASSUME AcqInv, NEW p \in Papers, Grows, row' = row, fleet' = fleet, tickets' \subseteq Papers \X Nat,
         NEW j \in [pc : DownloadPCs, id : Nat, tried : BOOLEAN, next : DownloadPCs],
         download' = [download EXCEPT ![p] = j], JobSound(p)'
  PROVE  AcqInv'
<1>1. AcqTyped'
  BY DEF AcqInv, AcqTyped
<1>2. ASSUME NEW q \in Papers PROVE JobSound(q)'
  <2>1. CASE q = p
    BY <2>1
  <2>2. CASE q # p
    <3>1. download'[q] = download[q]
      BY <2>2 DEF AcqInv, AcqTyped
    <3> QED
      BY <3>1 DEF AcqInv, JobSound, Grows
  <2> QED
    BY <2>1, <2>2
<1>3. ASSUME NEW q \in Papers PROVE FleetSound(q)' /\ RowSound(q)'
  BY DEF AcqInv, FleetSound, RowSound, Grows
<1> QED
  BY <1>1, <1>2, <1>3 DEF AcqInv

\* The places of the goroutines and the rungs of the ladder.
LEMMA Steps ==
  ASSUME AcqInv, NEW p \in Papers, NEW pc \in DownloadPCs,
         UNCHANGED <<row, fleet, bound, ran, announced, owed>>, tickets' \subseteq Papers \X Nat,
         Go(p, pc),
         pc = "archived" => Announced(p), pc = "hooks" => p \in bound,
         pc = "finish" => p \in bound /\ Announced(p)
  PROVE  AcqInv'
<1> DEFINE j == [download[p] EXCEPT !.pc = pc]
<1>1. download[p] \in [pc : DownloadPCs, id : Nat, tried : BOOLEAN, next : DownloadPCs]
  BY DEF AcqInv, AcqTyped
<1>2. j \in [pc : DownloadPCs, id : Nat, tried : BOOLEAN, next : DownloadPCs]
      /\ j.pc = pc /\ j.next = download[p].next
  BY <1>1
<1>3. download' = [download EXCEPT ![p] = j] /\ download'[p] = j
  BY DEF Go, AcqInv, AcqTyped
<1> HIDE DEF j
<1>4. JobSound(p)'
  BY <1>2, <1>3 DEF AcqInv, JobSound, Announced
<1>5. Grows
  BY DEF Grows, Announced
<1> QED
  BY <1>2, <1>3, <1>4, <1>5, OneJobStep

Job == [pc : DownloadPCs, id : Nat, tried : BOOLEAN, next : DownloadPCs]
\* The job goes to the fleet, or comes back from it.
LEMMA Detours ==
  ASSUME AcqInv, NEW p \in Papers, NEW j \in Job, j.pc \in {"remote", "rejoin"},
         j.next \in {"failing", "browser", "over", "archived"}, j.next = "archived" => Announced(p),
         UNCHANGED <<row, bound, ran, announced, owed, tickets>>,
         download' = [download EXCEPT ![p] = j],
         fleet' = fleet \/ fleet' = [fleet EXCEPT ![p] = [state |-> "working", id |-> download[p].id]]
  PROVE  AcqInv'
<1>1. download[p].id \in Nat
  BY DEF AcqInv, AcqTyped
<1>2. fleet' \in [Papers -> [state : {"none", "working", "archived", "failed"}, id : Nat]]
      /\ \A q \in Papers : fleet'[q].state = "archived" => fleet[q].state = "archived"
  <2> DEFINE f == [state |-> "working", id |-> download[p].id]
  <2>1. f \in [state : {"none", "working", "archived", "failed"}, id : Nat] /\ f.state = "working"
    BY <1>1
  <2>2. fleet' = fleet \/ fleet' = [fleet EXCEPT ![p] = f]
    OBVIOUS
  <2>3. fleet \in [Papers -> [state : {"none", "working", "archived", "failed"}, id : Nat]]
    BY DEF AcqInv, AcqTyped
  <2> HIDE DEF f
  <2>4. CASE fleet' = fleet
    BY <2>3, <2>4
  <2>5. CASE fleet' = [fleet EXCEPT ![p] = f]
    BY <2>1, <2>3, <2>5
  <2> QED
    BY <2>2, <2>4, <2>5
<1>3. download' \in [Papers -> Job] /\ download'[p] = j
  BY DEF AcqInv, AcqTyped, Job
<1>4. AcqTyped'
  BY <1>2, <1>3 DEF AcqInv, AcqTyped, Job
<1>5. ASSUME NEW q \in Papers PROVE JobSound(q)'
  <2>1. CASE q = p
    BY <1>3, <2>1 DEF JobSound, Announced
  <2>2. CASE q # p
    BY <2>2 DEF AcqInv, AcqTyped, JobSound, Announced
  <2> QED
    BY <2>1, <2>2
<1>6. ASSUME NEW q \in Papers PROVE FleetSound(q)' /\ RowSound(q)'
  BY <1>2 DEF AcqInv, FleetSound, RowSound, Announced
<1> QED
  BY <1>4, <1>5, <1>6 DEF AcqInv

\* The rungs of the ladder, the permits and the fleet's answers.
LEMMA LadderKeeps ==
  ASSUME AcqInv, NEW p \in Papers, Ladder(p)
  PROVE  AcqInv'
<1> DEFINE Quiet == UNCHANGED <<row, fleet, bound, ran, announced, owed, tickets>>
<1>1. tickets \subseteq Papers \X Nat
  BY DEF AcqInv, AcqTyped
<1>2. \A pc \in DownloadPCs \ {"archived", "hooks", "finish"} : Quiet /\ Go(p, pc) => AcqInv'
  BY <1>1, Steps
<1>3. /\ {"over", "failing", "check", "permit", "arxiv", "open", "browser", "agent", "store"}
            \subseteq DownloadPCs \ {"archived", "hooks", "finish"}
      /\ {"archived", "hooks", "finish"} \subseteq DownloadPCs
  BY DEF DownloadPCs, Rungs, Remote
<1>4. Fails(p) \in {"over", "failing"}
  BY DEF Fails
<1>5. CASE Take(p) \/ AcquirePermit(p)
  BY <1>2, <1>3, <1>5 DEF Take, AcquirePermit, JobOnly
<1>6. CASE CheckFrozen(p)
  <2>1. Quiet /\ (Go(p, Fails(p)) \/ Go(p, "permit") \/ (p \in bound /\ Go(p, "hooks")))
    BY <1>6 DEF CheckFrozen, JobOnly
  <2> QED
    BY <1>1, <1>2, <1>3, <1>4, <2>1, Steps
<1>7. ASSUME NEW next \in {"failing", "browser"}, Delegate(p, next) PROVE AcqInv'
  <2> DEFINE j == [download[p] EXCEPT !.pc = "remote", !.next = next, !.tried = TRUE]
  <2>1. download[p] \in Job /\ {"remote", "failing", "browser"} \subseteq DownloadPCs
    BY DEF AcqInv, AcqTyped, Job, DownloadPCs, Rungs, Remote
  <2>2. j \in Job /\ j.pc = "remote" /\ j.next = next
    BY <2>1 DEF Job
  <2>3. download' = [download EXCEPT ![p] = j]
    BY <1>7 DEF Delegate, Delegates, AcqInv, AcqTyped
  <2>4. UNCHANGED <<row, bound, ran, announced, owed, tickets>> /\ Attached(p)
    BY <1>7 DEF Delegate
  <2> HIDE DEF j
  <2> QED
    BY <2>2, <2>3, <2>4, Detours DEF Attached
<1>8. CASE TryArxiv(p) \/ OpenAccess(p) \/ Browser(p)
  BY <1>2, <1>3, <1>7, <1>8 DEF TryArxiv, OpenAccess, Browser, FetchReturns, JobOnly
<1>9. CASE Agent(p)
  BY <1>2, <1>3, <1>4, <1>7, <1>9 DEF Agent, FetchReturns, JobOnly
<1>10. CASE RemoteAnswer(p)
  <2>1. CASE fleet[p].state = "archived" /\ download' = [download EXCEPT ![p].pc = "rejoin", ![p].next = "archived"]
    <3>1. Announced(p)
      BY <2>1 DEF AcqInv, FleetSound
    <3> DEFINE j == [download[p] EXCEPT !.pc = "rejoin", !.next = "archived"]
    <3>2. download[p] \in Job /\ {"rejoin", "archived"} \subseteq DownloadPCs
      BY DEF AcqInv, AcqTyped, Job, DownloadPCs, Rungs, Remote
    <3>3. j \in Job /\ j.pc = "rejoin" /\ j.next = "archived"
      BY <3>2 DEF Job
    <3>4. download' = [download EXCEPT ![p] = j]
      BY <2>1 DEF AcqInv, AcqTyped
    <3> HIDE DEF j
    <3> QED
      BY <1>10, <3>1, <3>3, <3>4, Detours DEF RemoteAnswer, JobOnly
  <2>2. CASE Go(p, "rejoin")
    BY <1>2, <1>10, <2>2 DEF RemoteAnswer, JobOnly, DownloadPCs, Remote
  <2> QED
    BY <1>10, <2>1, <2>2 DEF RemoteAnswer
<1>11. CASE Rejoin(p)
  <2>1. PICK pc \in {Fails(p), download[p].next} : Go(p, pc) /\ Quiet /\ (pc = download[p].next \/ pc = Fails(p))
    BY <1>11 DEF Rejoin, JobOnly
  <2>2. /\ pc \in {"idle", "failing", "browser", "over", "archived"}
        /\ pc = "archived" => Announced(p)
    BY <1>4, <2>1 DEF AcqInv, JobSound
  <2>3. "idle" \in DownloadPCs
    BY DEF DownloadPCs
  <2> QED
    BY <1>1, <1>3, <2>1, <2>2, <2>3, Steps
<1>12. CASE CheckArchived(p)
  <2>1. Quiet /\ (Go(p, Fails(p)) \/ (p \in bound /\ Announced(p) /\ Go(p, "finish")))
    BY <1>12 DEF CheckArchived, JobOnly, AcqInv, JobSound, At
  <2> QED
    BY <1>1, <1>2, <1>3, <1>4, <2>1, Steps
<1>13. CASE StoreOutcome(p)
  <2>1. PICK x \in {"hooks", Fails(p)} : Go(p, x) /\ (x = "hooks" => p \in bound')
    <3>1. CASE Go(p, "hooks") /\ bound' = bound \cup {p}
      BY <3>1
    <3>2. CASE Go(p, Fails(p))
      BY <1>4, <3>2
    <3> QED
      BY <1>13, <3>1, <3>2 DEF StoreOutcome
  <2>2. bound \subseteq bound' /\ UNCHANGED <<row, fleet, ran, announced, owed, tickets>>
    BY <1>13 DEF StoreOutcome
  <2> DEFINE j == [download[p] EXCEPT !.pc = x]
  <2>3. j \in [pc : DownloadPCs, id : Nat, tried : BOOLEAN, next : DownloadPCs]
        /\ j.pc = x /\ j.next = download[p].next /\ download'[p] = j
        /\ download' = [download EXCEPT ![p] = j]
    <3>1. download \in [Papers -> [pc : DownloadPCs, id : Nat, tried : BOOLEAN, next : DownloadPCs]]
      BY DEF AcqInv, AcqTyped
    <3>2. x \in DownloadPCs
      BY <1>3, <1>4
    <3>3. download' = [download EXCEPT ![p] = j]
      BY <2>1 DEF Go
    <3> QED
      BY <3>1, <3>2, <3>3
  <2> HIDE DEF j
  <2>4. JobSound(p)' /\ Grows
    BY <1>4, <2>1, <2>2, <2>3 DEF AcqInv, JobSound, Announced, Grows
  <2> QED
    BY <1>1, <2>2, <2>3, <2>4, OneJobStep
<1>14. CASE FireHooks(p)
  <2>1. p \in bound /\ p \in announced' /\ announced \subseteq announced' /\ Go(p, "finish")
        /\ UNCHANGED <<row, fleet, ran, bound, owed, tickets>>
    BY <1>14 DEF FireHooks, AcqInv, JobSound, At
  <2> DEFINE j == [download[p] EXCEPT !.pc = "finish"]
  <2>2. j \in [pc : DownloadPCs, id : Nat, tried : BOOLEAN, next : DownloadPCs]
        /\ j.pc = "finish" /\ j.next = download[p].next /\ download'[p] = j
        /\ download' = [download EXCEPT ![p] = j]
    BY <1>3, <2>1 DEF Go, AcqInv, AcqTyped
  <2> HIDE DEF j
  <2>3. JobSound(p)' /\ Grows
    BY <2>1, <2>2 DEF AcqInv, JobSound, Announced, Grows
  <2> QED
    BY <1>1, <2>1, <2>2, <2>3, OneJobStep
<1> QED
  BY <1>5, <1>6, <1>8, <1>9, <1>10, <1>11, <1>12, <1>13, <1>14 DEF Ladder

\* The producer, the journal and the fleet's commits.
LEMMA JobsKeep ==
  ASSUME AcqInv, NEW p \in Papers,
         Send(p) \/ Release(p) \/ RemotePending(p) \/ FinishDownloadRequest(p) \/ FinishLost(p)
  PROVE  AcqInv'
<1>1. tickets \subseteq Papers \X Nat /\ download[p] \in Job
  BY DEF AcqInv, AcqTyped, Job
<1>2. {"queued", "over", "idle", "rejoin"} \subseteq DownloadPCs
  BY DEF DownloadPCs, Remote
<1>3. CASE Send(p) \/ FinishLost(p)
  BY <1>1, <1>2, <1>3, Steps DEF Send, FinishLost, JobOnly
<1>4. CASE Release(p)
  <2>1. NoJob \in Job /\ NoJob.pc = "idle" /\ NoJob.next = "idle"
    BY <1>2 DEF NoJob, Job
  <2>2. download' = [download EXCEPT ![p] = NoJob] /\ download'[p] = NoJob
        /\ UNCHANGED <<row, fleet, bound, ran, announced, owed, tickets>>
    BY <1>4 DEF Release, AcqInv, AcqTyped
  <2>3. JobSound(p)' /\ Grows
    BY <2>1, <2>2 DEF JobSound, Announced, Grows
  <2> QED
    BY <1>1, <2>1, <2>2, <2>3, OneJobStep DEF Job
<1>5. CASE RemotePending(p)
  <2> DEFINE j == [download[p] EXCEPT !.pc = "rejoin", !.next = "over"]
  <2>1. j \in Job /\ j.pc = "rejoin" /\ j.next = "over"
    BY <1>1, <1>2 DEF Job
  <2>2. download' = [download EXCEPT ![p] = j]
        /\ UNCHANGED <<row, fleet, bound, ran, announced, owed, tickets>>
    BY <1>5 DEF RemotePending, AcqInv, AcqTyped
  <2> HIDE DEF j
  <2> QED
    BY <2>1, <2>2, Detours
<1>6. CASE FinishDownloadRequest(p)
  <2> DEFINE s == IF download[p].pc = "finish" THEN "done" ELSE "failed"
             j == [download[p] EXCEPT !.pc = "over"]
  <2>1. j \in Job /\ j.pc = "over" /\ j.next = download[p].next
    BY <1>1, <1>2 DEF Job
  <2>2. /\ row' = Finished(p, s) /\ ran' = ran \cup {<<p, download[p].id>>}
        /\ download' = [download EXCEPT ![p] = j] /\ download'[p] = j
        /\ UNCHANGED <<fleet, bound, announced, owed, tickets>>
    BY <1>6 DEF FinishDownloadRequest, At, Go, AcqInv, AcqTyped
  <2> HIDE DEF j
  <2>3. s \in {"done", "failed"} /\ (s = "done" => p \in bound /\ Announced(p))
    BY DEF AcqInv, JobSound
  <2> HIDE DEF s
  <2>4. row[p] \in [state : {"none", "queued", "done", "failed"}, id : Nat]
    BY DEF AcqInv, AcqTyped
  <2>5. row' = row \/ (row[p].id = download[p].id /\ row' = [row EXCEPT ![p] = [row[p] EXCEPT !.state = s]])
    BY <2>2 DEF Finished
  <2>6. row' \in [Papers -> [state : {"none", "queued", "done", "failed"}, id : Nat]]
    BY <2>3, <2>4, <2>5 DEF AcqInv, AcqTyped
  <2>7. ASSUME NEW q \in Papers PROVE RowSound(q)'
    <3>1. row'[q] = row[q] \/ (q = p /\ row[p].id = download[p].id /\ row'[p] = [row[p] EXCEPT !.state = s])
      BY <2>5 DEF AcqInv, AcqTyped
    <3>2. CASE row'[q] = row[q]
      BY <2>2, <3>2 DEF AcqInv, RowSound, Announced
    <3>3. CASE q = p /\ row[p].id = download[p].id /\ row'[p] = [row[p] EXCEPT !.state = s]
      <4>1. row'[p].state = s /\ row'[p].id = download[p].id
        BY <2>4, <3>3
      <4> QED
        BY <2>2, <2>3, <3>3, <4>1 DEF RowSound, Announced
    <3> QED
      BY <3>1, <3>2, <3>3
  <2>8. ASSUME NEW q \in Papers PROVE JobSound(q)' /\ FleetSound(q)'
    <3>1. download'[q] = download[q] \/ (q = p /\ download'[q] = j)
      BY <2>2 DEF AcqInv, AcqTyped
    <3> QED
      BY <2>1, <2>2, <3>1 DEF AcqInv, JobSound, FleetSound, Announced
  <2>9. AcqTyped'
    BY <2>1, <2>2, <2>6 DEF AcqInv, AcqTyped, Job
  <2> QED
    BY <2>7, <2>8, <2>9 DEF AcqInv
<1> QED
  BY <1>3, <1>4, <1>5, <1>6

\* The journal and the hooks of the fleet keep the invariant.
LEMMA JournalKeeps ==
  ASSUME AcqInv, NEW p \in Papers,
         \/ SaveDownloadRequest(p) \/ FleetArchives(p) \/ FleetGivesUp(p) \/ AfterRemoteArchive(p)
         \/ \E id \in Nat : EnqueueAdmitted(p, id)
  PROVE  AcqInv'
<1>1. CASE SaveDownloadRequest(p)
  <2> DEFINE id == IF row[p].state = "queued" THEN row[p].id ELSE row[p].id + 1
             r  == [state |-> "queued", id |-> id]
  <2>1. id \in Nat /\ row' = [row EXCEPT ![p] = r] /\ tickets' = tickets \cup {<<p, id>>}
        /\ UNCHANGED <<fleet, download, bound, ran, announced, owed>>
    BY <1>1 DEF SaveDownloadRequest, AcqInv, AcqTyped
  <2>2. r \in [state : {"none", "queued", "done", "failed"}, id : Nat] /\ r.state = "queued"
    BY <2>1
  <2> HIDE DEF r, id
  <2>3. AcqTyped' /\ \A q \in Papers : row'[q] \in {row[q], r}
    BY <2>1, <2>2 DEF AcqInv, AcqTyped
  <2>4. ASSUME NEW q \in Papers PROVE JobSound(q)' /\ FleetSound(q)'
    BY <2>1 DEF AcqInv, JobSound, FleetSound, Announced
  <2>5. ASSUME NEW q \in Papers PROVE RowSound(q)'
    <3>1. CASE row'[q] = row[q]
      BY <2>1, <3>1 DEF AcqInv, RowSound, Announced
    <3>2. CASE row'[q] = r
      BY <2>2, <3>2 DEF RowSound
    <3> QED
      BY <2>3, <3>1, <3>2
  <2> QED
    BY <2>3, <2>4, <2>5 DEF AcqInv
<1>2. CASE FleetArchives(p) \/ FleetGivesUp(p)
  <2> DEFINE f(s) == [fleet[p] EXCEPT !.state = s]
  <2>1. PICK s \in {"archived", "failed"} :
           /\ fleet' = [fleet EXCEPT ![p] = f(s)] /\ bound \subseteq bound' /\ owed \subseteq owed'
           /\ (s = "archived" => p \in bound' /\ p \in owed')
           /\ UNCHANGED <<row, tickets, download, ran, announced>>
    BY <1>2 DEF FleetArchives, FleetGivesUp
  <2>2. f(s) \in [state : {"none", "working", "archived", "failed"}, id : Nat] /\ f(s).state = s
    BY DEF AcqInv, AcqTyped
  <2> HIDE DEF f
  <2>3. AcqTyped' /\ \A q \in Papers : fleet'[q] = fleet[q] \/ (q = p /\ fleet'[q] = f(s))
    BY <2>1, <2>2 DEF AcqInv, AcqTyped
  <2>4. \A q \in Papers : (q \in bound => q \in bound') /\ (Announced(q) => Announced(q)')
    BY <2>1 DEF Announced
  <2>5. ASSUME NEW q \in Papers PROVE JobSound(q)' /\ RowSound(q)'
    BY <2>1, <2>4 DEF AcqInv, JobSound, RowSound
  <2>6. ASSUME NEW q \in Papers PROVE FleetSound(q)'
    <3>1. CASE fleet'[q] = fleet[q]
      BY <2>4, <3>1 DEF AcqInv, FleetSound
    <3>2. CASE q = p /\ fleet'[q] = f(s)
      BY <2>1, <2>2, <3>2 DEF FleetSound, Announced
    <3> QED
      BY <2>3, <3>1, <3>2
  <2> QED
    BY <2>3, <2>5, <2>6 DEF AcqInv
<1>3. CASE AfterRemoteArchive(p)
  <2>1. (\A q \in Papers : Announced(q)' = Announced(q))
        /\ UNCHANGED <<row, tickets, download, ran, fleet, bound>>
    BY <1>3 DEF AfterRemoteArchive, Announced
  <2> QED
    BY <2>1 DEF AcqInv, AcqTyped, JobSound, FleetSound, RowSound
<1>4. CASE \E id \in Nat : EnqueueAdmitted(p, id)
  <2>1. PICK id \in Nat : EnqueueAdmitted(p, id)
    BY <1>4
  <2> DEFINE j == [NoJob EXCEPT !.pc = "admitted", !.id = id]
  <2>2. j \in Job /\ j.pc = "admitted" /\ j.next = "idle"
    BY DEF Job, NoJob, DownloadPCs
  <2> HIDE DEF j
  <2>3. /\ download' = download \/ download' = [download EXCEPT ![p] = j]
        /\ tickets' \subseteq tickets /\ UNCHANGED <<row, ran, fleet, bound, announced, owed>>
    BY <2>1 DEF EnqueueAdmitted, j
  <2>4. AcqTyped' /\ \A q \in Papers : download'[q] = download[q] \/ download'[q] = j
    BY <2>2, <2>3 DEF AcqInv, AcqTyped, Job
  <2> QED
    BY <2>2, <2>3, <2>4 DEF AcqInv, JobSound, FleetSound, RowSound, Announced
<1> QED
  BY <1>1, <1>2, <1>3, <1>4

\* Recovery's pass, shutdown, the crash and the next process.
LEMMA ProcessKeeps ==
  ASSUME AcqInv, PendingDownloadRequests \/ Shutdown \/ WorkerExit \/ NextProcess \/ AcqCrash
  PROVE  AcqInv'
<1>1. UNCHANGED <<row, fleet, bound, ran, announced, owed>>
  BY DEF PendingDownloadRequests, Shutdown, WorkerExit, NextProcess, AcqCrash
<1>2. tickets' \subseteq Papers \X Nat
  <2>1. tickets \subseteq Papers \X Nat /\ \A q \in Papers : <<q, row[q].id>> \in Papers \X Nat
    BY DEF AcqInv, AcqTyped
  <2>2. tickets' = tickets \/ tickets' = {}
        \/ tickets' = tickets \cup {<<p, row[p].id>> : p \in {q \in Papers : row[q].state = "queued"}}
    BY DEF PendingDownloadRequests, Shutdown, WorkerExit, NextProcess, AcqCrash, FreshProcess
  <2> QED
    BY <2>1, <2>2
<1>3. NoJob \in Job /\ NoJob.pc = "idle" /\ NoJob.next = "idle"
  BY DEF Job, NoJob, DownloadPCs
<1>4. download' = download \/ download' = [p \in Papers |-> NoJob]
  BY DEF PendingDownloadRequests, Shutdown, WorkerExit, NextProcess, AcqCrash, FreshProcess
<1>5. AcqTyped' /\ \A q \in Papers : download'[q] = download[q] \/ download'[q] = NoJob
  BY <1>1, <1>2, <1>3, <1>4 DEF AcqInv, AcqTyped, Job
<1> QED
  BY <1>1, <1>3, <1>5 DEF AcqInv, JobSound, FleetSound, RowSound, Announced

\* The invariant holds at the start.
LEMMA AcqStarts == AcqInit => AcqInv
<1>1. /\ NoJob \in Job /\ NoJob.pc = "idle" /\ NoJob.next = "idle"
      /\ [state |-> "none", id |-> 0] \in [state : {"none", "queued", "done", "failed"}, id : Nat]
      /\ [state |-> "none", id |-> 0] \in [state : {"none", "working", "archived", "failed"}, id : Nat]
  BY DEF Job, NoJob, DownloadPCs
<1> SUFFICES ASSUME AcqInit PROVE AcqInv
  OBVIOUS
<1>2. AcqTyped
  BY <1>1 DEF AcqInit, AcqTyped, Job
<1>3. ASSUME NEW p \in Papers PROVE JobSound(p) /\ FleetSound(p) /\ RowSound(p)
  BY <1>1 DEF AcqInit, JobSound, FleetSound, RowSound
<1> QED
  BY <1>2, <1>3 DEF AcqInv

\* A step keeps the invariant, whoever takes it.
LEMMA AcqKept == AcqInv /\ [AcqNext]_acqVars => AcqInv'
<1>1. ASSUME AcqInv, AcqNext PROVE AcqInv'
  <2>1. CASE \E t \in tickets : EnqueueAdmitted(t[1], t[2])
    <3>1. PICK t \in tickets : EnqueueAdmitted(t[1], t[2])
      BY <2>1
    <3>2. t[1] \in Papers /\ t[2] \in Nat
      BY <1>1, <3>1 DEF AcqInv, AcqTyped
    <3> QED
      BY <1>1, <3>1, <3>2, JournalKeeps
  <2>2. CASE \E p \in Papers : \/ SaveDownloadRequest(p) \/ Producer(p) \/ Ladder(p)
                               \/ RemotePending(p) \/ FinishDownloadRequest(p) \/ FinishLost(p)
                               \/ FleetArchives(p) \/ FleetGivesUp(p) \/ AfterRemoteArchive(p)
    BY <1>1, <2>2, JobsKeep, JournalKeeps, LadderKeeps DEF Producer
  <2> QED
    BY <1>1, <2>1, <2>2, ProcessKeeps DEF AcqNext
<1>2. ASSUME AcqInv, UNCHANGED acqVars PROVE AcqInv'
  BY <1>2 DEF AcqInv, AcqTyped, acqVars, JobSound, FleetSound, RowSound, Announced
<1> QED
  BY <1>1, <1>2

\* A request the journal calls done or failed was run to that end by a job of
\* that admission, and a done one has verified bytes and its hooks run or owed,
\* for every order of retries, stale tickets, crashes and fleet commits.
THEOREM AdmissionsAlwaysSound == AcqSpec => []AdmissionSound
<1>1. AcqInv => AdmissionSound
  BY DEF AcqInv, RowSound, Announced, AdmissionSound, AdmissionRan, DoneIsAcquired
<1> QED
  BY <1>1, AcqStarts, AcqKept, PTL DEF AcqSpec

\* The queue and the pool: a paper outside the queue has no job, so the jobs in
\* hand are finitely many and fewer than the pool's goroutines.
WithinCapacity(S) == IsFiniteSet(S) /\ S \subseteq Papers /\ Cardinality(S) <= MaxScheduled
QueueInv ==
    /\ WithinCapacity(scheduled)
    /\ \A p \in Papers : p \notin scheduled => download[p].pc = "idle"
    /\ held \subseteq Papers /\ alive \in 0 .. PoolSize /\ closed \in BOOLEAN /\ faults \in Nat
    /\ bound \subseteq Papers /\ announced \subseteq Papers /\ owed \subseteq Papers
    /\ ran \subseteq Papers \X Nat

\* The sizes of the queue and the pool.
LEMMA QueueSizes ==
  /\ MaxScheduled \in Nat /\ PoolSize \in Nat /\ MaxScheduled >= 1 /\ PoolSize >= 1
BY AcquisitionConfig
LEMMA EmptyQueue == WithinCapacity({})
BY QueueSizes, FS_EmptySet DEF WithinCapacity

\* A step of a paper's job or of its fleet task leaves the queue and the pool.
LEMMA QueueRests ==
  ASSUME QueueInv, NEW p \in Papers, UNCHANGED <<scheduled, alive, closed>>, faults' \in Nat,
         \A q \in Papers : download'[q].pc # download[q].pc => q = p /\ download[q].pc # "idle",
         held' \subseteq held \cup {p}, bound' \subseteq bound \cup {p},
         announced' \subseteq announced \cup {p}, owed' \subseteq owed \cup {p},
         ran' = ran \/ ran' \subseteq Papers \X Nat
  PROVE  QueueInv'
BY DEF QueueInv

\* Only the goroutine that runs a job, its producer and the fleet move it.
LEMMA LadderQueued ==
  ASSUME AcqInv, QueueInv, NEW p \in Papers, Ladder(p)
  PROVE  QueueInv'
<1>1. /\ UNCHANGED <<scheduled, alive, closed, faults, owed, ran>>
      /\ held' \subseteq held \cup {p} /\ bound' \subseteq bound \cup {p}
      /\ announced' \subseteq announced \cup {p}
  BY DEF Ladder, Take, CheckFrozen, AcquirePermit, TryArxiv, OpenAccess, Browser, Agent,
         RemoteAnswer, Rejoin, StoreOutcome, CheckArchived, FireHooks, FetchReturns, JobOnly,
         Delegate, Delegates
<1>2. \E j : download' = [download EXCEPT ![p] = j]
  <2>1. \A pc : Go(p, pc) => download' = [download EXCEPT ![p] = [download[p] EXCEPT !.pc = pc]]
    BY DEF Go
  <2>2. (\E pc : Go(p, pc)) \/ \E j : download' = [download EXCEPT ![p] = j]
    BY DEF Ladder, Take, CheckFrozen, AcquirePermit, TryArxiv, OpenAccess, Browser, Agent,
           RemoteAnswer, Rejoin, StoreOutcome, CheckArchived, FireHooks, FetchReturns,
           Delegate, Delegates
  <2> QED
    BY <2>1, <2>2
<1>3. download[p].pc # "idle"
  BY DEF Ladder, Take, CheckFrozen, AcquirePermit, TryArxiv, OpenAccess, Browser, Agent,
         RemoteAnswer, Rejoin, StoreOutcome, CheckArchived, FireHooks, At
<1>4. \A q \in Papers : download'[q].pc # download[q].pc => q = p
  BY <1>2 DEF AcqInv, AcqTyped
<1> QED
  BY <1>1, <1>3, <1>4, QueueRests DEF QueueInv

\* The journal's and the fleet's steps leave the queue as it is.
LEMMA JournalQueued ==
  ASSUME AcqInv, QueueInv, NEW p \in Papers,
         \/ SaveDownloadRequest(p) \/ FleetArchives(p) \/ FleetGivesUp(p) \/ AfterRemoteArchive(p)
  PROVE  QueueInv'
<1>1. /\ UNCHANGED <<scheduled, alive, closed, faults, download, held, ran>>
      /\ bound' \subseteq bound \cup {p}
      /\ announced' \subseteq announced \cup {p} /\ owed' \subseteq owed \cup {p}
  BY DEF SaveDownloadRequest, FleetArchives, FleetGivesUp, AfterRemoteArchive
<1> QED
  BY <1>1, QueueRests DEF QueueInv

\* A job is sent, gives up waiting for the fleet, or ends.
LEMMA EndsQueued ==
  ASSUME AcqInv, QueueInv, NEW p \in Papers,
         Send(p) \/ RemotePending(p) \/ FinishDownloadRequest(p) \/ FinishLost(p)
  PROVE  QueueInv'
<1>1. /\ UNCHANGED <<scheduled, alive, closed, held, bound, announced, owed>>
      /\ faults' \in Nat
  BY DEF Send, RemotePending, FinishDownloadRequest, FinishLost, Fault, JobOnly, QueueInv
<1>2. ran' = ran \/ ran' \subseteq Papers \X Nat
  <2>1. <<p, download[p].id>> \in Papers \X Nat
    BY DEF AcqInv, AcqTyped
  <2> QED
    BY <2>1 DEF Send, RemotePending, FinishDownloadRequest, FinishLost, JobOnly, QueueInv
<1>3. \A q \in Papers : download'[q].pc # download[q].pc => q = p
  <2>1. \A pc, q : q \in Papers /\ q # p /\ Go(p, pc) => download'[q] = download[q]
    BY DEF Go, AcqInv, AcqTyped
  <2>2. RemotePending(p) => \A q \in Papers : q # p => download'[q] = download[q]
    BY DEF RemotePending, AcqInv, AcqTyped
  <2> QED
    BY <2>1, <2>2 DEF Send, FinishDownloadRequest, FinishLost
<1>4. download[p].pc # "idle"
  BY DEF Send, RemotePending, FinishDownloadRequest, FinishLost, At
<1> QED
  BY <1>1, <1>2, <1>3, <1>4, QueueRests

\* A paper enters the queue below its capacity and leaves it with its job.
LEMMA QueueMoves ==
  ASSUME AcqInv, QueueInv, NEW p \in Papers, NEW id \in Nat, Release(p) \/ EnqueueAdmitted(p, id)
  PROVE  QueueInv'
<1> DEFINE Same == UNCHANGED <<alive, closed, faults, held, bound, announced, owed, ran>>
<1>1. CASE Release(p)
  <2>1. scheduled' = scheduled \ {p} /\ download' = [download EXCEPT ![p] = NoJob] /\ Same
    BY <1>1 DEF Release
  <2>2. WithinCapacity(scheduled')
    <3>1. IsFiniteSet(scheduled') /\ Cardinality(scheduled') <= Cardinality(scheduled)
      BY <2>1, FS_Subset DEF QueueInv, WithinCapacity
    <3>2. Cardinality(scheduled) \in Nat /\ Cardinality(scheduled') \in Nat
      BY <3>1, FS_CardinalityType DEF QueueInv, WithinCapacity
    <3> QED
      BY <2>1, <3>1, <3>2, QueueSizes DEF QueueInv, WithinCapacity
  <2>3. NoJob.pc = "idle"
    BY DEF NoJob
  <2>4. \A q \in Papers : download'[q] = IF q = p THEN NoJob ELSE download[q]
    BY <2>1 DEF AcqInv, AcqTyped
  <2> QED
    BY <2>1, <2>2, <2>3, <2>4 DEF QueueInv
<1>2. CASE EnqueueAdmitted(p, id)
  <2>1. /\ Same
        /\ \/ UNCHANGED <<scheduled, download>>
           \/ /\ scheduled' = scheduled \cup {p} /\ p \notin scheduled
              /\ Cardinality(scheduled) < MaxScheduled
              /\ \E j : download' = [download EXCEPT ![p] = j]
    BY <1>2, Zenon DEF EnqueueAdmitted, Room
  <2>2. CASE UNCHANGED <<scheduled, download>>
    BY <2>1, <2>2 DEF QueueInv
  <2>3. CASE /\ scheduled' = scheduled \cup {p} /\ p \notin scheduled
             /\ Cardinality(scheduled) < MaxScheduled
             /\ \E j : download' = [download EXCEPT ![p] = j]
    <3>1. IsFiniteSet(scheduled') /\ Cardinality(scheduled') = Cardinality(scheduled) + 1
      BY <2>3, FS_AddElement DEF QueueInv, WithinCapacity
    <3>2. Cardinality(scheduled) \in Nat
      BY FS_CardinalityType DEF QueueInv, WithinCapacity
    <3>3. WithinCapacity(scheduled')
      BY <2>3, <3>1, <3>2, QueueSizes DEF QueueInv, WithinCapacity
    <3>4. \A q \in Papers : q # p => download'[q] = download[q]
      BY <2>3 DEF AcqInv, AcqTyped
    <3> QED
      BY <2>1, <2>3, <3>3, <3>4 DEF QueueInv
  <2> QED
    BY <2>1, <2>2, <2>3
<1> QED
  BY <1>1, <1>2

\* A goroutine leaves the pool when one has no job; a process starts afresh.
LEMMA QueuePoolMoves ==
  ASSUME AcqInv, QueueInv,
         PendingDownloadRequests \/ Shutdown \/ WorkerExit \/ NextProcess \/ AcqCrash
  PROVE  QueueInv'
<1>1. CASE PendingDownloadRequests \/ Shutdown
  <2>1. /\ UNCHANGED <<scheduled, download, held, alive, bound, announced, owed, ran>>
        /\ closed' \in BOOLEAN /\ faults' \in Nat
    <3>1. CASE PendingDownloadRequests
      BY <3>1 DEF PendingDownloadRequests, QueueInv
    <3>2. CASE Shutdown
      BY <3>2 DEF Shutdown, Fault, QueueInv
    <3> QED
      BY <1>1, <3>1, <3>2
  <2> QED
    BY <2>1 DEF QueueInv
<1>2. CASE WorkerExit
  <2>1. Busy \subseteq scheduled
    BY DEF Busy, QueueInv
  <2>2. Cardinality(Busy) \in Nat
    BY <2>1, FS_Subset, FS_CardinalityType DEF QueueInv, WithinCapacity
  <2>3. alive' \in 0 .. PoolSize
    BY <1>2, <2>2, QueueSizes DEF WorkerExit, QueueInv
  <2> QED
    BY <1>2, <2>3 DEF WorkerExit, QueueInv
<1>3. CASE NextProcess \/ AcqCrash
  <2>2. /\ scheduled' = {} /\ held' = {} /\ alive' = PoolSize /\ closed' = FALSE
        /\ download' = [p \in Papers |-> NoJob]
        /\ UNCHANGED <<bound, announced, owed, ran>> /\ faults' \in Nat
    BY <1>3 DEF NextProcess, AcqCrash, FreshProcess, Fault, QueueInv
  <2>3. \A p \in Papers : download'[p].pc = "idle"
    BY <2>2 DEF NoJob
  <2> QED
    <3>1. WithinCapacity(scheduled')
      BY <2>2, EmptyQueue, Zenon
    <3>2. alive' \in 0 .. PoolSize
      BY <2>2, QueueSizes
    <3> QED
      BY <2>2, <2>3, <3>1, <3>2 DEF QueueInv
<1> QED
  BY <1>1, <1>2, <1>3

\* The downloader keeps its state within its types: the queue within its
\* capacity and the pool within its size, through restarts and crashes.
LEMMA AcqTypesHold == AcqSpec => []AcqTypeOK
<1>1. AcqInit => QueueInv
  <2> SUFFICES ASSUME AcqInit PROVE QueueInv
    OBVIOUS
  <2>1. \A p \in Papers : download[p].pc = "idle"
    BY DEF AcqInit, NoJob
  <2> QED
    <3>1. WithinCapacity(scheduled)
      BY EmptyQueue, Zenon DEF AcqInit
    <3>2. alive \in 0 .. PoolSize
      BY QueueSizes DEF AcqInit
    <3> QED
      BY <2>1, <3>1, <3>2 DEF AcqInit, QueueInv
<1>2. AcqInv /\ QueueInv /\ [AcqNext]_acqVars => QueueInv'
  <2> SUFFICES ASSUME AcqInv, QueueInv, [AcqNext]_acqVars PROVE QueueInv'
    OBVIOUS
  <2>1. CASE \E t \in tickets : EnqueueAdmitted(t[1], t[2])
    <3>1. PICK t \in tickets : EnqueueAdmitted(t[1], t[2])
      BY <2>1
    <3>2. t[1] \in Papers /\ t[2] \in Nat
      BY <3>1 DEF AcqInv, AcqTyped
    <3> QED
      BY <3>1, <3>2, QueueMoves
  <2>2. CASE UNCHANGED acqVars
    BY <2>2 DEF acqVars, QueueInv
  <2>3. ASSUME NEW p \in Papers, Release(p) PROVE QueueInv'
    <3>1. 0 \in Nat
      OBVIOUS
    <3> QED
      BY <2>3, <3>1, QueueMoves
  <2> QED
    BY <2>1, <2>2, <2>3, LadderQueued, JournalQueued, EndsQueued, QueuePoolMoves DEF AcqNext, Producer
<1>3. AcqInv /\ QueueInv => AcqTypeOK
  BY DEF AcqInv, AcqTyped, QueueInv, WithinCapacity, AcqTypeOK
<1> QED
  BY <1>1, <1>2, <1>3, AcqStarts, AcqKept, PTL DEF AcqSpec

-----------------------------------------------------------------------------
(* The key ring.                                                             *)

\* A set of numbers that is not empty has a least one.
LEMMA LeastNumber ==
  ASSUME NEW S, S \subseteq Nat, S # {}
  PROVE  \E x \in S : \A y \in S : x <= y
<1>1. PICK x \in S : \A y \in S : ~(<<y, x>> \in OpToRel(<, Nat))
  BY NatLessThanWellFounded, WFMin
<1>2. ASSUME NEW y \in S PROVE ~(y < x)
  <2>1. x \in Nat /\ y \in Nat
    OBVIOUS
  <2>2. y < x => <<y, x>> \in OpToRel(<, Nat)
    BY <2>1 DEF OpToRel
  <2> QED
    BY <1>1, <2>2
<1>3. ASSUME NEW y \in S PROVE x <= y
  BY <1>2
<1> QED
  BY <1>3

\* RemoveFirst of a sequence without repetitions.
LEMMA RemovedFirst ==
  ASSUME NEW S, NEW s \in Seq(S), IsInjective(s), NEW e
  PROVE  /\ RemoveFirst(s, e) \in Seq(S) /\ IsInjective(RemoveFirst(s, e))
         /\ \A i \in 1 .. Len(RemoveFirst(s, e)) : RemoveFirst(s, e)[i] # e
         /\ e \notin ToSet(s) => RemoveFirst(s, e) = s
         /\ ToSet(s) \ {e} \subseteq ToSet(RemoveFirst(s, e))
<1> DEFINE I == {i \in 1 .. Len(s) : s[i] = e}
           r == RemoveFirst(s, e)
<1>1. CASE I = {}
  <2>1. r = s
    BY <1>1 DEF RemoveFirst
  <2> QED
    BY <1>1, <2>1
<1>2. CASE I # {}
  <2>1. PICK k \in I : r = RemoveAt(s, k)
    <3>1. \E x \in I : \A y \in I : x <= y
      <4>1. I \subseteq Nat
        OBVIOUS
      <4> HIDE DEF I
      <4> QED
        BY <1>2, <4>1, LeastNumber
    <3>2. Min(I) \in I
      BY <3>1 DEF Min
    <3>3. r = RemoveAt(s, Min(I))
      BY <1>2 DEF RemoveFirst, SelectInSeq
    <3> QED
      BY <3>2, <3>3
  <2>2. k \in 1 .. Len(s) /\ s[k] = e /\ \A i \in 1 .. Len(s) : i # k => s[i] # e
    BY DEF IsInjective
  <2>3. /\ r \in Seq(S) /\ Len(r) = Len(s) - 1
        /\ \A i \in 1 .. Len(r) : r[i] = IF i < k THEN s[i] ELSE s[i + 1]
    <3> DEFINE p == SubSeq(s, 1, k - 1)
               q == SubSeq(s, k + 1, Len(s))
    <3>1. PICK n \in Nat : n = Len(s)
      OBVIOUS
    <3>2. k \in Nat /\ 1 <= k /\ k <= n
      BY <2>2, <3>1
    <3>3. p \in Seq(S) /\ Len(p) = k - 1 /\ \A i \in 1 .. k - 1 : p[i] = s[i]
      BY <3>1, <3>2
    <3>4. q \in Seq(S) /\ Len(q) = n - k /\ \A i \in 1 .. n - k : q[i] = s[k + i]
      BY <3>1, <3>2
    <3>5. r = p \o q
      BY <2>1 DEF RemoveAt
    <3> HIDE DEF p, q, r
    <3>6. r \in Seq(S) /\ Len(r) = n - 1
      BY <3>2, <3>3, <3>4, <3>5
    <3>7. ASSUME NEW i \in 1 .. Len(r) PROVE r[i] = IF i < k THEN s[i] ELSE s[i + 1]
      <4>1. i \in Nat /\ 1 <= i /\ i <= n - 1
        BY <3>1, <3>6
      <4>2. r[i] = IF i <= k - 1 THEN p[i] ELSE q[i - (k - 1)]
        BY <3>2, <3>3, <3>4, <3>5, <4>1
      <4>3. CASE i < k
        BY <3>2, <3>3, <4>1, <4>2, <4>3
      <4>4. CASE ~(i < k)
        <5>1. i - (k - 1) \in 1 .. n - k /\ k + (i - (k - 1)) = i + 1
          BY <3>1, <3>2, <4>1, <4>4
        <5> QED
          BY <3>2, <3>4, <4>1, <4>2, <4>4, <5>1
      <4> QED
        BY <4>3, <4>4
    <3> QED
      BY <3>1, <3>6, <3>7
  <2> HIDE DEF r, I
  <2>4. \A i \in 1 .. Len(r) : r[i] # e
    BY <2>2, <2>3
  <2>5. IsInjective(r)
    BY <2>2, <2>3, SMTT(30) DEF IsInjective
  <2>6. e \in ToSet(s)
    BY <2>2 DEF ToSet
  <2>7. ASSUME NEW i \in 1 .. Len(s), i # k PROVE s[i] \in ToSet(r)
    <3>1. CASE i < k
      <4>1. i \in 1 .. Len(r) /\ r[i] = s[i]
        BY <2>2, <2>3, <3>1
      <4> QED
        BY <4>1 DEF ToSet
    <3>2. CASE i > k
      <4>1. i - 1 \in 1 .. Len(r) /\ r[i - 1] = s[i]
        BY <2>2, <2>3, <3>2
      <4> QED
        BY <4>1 DEF ToSet
    <3> QED
      BY <2>2, <2>7, <3>1, <3>2
  <2>8. ToSet(s) \ {e} \subseteq ToSet(r)
    BY <2>2, <2>7 DEF ToSet
  <2> QED
    BY <2>3, <2>4, <2>5, <2>6, <2>8 DEF r
<1> QED
  BY <1>1, <1>2

LEMMA AppendedNew ==
  ASSUME NEW S, NEW s \in Seq(S), IsInjective(s), NEW e \in S, \A i \in 1 .. Len(s) : s[i] # e
  PROVE  Append(s, e) \in Seq(S) /\ IsInjective(Append(s, e)) /\ Len(Append(s, e)) = Len(s) + 1
BY DEF IsInjective

\* The ring and the table hold each token once, and so does the list read of it.
TokenList(s) == s \in Seq(Tokens) /\ IsInjective(s)
RingInv ==
    /\ TokenList(entries) /\ TokenList(tokenRows)
    /\ cursor \in Nat /\ days \in Nat /\ CursorInsideRing
    /\ admin \in [Admins -> AdminPCs] /\ adminToken \in [Admins -> Tokens \cup {NoToken}]
    /\ sync \in [Syncs -> SyncPCs] /\ seeded \in [Syncs -> Nat]
    /\ DOMAIN listed = Syncs /\ \A s \in Syncs : TokenList(listed[s])
    /\ \A a \in Admins : admin[a] = "upserted" => adminToken[a] \in Tokens
    /\ EnabledFollowsRing

LEMMA RingInvInit == PoolInit => RingInv
<1> SUFFICES ASSUME PoolInit PROVE RingInv
  OBVIOUS
<1>1. TokenList(entries)
  BY PoolConstants DEF PoolInit, TokenList
<1>2. TokenList(tokenRows)
  <2>1. PICK T \in SUBSET Tokens : tokenRows \in SetToSeqs(T)
    BY DEF PoolInit
  <2>2. Cardinality(T) \in Nat
    BY PoolConstants, FS_Subset, FS_CardinalityType
  <2> QED
    BY <2>1, <2>2 DEF SetToSeqs, TokenList, IsInjective
<1>3. \A s \in Syncs : TokenList(listed[s])
  BY DEF PoolInit, TokenList, IsInjective
<1> QED
  BY <1>1, <1>2, <1>3 DEF PoolInit, RingInv, CursorInsideRing, AdminPCs, SyncPCs, EnabledFollowsRing

\* The cursor that Acquire leaves: the next free slot is one of the ring.
LEMMA NextSlotInRing ==
  ASSUME RingInv, FreeSlots # {}
  PROVE  NextSlot \in 0 .. Len(entries) - 1 /\ Len(entries) \in Nat \ {0}
<1>1. PICK n \in Nat : n = Len(entries)
  BY DEF RingInv, TokenList
<1>2. n # 0
  BY <1>1 DEF FreeSlots
<1>3. ASSUME NEW i \in FreeSlots PROVE Distance(i) \in Nat
  <2>1. PICK c \in Nat : c = cursor
    BY DEF RingInv
  <2>2. i \in Int /\ ((i - c) + n) \in Int
    BY <1>1 DEF FreeSlots
  <2>3. ((i - c) + n) % n \in 0 .. n - 1
    BY <1>2, <2>2
  <2> QED
    BY <1>1, <2>1, <2>3 DEF Distance
<1> DEFINE S == {Distance(i) : i \in FreeSlots}
<1>4. PICK x \in S : \A y \in S : x <= y
  <2>1. S \subseteq Nat /\ S # {}
    BY <1>3
  <2> HIDE DEF S
  <2> QED
    BY <2>1, LeastNumber
<1>5. \E i \in FreeSlots : \A k \in FreeSlots : Distance(i) <= Distance(k)
  BY <1>4
<1>6. NextSlot \in FreeSlots
  BY <1>5, Zenon DEF NextSlot
<1> QED
  BY <1>1, <1>2, <1>6 DEF FreeSlots

LEMMA CursorWithinRing ==
  ASSUME NEW c \in Nat, NEW n \in Nat
  PROVE  CursorWithin(c, n) \in Nat /\ (CursorWithin(c, n) = 0 \/ CursorWithin(c, n) < n)
<1>1. CASE n = 0
  BY <1>1 DEF CursorWithin
<1>2. CASE n # 0
  <2>1. c % n \in 0 .. n - 1
    BY <1>2
  <2> QED
    BY <1>2, <2>1 DEF CursorWithin
<1> QED
  BY <1>1, <1>2

\* The step of a job or the clock leaves the pool and its guards alone.
LEMMA JobsKeepRing ==
  ASSUME RingInv, NEW j \in Jobs, StartJob(j) \/ JobStep(j)
  PROVE  RingInv'
<1>1. UNCHANGED <<entries, tokenRows, enabled, adminVars, syncVars, days>>
  BY DEF StartJob, JobStep, Acquire, AllExhausted, Converted, EndJob, DailyLimit, MarkDailyLimit,
         ringVars, worldVars
<1>2. cursor' \in Nat /\ CursorInsideRing'
  <2>1. CASE Acquire(j)
    <3>1. NextSlot \in 0 .. Len(entries) - 1 /\ Len(entries) \in Nat \ {0}
      BY <2>1, NextSlotInRing DEF Acquire
    <3>2. cursor' = (NextSlot + 1) % Len(entries)
      BY <2>1 DEF Acquire
    <3>3. PICK n \in Nat \ {0}, x \in Nat : n = Len(entries) /\ x = NextSlot + 1
      BY <3>1
    <3>4. x % n \in 0 .. n - 1
      BY <3>3
    <3> QED
      BY <1>1, <3>2, <3>3, <3>4 DEF CursorInsideRing
  <2>2. CASE ~Acquire(j)
    <3>1. cursor' = cursor
      BY <2>2 DEF StartJob, JobStep, AllExhausted, Converted, EndJob, DailyLimit, MarkDailyLimit,
                  ringVars
    <3> QED
      BY <1>1, <3>1 DEF RingInv, CursorInsideRing
  <2> QED
    BY <2>1, <2>2
<1> QED
  BY <1>1, <1>2, Zenon DEF RingInv, EnabledFollowsRing, adminVars, syncVars, TokenList

\* An admin's request: what its step may do to the ring, the table and the flag.
LEMMA RequestsKeepRing ==
  ASSUME RingInv, NEW a \in Admins, UNCHANGED <<syncVars, days>>,
         NEW pc \in AdminPCs, NEW t \in Tokens \cup {NoToken},
         admin' = [admin EXCEPT ![a] = pc], adminToken' = [adminToken EXCEPT ![a] = t],
         pc = "upserted" => t \in Tokens,
         TokenList(entries'), TokenList(tokenRows'), cursor' \in Nat, CursorInsideRing',
         \/ enabled' = (entries' # <<>>)
         \/ pc \in {"dropped", "added"}
         \/ UNCHANGED <<entries, enabled>> /\ admin[a] \notin {"dropped", "added"}
  PROVE  RingInv'
<1>1. admin' \in [Admins -> AdminPCs] /\ adminToken' \in [Admins -> Tokens \cup {NoToken}]
      /\ admin'[a] = pc
  BY DEF RingInv
<1>2. ASSUME NEW b \in Admins PROVE admin'[b] = "upserted" => adminToken'[b] \in Tokens
  BY DEF RingInv
<1>3. EnabledFollowsRing'
  <2>1. CASE enabled' = (entries' # <<>>)
    BY <2>1 DEF EnabledFollowsRing
  <2>2. CASE pc \in {"dropped", "added"}
    BY <1>1, <2>2 DEF EnabledFollowsRing
  <2>3. CASE UNCHANGED <<entries, enabled>> /\ admin[a] \notin {"dropped", "added"}
    <3>1. ASSUME NEW b \in Admins, admin[b] \in {"dropped", "added"} PROVE admin'[b] = admin[b]
      BY <2>3, <3>1 DEF RingInv
    <3> QED
      BY <2>3, <3>1 DEF RingInv, EnabledFollowsRing, syncVars
  <2> QED
    BY <2>1, <2>2, <2>3
<1> QED
  BY <1>1, <1>2, <1>3 DEF RingInv, TokenList, syncVars

\* The same of a step that only moves the request.
LEMMA RequestMoves ==
  ASSUME RingInv, NEW a \in Admins, UNCHANGED <<syncVars, days, cursor, entries, enabled>>,
         NEW pc \in AdminPCs, NEW t \in Tokens \cup {NoToken},
         admin' = [admin EXCEPT ![a] = pc], adminToken' = [adminToken EXCEPT ![a] = t],
         pc = "upserted" => t \in Tokens, admin[a] \notin {"dropped", "added"},
         TokenList(tokenRows')
  PROVE  RingInv'
<1>1. TokenList(entries') /\ cursor' \in Nat /\ CursorInsideRing'
  BY DEF RingInv, CursorInsideRing
<1>2. UNCHANGED <<entries, enabled>> /\ admin[a] \notin {"dropped", "added"}
  OBVIOUS
<1> QED
  BY <1>1, <1>2, RequestsKeepRing, Zenon

\* Where AdminAt leaves the request.
LEMMA RequestAt ==
  ASSUME RingInv, NEW a \in Admins, NEW here, NEW next, AdminAt(a, here, next)
  PROVE  /\ admin[a] = here /\ admin' = [admin EXCEPT ![a] = next]
         /\ adminToken' = [adminToken EXCEPT ![a] = IF next = "idle" THEN NoToken ELSE @]
         /\ adminToken[a] \in Tokens \cup {NoToken}
         /\ (IF next = "idle" THEN NoToken ELSE adminToken[a]) \in Tokens \cup {NoToken}
<1>1. adminToken \in [Admins -> Tokens \cup {NoToken}]
  BY DEF RingInv
<1> QED
  BY <1>1 DEF AdminAt

LEMMA AdminsKeepRing ==
  ASSUME RingInv, NEW a \in Admins,
         (\E t \in Tokens : RemoveFind(a, t) \/ AddRow(a, t)) \/ RemoveStep(a) \/ AddStep(a)
  PROVE  RingInv'
<1> DEFINE w == IF admin'[a] = "idle" THEN NoToken ELSE adminToken[a]
<1>0. TokenList(tokenRows) /\ TokenList(entries) /\ cursor \in Nat
  BY DEF RingInv
<1>1. ASSUME NEW t \in Tokens, RemoveFind(a, t) PROVE RingInv'
  <2>1. "found" \in AdminPCs /\ t \in Tokens \cup {NoToken} /\ "found" # "upserted"
    BY DEF AdminPCs
  <2>2. UNCHANGED <<syncVars, days, cursor, entries, enabled, tokenRows>> /\ admin[a] = "idle"
        /\ admin' = [admin EXCEPT ![a] = "found"] /\ adminToken' = [adminToken EXCEPT ![a] = t]
    BY <1>1 DEF RemoveFind, AdminBegins, ringVars, worldVars
  <2> QED
    BY <1>0, <2>1, <2>2, RequestMoves
<1>2. ASSUME NEW t \in Tokens, AddRow(a, t) PROVE RingInv'
  <2>1. "upserted" \in AdminPCs /\ t \in Tokens \cup {NoToken}
    BY DEF AdminPCs
  <2>2. UNCHANGED <<syncVars, days, cursor, entries, enabled>> /\ admin[a] = "idle"
        /\ admin' = [admin EXCEPT ![a] = "upserted"] /\ adminToken' = [adminToken EXCEPT ![a] = t]
        /\ tokenRows' = Append(RemoveFirst(tokenRows, t), t)
    BY <1>2 DEF AddRow, AdminBegins, ringVars, worldVars
  <2>3. TokenList(tokenRows')
    <3>1. /\ RemoveFirst(tokenRows, t) \in Seq(Tokens) /\ IsInjective(RemoveFirst(tokenRows, t))
          /\ \A i \in 1 .. Len(RemoveFirst(tokenRows, t)) : RemoveFirst(tokenRows, t)[i] # t
      BY <1>0, RemovedFirst, Zenon DEF TokenList
    <3> QED
      BY <2>2, <3>1, AppendedNew, Zenon DEF TokenList
  <2> QED
    BY <2>1, <2>2, <2>3, RequestMoves
<1>3. CASE RemoveCheck(a)
  <2>1. PICK pc \in {"checked", "idle"} : AdminAt(a, "found", pc)
    BY <1>3 DEF RemoveCheck
  <2>2. UNCHANGED <<syncVars, days, cursor, entries, enabled, tokenRows>>
    BY <1>3 DEF RemoveCheck, ringVars, worldVars
  <2>3. pc \in AdminPCs /\ pc # "upserted"
    BY DEF AdminPCs
  <2>4. /\ admin[a] = "found" /\ admin' = [admin EXCEPT ![a] = pc]
        /\ adminToken' = [adminToken EXCEPT ![a] = IF pc = "idle" THEN NoToken ELSE @]
        /\ (IF pc = "idle" THEN NoToken ELSE adminToken[a]) \in Tokens \cup {NoToken}
    BY <2>1, RequestAt
  <2> QED
    BY <1>0, <2>2, <2>3, <2>4, RequestMoves
<1>4. CASE RemoveRow(a)
  <2>1. AdminAt(a, "checked", "deleted") /\ "deleted" \in AdminPCs
    BY <1>4 DEF RemoveRow, AdminPCs
  <2>2. UNCHANGED <<syncVars, days, cursor, entries, enabled>>
        /\ tokenRows' = RemoveFirst(tokenRows, adminToken[a])
    BY <1>4 DEF RemoveRow, ringVars, worldVars
  <2>3. /\ admin[a] = "checked" /\ admin' = [admin EXCEPT ![a] = "deleted"]
        /\ adminToken' = [adminToken EXCEPT ![a] = adminToken[a]]
        /\ adminToken[a] \in Tokens \cup {NoToken}
    BY <2>1, RequestAt
  <2>4. TokenList(tokenRows')
    BY <1>0, <2>2, RemovedFirst, Zenon DEF TokenList
  <2> QED
    BY <2>1, <2>2, <2>3, <2>4, RequestMoves
<1>5. CASE RemoveEntry(a)
  <2>1. AdminAt(a, "deleted", "dropped") /\ "dropped" \in AdminPCs /\ "dropped" # "upserted"
    BY <1>5 DEF RemoveEntry, AdminPCs
  <2>2. UNCHANGED <<syncVars, days, tokenRows>> /\ entries' = RemoveFirst(entries, adminToken[a])
    BY <1>5 DEF RemoveEntry, worldVars
  <2>3. /\ admin[a] = "deleted" /\ admin' = [admin EXCEPT ![a] = "dropped"]
        /\ adminToken' = [adminToken EXCEPT ![a] = adminToken[a]]
        /\ adminToken[a] \in Tokens \cup {NoToken}
    BY <2>1, RequestAt
  <2>4. TokenList(entries') /\ (~InRing(adminToken[a]) => entries' = entries)
    BY <1>0, <2>2, RemovedFirst, Zenon DEF TokenList, InRing
  <2>5. cursor' \in Nat /\ CursorInsideRing'
    <3>1. CASE InRing(adminToken[a])
      <4>1. cursor' = CursorWithin(cursor, Len(entries'))
        BY <1>5, <3>1 DEF RemoveEntry
      <4>2. Len(entries') \in Nat
        BY <2>4 DEF TokenList
      <4> QED
        BY <1>0, <4>1, <4>2, CursorWithinRing DEF CursorInsideRing
    <3>2. CASE ~InRing(adminToken[a])
      <4>1. cursor' = cursor
        BY <1>5, <3>2 DEF RemoveEntry
      <4> QED
        BY <2>4, <3>2, <4>1 DEF RingInv, CursorInsideRing
    <3> QED
      BY <3>1, <3>2
  <2>6. TokenList(tokenRows')
    BY <1>0, <2>2
  <2> QED
    BY <2>1, <2>2, <2>3, <2>4, <2>5, <2>6, RequestsKeepRing
<1>6. CASE RemoveRecompute(a)
  <2>1. AdminAt(a, "dropped", "idle") /\ "idle" \in AdminPCs /\ "idle" # "upserted"
    BY <1>6 DEF RemoveRecompute, AdminPCs
  <2>2. UNCHANGED <<syncVars, days, tokenRows, entries, cursor>> /\ enabled' = (entries' # <<>>)
    BY <1>6 DEF RemoveRecompute, worldVars, ringVars, Recomputed
  <2>3. /\ admin' = [admin EXCEPT ![a] = "idle"]
        /\ adminToken' = [adminToken EXCEPT ![a] = NoToken] /\ NoToken \in Tokens \cup {NoToken}
    BY <2>1, RequestAt
  <2>4. TokenList(entries') /\ TokenList(tokenRows') /\ cursor' \in Nat /\ CursorInsideRing'
    BY <2>2 DEF RingInv, CursorInsideRing
  <2> QED
    BY <2>1, <2>2, <2>3, <2>4, RequestsKeepRing
<1>7. CASE AdminFails(a)
  <2>1. AdminAt(a, "checked", "idle") /\ "idle" \in AdminPCs /\ "idle" # "upserted"
    BY <1>7 DEF AdminFails, AdminPCs
  <2>2. UNCHANGED <<syncVars, days, cursor, entries, enabled, tokenRows>>
    BY <1>7 DEF AdminFails, ringVars, worldVars
  <2>3. /\ admin[a] = "checked" /\ admin' = [admin EXCEPT ![a] = "idle"]
        /\ adminToken' = [adminToken EXCEPT ![a] = NoToken] /\ NoToken \in Tokens \cup {NoToken}
    BY <2>1, RequestAt
  <2> QED
    BY <1>0, <2>1, <2>2, <2>3, RequestMoves
<1>8. CASE AddEntry(a)
  <2>1. AdminAt(a, "upserted", "added") /\ "added" \in AdminPCs /\ "added" # "upserted"
    BY <1>8 DEF AddEntry, AdminPCs
  <2>2. /\ UNCHANGED <<syncVars, days, tokenRows, cursor>>
        /\ entries' = IF InRing(adminToken[a]) THEN entries ELSE Append(entries, adminToken[a])
    BY <1>8 DEF AddEntry, worldVars
  <2>3. /\ admin[a] = "upserted" /\ admin' = [admin EXCEPT ![a] = "added"]
        /\ adminToken' = [adminToken EXCEPT ![a] = adminToken[a]]
        /\ adminToken[a] \in Tokens \cup {NoToken}
    BY <2>1, RequestAt
  <2>4. adminToken[a] \in Tokens
    BY <2>3 DEF RingInv
  <2>5. TokenList(entries') /\ cursor' \in Nat /\ CursorInsideRing'
    <3>1. CASE InRing(adminToken[a])
      <4>1. entries' = entries
        BY <2>2, <3>1
      <4> QED
        BY <2>2, <4>1 DEF RingInv, CursorInsideRing
    <3>2. CASE ~InRing(adminToken[a])
      <4>1. entries' = Append(entries, adminToken[a])
        BY <2>2, <3>2
      <4>2. \A i \in 1 .. Len(entries) : entries[i] # adminToken[a]
        BY <1>0, <3>2 DEF InRing, ToSet, TokenList
      <4>3. TokenList(entries') /\ Len(entries') = Len(entries) + 1
        BY <1>0, <2>4, <4>1, <4>2, AppendedNew, Zenon DEF TokenList
      <4> QED
        BY <1>0, <2>2, <4>3 DEF RingInv, CursorInsideRing, TokenList
    <3> QED
      BY <3>1, <3>2
  <2>6. TokenList(tokenRows')
    BY <1>0, <2>2
  <2> QED
    BY <2>1, <2>2, <2>3, <2>5, <2>6, RequestsKeepRing
<1>9. CASE AddRecompute(a)
  <2>1. AdminAt(a, "added", "looking") /\ "looking" \in AdminPCs /\ "looking" # "upserted"
    BY <1>9 DEF AddRecompute, AdminPCs
  <2>2. UNCHANGED <<syncVars, days, tokenRows, entries, cursor>> /\ enabled' = (entries' # <<>>)
    BY <1>9 DEF AddRecompute, worldVars, ringVars, Recomputed
  <2>3. /\ admin' = [admin EXCEPT ![a] = "looking"]
        /\ adminToken' = [adminToken EXCEPT ![a] = adminToken[a]]
        /\ adminToken[a] \in Tokens \cup {NoToken}
    BY <2>1, RequestAt
  <2>4. TokenList(entries') /\ TokenList(tokenRows') /\ cursor' \in Nat /\ CursorInsideRing'
    BY <2>2 DEF RingInv, CursorInsideRing
  <2> QED
    BY <2>1, <2>2, <2>3, <2>4, RequestsKeepRing
<1>10. CASE AddAnswer(a)
  <2>1. AdminAt(a, "looking", "idle") /\ "idle" \in AdminPCs /\ "idle" # "upserted"
    BY <1>10 DEF AddAnswer, AdminPCs
  <2>2. UNCHANGED <<syncVars, days, cursor, entries, enabled, tokenRows>>
    BY <1>10 DEF AddAnswer, ringVars, worldVars
  <2>3. /\ admin[a] = "looking" /\ admin' = [admin EXCEPT ![a] = "idle"]
        /\ adminToken' = [adminToken EXCEPT ![a] = NoToken] /\ NoToken \in Tokens \cup {NoToken}
    BY <2>1, RequestAt
  <2> QED
    BY <1>0, <2>1, <2>2, <2>3, RequestMoves
<1> QED
  BY <1>1, <1>2, <1>3, <1>4, <1>5, <1>6, <1>7, <1>8, <1>9, <1>10 DEF RemoveStep, AddStep

\* The boot-time reconcile.
LEMMA SyncsKeepRing ==
  ASSUME RingInv, NEW s \in Syncs, SyncStep(s)
  PROVE  RingInv'
<1>0. /\ TokenList(tokenRows) /\ TokenList(entries) /\ cursor \in Nat /\ CursorInsideRing
      /\ sync \in [Syncs -> SyncPCs] /\ DOMAIN listed = Syncs /\ seeded \in [Syncs -> Nat]
      /\ TokenList(listed[s]) /\ EnabledFollowsRing
  BY DEF RingInv
<1>1. UNCHANGED <<adminVars, days>>
  BY DEF SyncStep, SyncSeed, SyncList, SyncFails, SetEntries, SyncRecompute, worldVars
<1>2. PICK pc \in SyncPCs : sync' = [sync EXCEPT ![s] = pc]
  <2>1. CASE SyncSeed(s)
    BY <1>0, <2>1 DEF SyncSeed
  <2>2. CASE ~SyncSeed(s)
    BY <2>2 DEF SyncStep, SyncList, SyncFails, SetEntries, SyncRecompute, SyncAt, SyncPCs
  <2> QED
    BY <2>1, <2>2
<1>3. seeded' \in [Syncs -> Nat]
  BY <1>0 DEF SyncStep, SyncSeed, SyncList, SyncFails, SetEntries, SyncRecompute
<1>4. TokenList(tokenRows')
  <2>1. CASE SyncSeed(s)
    <3> DEFINE t == Config[seeded[s] + 1]
    <3>1. t \in Tokens
      <4>1. seeded[s] \in Nat /\ seeded[s] < Len(Config)
        BY <1>0, <2>1 DEF SyncSeed
      <4> QED
        BY <4>1, PoolConstants
    <3>2. tokenRows' = IF t \in ToSet(tokenRows) THEN tokenRows ELSE Append(tokenRows, t)
      BY <2>1 DEF SyncSeed
    <3> HIDE DEF t
    <3>3. CASE t \notin ToSet(tokenRows)
      <4>1. \A i \in 1 .. Len(tokenRows) : tokenRows[i] # t
        BY <1>0, <3>3 DEF ToSet, TokenList
      <4> QED
        BY <1>0, <3>1, <3>2, <3>3, <4>1, AppendedNew, Zenon DEF TokenList
    <3> QED
      BY <1>0, <3>2, <3>3
  <2>2. CASE ~SyncSeed(s)
    <3>1. tokenRows' = tokenRows
      BY <2>2 DEF SyncStep, SyncList, SyncFails, SetEntries, SyncRecompute
    <3> QED
      BY <1>0, <3>1
  <2> QED
    BY <2>1, <2>2
<1>5. DOMAIN listed' = Syncs /\ \A q \in Syncs : TokenList(listed'[q])
  <2>1. CASE SyncList(s)
    <3>1. listed' = [listed EXCEPT ![s] = tokenRows]
      BY <2>1 DEF SyncList
    <3> QED
      BY <1>0, <3>1 DEF RingInv
  <2>2. CASE ~SyncList(s)
    <3>1. listed' = listed
      BY <2>2 DEF SyncStep, SyncSeed, SyncFails, SetEntries, SyncRecompute
    <3> QED
      BY <3>1 DEF RingInv
  <2> QED
    BY <2>1, <2>2
<1>6. TokenList(entries') /\ cursor' \in Nat /\ CursorInsideRing'
  <2>1. CASE SetEntries(s)
    <3>1. entries' = listed[s] /\ cursor' = CursorWithin(cursor, Len(listed[s]))
      BY <2>1 DEF SetEntries
    <3>2. Len(listed[s]) \in Nat
      BY <1>0 DEF TokenList
    <3>3. cursor' \in Nat /\ (cursor' = 0 \/ cursor' < Len(entries'))
      BY <1>0, <3>1, <3>2, CursorWithinRing
    <3> QED
      BY <1>0, <3>1, <3>3 DEF CursorInsideRing
  <2>2. CASE ~SetEntries(s)
    <3>1. UNCHANGED <<entries, cursor>>
      BY <2>2 DEF SyncStep, SyncSeed, SyncList, SyncFails, SyncRecompute, ringVars
    <3> QED
      BY <1>0, <3>1 DEF CursorInsideRing
  <2> QED
    BY <2>1, <2>2
<1>7. EnabledFollowsRing'
  <2>1. CASE SetEntries(s)
    <3>1. sync'[s] = "swapped"
      BY <1>0, <2>1 DEF SetEntries, SyncAt
    <3> QED
      BY <3>1 DEF EnabledFollowsRing
  <2>2. CASE SyncRecompute(s)
    BY <2>2 DEF SyncRecompute, Recomputed, EnabledFollowsRing, ringVars
  <2>3. CASE ~SetEntries(s) /\ ~SyncRecompute(s)
    <3>1. UNCHANGED <<entries, enabled>>
      BY <2>3 DEF SyncStep, SyncSeed, SyncList, SyncFails, ringVars
    <3>2. ASSUME NEW q \in Syncs, sync[q] = "swapped" PROVE sync'[q] = "swapped"
      <4>1. sync[s] # "swapped" \/ sync' = sync
        BY <2>3 DEF SyncStep, SyncSeed, SyncList, SyncFails, SyncAt
      <4> QED
        BY <1>0, <1>2, <3>2, <4>1
    <3> QED
      BY <1>0, <1>1, <3>1, <3>2 DEF EnabledFollowsRing, adminVars
  <2> QED
    BY <2>1, <2>2, <2>3
<1>8. sync' \in [Syncs -> SyncPCs]
  BY <1>0, <1>2
<1> QED
  BY <1>1, <1>3, <1>4, <1>5, <1>6, <1>7, <1>8 DEF RingInv, adminVars

LEMMA RingKept == RingInv /\ [PoolNext]_poolVars => RingInv'
<1> SUFFICES ASSUME RingInv, [PoolNext]_poolVars PROVE RingInv'
  OBVIOUS
<1>1. CASE UNCHANGED poolVars
  BY <1>1 DEF poolVars, ringVars, adminVars, syncVars, worldVars, RingInv, TokenList,
              CursorInsideRing, EnabledFollowsRing
<1>2. CASE Midnight
  BY <1>2 DEF Midnight, adminVars, syncVars, RingInv, TokenList, CursorInsideRing, EnabledFollowsRing
<1> QED
  BY <1>1, <1>2, JobsKeepRing, AdminsKeepRing, SyncsKeepRing DEF PoolNext

\* A key stops cooling at midnight or with its entry only.
LEMMA CoolingHeld ==
  ASSUME RingInv, [PoolNext]_poolVars, NEW t \in cooling
  PROVE  t \in cooling' \/ t \notin ToSet(entries') \/ days' # days
<1>1. CASE cooling' = cooling
  BY <1>1
<1>2. ASSUME NEW j \in Jobs, MarkDailyLimit(j) PROVE t \in cooling'
  BY <1>2 DEF MarkDailyLimit, Cooled
<1>3. ASSUME NEW a \in Admins, RemoveEntry(a) PROVE t \in cooling' \/ t \notin ToSet(entries')
  <2>1. cooling' = cooling \ {adminToken[a]} /\ entries' = RemoveFirst(entries, adminToken[a])
    BY <1>3 DEF RemoveEntry
  <2>2. /\ entries' \in Seq(Tokens)
        /\ \A i \in 1 .. Len(entries') : entries'[i] # adminToken[a]
    BY <2>1, RemovedFirst, Zenon DEF RingInv, TokenList
  <2> QED
    BY <2>1, <2>2 DEF ToSet
<1>4. ASSUME NEW s \in Syncs, SetEntries(s) PROVE t \in cooling' \/ t \notin ToSet(entries')
  BY <1>4 DEF SetEntries, CoolingKept
<1>5. CASE Midnight
  BY <1>5 DEF Midnight, RingInv
<1> QED
  BY <1>1, <1>2, <1>3, <1>4, <1>5
     DEF PoolNext, poolVars, ringVars, StartJob, JobStep, Acquire, AllExhausted, Converted, EndJob,
         DailyLimit, RemoveFind, AddRow, RemoveStep, AddStep, RemoveCheck, RemoveRow, RemoveRecompute,
         AdminFails, AddEntry, AddRecompute, AddAnswer, SyncStep, SyncSeed, SyncList, SyncFails,
         SyncRecompute

\* keyring.go, converter.go: however admin requests, the boot-time reconcile and
\* the jobs interleave, the flag follows the ring once nobody is changing it,
\* the cursor stays inside, and only midnight or removal ends a cooldown.
THEOREM RingAlwaysSound == PoolSpec => RingSound
<1> DEFINE Holds == EnabledFollowsRing /\ CursorInsideRing
           Kept == \A t \in cooling : t \in cooling' \/ t \notin ToSet(entries') \/ days' # days
<1>1. RingInv => Holds
  BY DEF RingInv
<1>2. RingInv /\ [PoolNext]_poolVars => [Kept]_poolVars
  BY CoolingHeld
<1>3. RingSound <=> []Holds /\ [][Kept]_poolVars
  BY Zenon DEF RingSound, CooldownSurvives
<1> HIDE DEF Holds, Kept
<1> QED
  BY <1>1, <1>2, <1>3, RingInvInit, RingKept, PTL DEF PoolSpec

LEMMA AppendedOne ==
  ASSUME NEW S, NEW s \in Seq(S), NEW e \in S
  PROVE  ToSet(s) \subseteq ToSet(Append(s, e))
<1>1. \A i \in 1 .. Len(s) : i \in 1 .. Len(Append(s, e)) /\ Append(s, e)[i] = s[i]
  OBVIOUS
<1> QED
  BY <1>1 DEF ToSet

\* What the ring's invariant leaves of the types: a key that cools is in the
\* ring, and a job that converts has a key of the pool in hand.
RingRest ==
    /\ cooling \subseteq ToSet(entries) /\ enabled \in BOOLEAN
    /\ job \in [Jobs -> JobPCs] /\ jobToken \in [Jobs -> Tokens \cup {NoToken}]
    /\ jobSlot \in [Jobs -> Nat]
    /\ \A j \in Jobs : job[j] \in {"converting", "limited"} => jobToken[j] \in Tokens
    /\ seeded \in [Syncs -> 0 .. Len(Config)] /\ listed \in [Syncs -> Seq(Tokens)]
    /\ limited \subseteq Tokens /\ days \in 0 .. MaxDays

\* A job takes a key of the ring, and puts aside the entry at its index.
LEMMA JobsKeepTypes ==
  ASSUME RingInv, RingRest, NEW j \in Jobs, StartJob(j) \/ JobStep(j)
  PROVE  RingRest'
<1>1. UNCHANGED <<entries, enabled, seeded, listed, days>>
  BY DEF StartJob, JobStep, Acquire, AllExhausted, Converted, EndJob, DailyLimit, MarkDailyLimit,
         ringVars, worldVars, syncVars
<1>2. CASE Acquire(j)
  <2>1. NextSlot \in Nat /\ entries[NextSlot + 1] \in Tokens
    BY <1>2, NextSlotInRing DEF Acquire, RingInv, TokenList
  <2>2. /\ jobToken' = [jobToken EXCEPT ![j] = entries[NextSlot + 1]]
        /\ jobSlot' = [jobSlot EXCEPT ![j] = NextSlot]
        /\ job' = [job EXCEPT ![j] = "converting"] /\ UNCHANGED <<cooling, limited>>
    BY <1>2 DEF Acquire, worldVars
  <2> QED
    BY <1>1, <2>1, <2>2 DEF RingRest, JobPCs
<1>3. CASE MarkDailyLimit(j)
  <2>1. /\ UNCHANGED <<jobToken, jobSlot, limited>> /\ job' = [job EXCEPT ![j] = "acquire"]
        /\ cooling' = Cooled(jobSlot[j])
    BY <1>3 DEF MarkDailyLimit, worldVars
  <2>2. cooling' \subseteq ToSet(entries)
    BY <2>1 DEF Cooled, RingRest, ToSet, RingInv, TokenList
  <2> QED
    BY <1>1, <2>1, <2>2 DEF RingRest, JobPCs
<1>4. CASE DailyLimit(j)
  <2>1. /\ UNCHANGED <<jobToken, jobSlot, cooling>> /\ job' = [job EXCEPT ![j] = "limited"]
        /\ limited' = limited \cup {jobToken[j]} /\ job[j] = "converting"
    BY <1>4 DEF DailyLimit, ringVars
  <2> QED
    BY <1>1, <2>1 DEF RingRest, JobPCs
<1>5. CASE StartJob(j)
  <2>1. UNCHANGED <<jobToken, jobSlot, cooling, limited>> /\ job' = [job EXCEPT ![j] = "acquire"]
    BY <1>5 DEF StartJob, ringVars, worldVars
  <2> QED
    BY <1>1, <2>1 DEF RingRest, JobPCs
<1>6. CASE EndJob(j)
  <2>1. /\ UNCHANGED <<cooling, limited>> /\ job' = [job EXCEPT ![j] = "idle"]
        /\ jobToken' = [jobToken EXCEPT ![j] = NoToken] /\ jobSlot' = [jobSlot EXCEPT ![j] = 0]
    BY <1>6 DEF EndJob, ringVars, worldVars
  <2> QED
    BY <1>1, <2>1 DEF RingRest, JobPCs
<1> QED
  BY <1>2, <1>3, <1>4, <1>5, <1>6 DEF JobStep, AllExhausted, Converted

\* A step that is no job's changes the ring and the flag only.
LEMMA RingChanges ==
  ASSUME RingInv, RingRest, UNCHANGED <<jobVars, limited>>,
         cooling' \subseteq ToSet(entries'), enabled' \in BOOLEAN,
         seeded' \in [Syncs -> 0 .. Len(Config)], listed' \in [Syncs -> Seq(Tokens)],
         days' \in 0 .. MaxDays
  PROVE  RingRest'
BY DEF RingRest, jobVars

\* An admin who drops a token drops its cooldown with it.
LEMMA AdminsKeepTypes ==
  ASSUME RingInv, RingRest, NEW a \in Admins,
         \/ \E t \in Tokens : RemoveFind(a, t) \/ AddRow(a, t)
         \/ RemoveStep(a) \/ AddStep(a)
  PROVE  RingRest'
<1>1. UNCHANGED <<jobVars, limited, seeded, listed, days>>
  BY DEF RemoveFind, AddRow, RemoveStep, AddStep, RemoveCheck, RemoveRow, RemoveEntry, RemoveRecompute,
         AdminFails, AddEntry, AddRecompute, AddAnswer, syncVars, worldVars
<1>2. enabled' \in BOOLEAN
  BY DEF RemoveFind, AddRow, RemoveStep, AddStep, RemoveCheck, RemoveRow, RemoveEntry, RemoveRecompute,
         AdminFails, AddEntry, AddRecompute, AddAnswer, Recomputed, RingRest
<1>3. cooling' \subseteq ToSet(entries')
  <2>1. CASE RemoveEntry(a)
    <3>1. entries' = RemoveFirst(entries, adminToken[a]) /\ cooling' = cooling \ {adminToken[a]}
      BY <2>1 DEF RemoveEntry
    <3>2. ToSet(entries) \ {adminToken[a]} \subseteq ToSet(entries')
      BY <3>1, RemovedFirst DEF RingInv, TokenList
    <3> QED
      BY <3>1, <3>2 DEF RingRest
  <2>2. CASE AddEntry(a)
    <3>1. cooling' = cooling /\ (entries' = entries \/ entries' = Append(entries, adminToken[a]))
      BY <2>2 DEF AddEntry
    <3>2. adminToken[a] \in Tokens
      BY <2>2 DEF AddEntry, AdminAt, RingInv
    <3>3. ToSet(entries) \subseteq ToSet(entries')
      BY <3>1, <3>2, AppendedOne DEF RingInv, TokenList
    <3> QED
      BY <3>1, <3>3 DEF RingRest
  <2>3. CASE ~RemoveEntry(a) /\ ~AddEntry(a)
    <3>1. UNCHANGED <<entries, cooling>>
      BY <2>3 DEF RemoveFind, AddRow, RemoveStep, AddStep, RemoveCheck, RemoveRow, RemoveRecompute,
                  AdminFails, AddRecompute, AddAnswer, ringVars
    <3> QED
      BY <3>1 DEF RingRest
  <2> QED
    BY <2>1, <2>2, <2>3
<1> QED
  BY <1>1, <1>2, <1>3, RingChanges DEF RingRest

\* The boot-time reconcile seeds each token once and prunes the cooldowns.
LEMMA SyncsKeepTypes ==
  ASSUME RingInv, RingRest, NEW s \in Syncs, SyncStep(s)
  PROVE  RingRest'
<1>1. UNCHANGED <<jobVars, limited, days>>
  BY DEF SyncStep, SyncSeed, SyncList, SyncFails, SetEntries, SyncRecompute, worldVars
<1>2. enabled' \in BOOLEAN
  BY DEF SyncStep, SyncSeed, SyncList, SyncFails, SetEntries, SyncRecompute, Recomputed, RingRest
<1>3. seeded' \in [Syncs -> 0 .. Len(Config)]
  <2>1. CASE SyncSeed(s)
    <3>1. PICK n \in Nat : n = Len(Config)
      BY PoolConstants
    <3>2. seeded[s] + 1 \in 0 .. n
      BY <2>1, <3>1 DEF SyncSeed, RingRest
    <3> QED
      BY <2>1, <3>1, <3>2 DEF SyncSeed, RingRest
  <2> QED
    BY <2>1 DEF SyncStep, SyncList, SyncFails, SetEntries, SyncRecompute, RingRest
<1>4. cooling' \subseteq ToSet(entries')
  <2>1. CASE SetEntries(s)
    BY <2>1 DEF SetEntries, CoolingKept
  <2> QED
    BY <2>1 DEF SyncStep, SyncSeed, SyncList, SyncFails, SyncRecompute, ringVars, RingRest
<1>5. listed' \in [Syncs -> Seq(Tokens)]
  BY DEF SyncStep, SyncSeed, SyncList, SyncFails, SetEntries, SyncRecompute, RingRest, RingInv, TokenList
<1> QED
  BY <1>1, <1>2, <1>3, <1>4, <1>5, RingChanges DEF RingRest

\* The pool keeps its state within its types: whatever cools is in the ring.
LEMMA PoolTypesHold == PoolSpec => []PoolTypeOK
<1>1. PoolInit => RingRest
  <2> SUFFICES ASSUME PoolInit PROVE RingRest
    OBVIOUS
  <2>1. 0 \in 0 .. Len(Config) /\ 0 \in 0 .. MaxDays
    BY PoolConstants
  <2> QED
    BY <2>1 DEF PoolInit, RingRest, JobPCs
<1>2. RingInv /\ RingRest /\ [PoolNext]_poolVars => RingRest'
  <2> SUFFICES ASSUME RingInv, RingRest, [PoolNext]_poolVars PROVE RingRest'
    OBVIOUS
  <2>1. CASE UNCHANGED poolVars
    BY <2>1 DEF poolVars, ringVars, jobVars, adminVars, syncVars, worldVars, RingRest
  <2>2. CASE Midnight
    <3>1. /\ UNCHANGED <<jobVars, limited, enabled, seeded, listed>> /\ cooling' = {}
          /\ days' \in 0 .. MaxDays
      BY <2>2, PoolConstants DEF Midnight, syncVars, RingRest
    <3> QED
      BY <3>1, RingChanges DEF RingRest
  <2> QED
    BY <2>1, <2>2, JobsKeepTypes, AdminsKeepTypes, SyncsKeepTypes DEF PoolNext
<1>3. RingInv /\ RingRest => PoolTypeOK
  BY DEF RingInv, RingRest, TokenList, PoolTypeOK
<1> QED
  BY <1>1, <1>2, <1>3, RingInvInit, RingKept, PTL DEF PoolSpec

-----------------------------------------------------------------------------
(* A server process. *)

PoolUsers      == {"batch", "downloader", "fleet", "recovery"}
FleetTasks == {"fleet", "recovery"}
\* What the argument needs of the types: who is where, and lists of handlers.
DaeTyped ==
    /\ stage \in [ServerProcs -> Stages] /\ running \in [ServerProcs -> SUBSET Goroutines]
    /\ open \in [ServerProcs -> SUBSET {"registry", "fleet"}]
    /\ locked \subseteq ServerProcs
    /\ handlers \in [ServerProcs -> Seq(HandlerNames)]
    /\ pending \in [ServerProcs -> Seq(HandlerNames)]
\* What each stage of the boot has started and opened by then.
BootInv(p) ==
    /\ stage[p] \notin {"lock", "serving", "terminate"} => running[p] \cap PoolUsers = {}
    /\ stage[p] = "lock" => running[p] \cap (FleetTasks \cup {"batch"}) = {}
    /\ "http" \in running[p] => stage[p] = "serving"
    /\ conf.postgres /\ stage[p] \in {"converter", "ingest", "fleet", "lock", "serving"}
         => "registry" \in open[p]
    /\ conf.remote /\ stage[p] \in {"lock", "serving"} => "fleet" \in open[p]
    /\ stage[p] = "serving" => p \in locked
\* Whatever runs has a handler that waits for its end.
HandlerInv(p) ==
    LET hooked == ToSet(handlers[p])
    IN  /\ conf.access /\ stage[p] \in {"fleet", "lock", "serving"} => "scheduler" \in hooked
        /\ "batch" \in running[p] => "scheduler" \in hooked
        /\ "downloader" \in running[p] => "downloader" \in hooked
        /\ running[p] \cap FleetTasks # {} => "fleet" \in hooked
\* A handler that has been entered has seen the end of what it waits for.
ChainInv(p) ==
    stage[p] = "terminate" =>
       \A h \in ToSet(handlers[p]) : h \in ToSet(pending[p]) \/ Awaits(p, h) \cap running[p] = {}
\* PoolUsers have their pools, and the fleet the lock.
UserInv(p) ==
    /\ running[p] \cap FleetTasks # {} => p \in locked /\ "fleet" \in open[p]
    /\ conf.postgres /\ running[p] \cap PoolUsers # {} => "registry" \in open[p]
OneHolder == \A p, q \in locked : p = q
ProcInv(p) == BootInv(p) /\ HandlerInv(p) /\ ChainInv(p) /\ UserInv(p)
DaeInv == DaeTyped /\ OneHolder /\ \A p \in ServerProcs : ProcInv(p)

\* The names in a list.
LEMMA Names ==
  ASSUME NEW S
  PROVE  /\ ToSet(<<>>) = {}
         /\ \A s, t \in Seq(S) : ToSet(s \o t) = ToSet(s) \cup ToSet(t)
         /\ \A x \in S : ToSet(<<x>>) = {x}
         /\ \A s \in Seq(S) : s # <<>> => ToSet(s) = {Head(s)} \cup ToSet(Tail(s))
<1>1. ToSet(<<>>) = {} /\ \A x \in S : ToSet(<<x>>) = {x}
  BY DEF ToSet
<1>2. ASSUME NEW s \in Seq(S), NEW t \in Seq(S)
      PROVE  ToSet(s \o t) = ToSet(s) \cup ToSet(t)
  <2>1. \A i \in DOMAIN s : i \in DOMAIN (s \o t) /\ (s \o t)[i] = s[i]
    OBVIOUS
  <2>2. \A i \in DOMAIN t : Len(s) + i \in DOMAIN (s \o t) /\ (s \o t)[Len(s) + i] = t[i]
    OBVIOUS
  <2>3. \A i \in DOMAIN (s \o t) : i \in DOMAIN s \/ i - Len(s) \in DOMAIN t
    OBVIOUS
  <2>4. \A i \in DOMAIN (s \o t) : (s \o t)[i] \in ToSet(s) \cup ToSet(t)
    BY <2>1, <2>2, <2>3 DEF ToSet
  <2>5. ToSet(s \o t) \subseteq ToSet(s) \cup ToSet(t)
    BY <2>4 DEF ToSet
  <2>6. ToSet(s) \subseteq ToSet(s \o t)
    BY <2>1 DEF ToSet
  <2>7. ToSet(t) \subseteq ToSet(s \o t)
    BY <2>2 DEF ToSet
  <2> QED
    BY <2>5, <2>6, <2>7
<1>3. ASSUME NEW s \in Seq(S), s # <<>>
      PROVE  ToSet(s) = {Head(s)} \cup ToSet(Tail(s))
  <2>1. \A i \in DOMAIN Tail(s) : i + 1 \in DOMAIN s /\ Tail(s)[i] = s[i + 1]
    BY <1>3
  <2>2. \A i \in DOMAIN s : i = 1 \/ (i - 1 \in DOMAIN Tail(s) /\ Tail(s)[i - 1] = s[i])
    BY <1>3
  <2>3. 1 \in DOMAIN s /\ Head(s) = s[1]
    BY <1>3
  <2>4. \A i \in DOMAIN s : s[i] \in {Head(s)} \cup ToSet(Tail(s))
    BY <2>2, <2>3 DEF ToSet
  <2>5. \A i \in DOMAIN Tail(s) : Tail(s)[i] \in ToSet(s)
    BY <2>1 DEF ToSet
  <2> QED
    BY <2>3, <2>4, <2>5 DEF ToSet
<1> QED
  BY <1>1, <1>2, <1>3

\* A step of one process that leaves the lock alone leaves the others alone.
Others(p) ==
    \A q \in ServerProcs \ {p} :
        /\ stage'[q] = stage[q] /\ running'[q] = running[q] /\ open'[q] = open[q]
        /\ handlers'[q] = handlers[q] /\ pending'[q] = pending[q]
        /\ q \in locked' <=> q \in locked
\* A step of one process keeps the invariant of the others.
LEMMA OthersKeep ==
  ASSUME DaeInv, NEW p \in ServerProcs, conf' = conf, Others(p), ProcInv(p)', DaeTyped', OneHolder'
  PROVE  DaeInv'
<1>1. ASSUME NEW q \in ServerProcs, q # p
      PROVE  ProcInv(q)'
  BY <1>1 DEF DaeInv, Others, ProcInv, BootInv, HandlerInv, ChainInv, UserInv, Awaits, FleetStopped
<1> QED
  BY <1>1 DEF DaeInv

\* One stage of the boot: its types, and what it adds.
Booted(p, from, to, tasks, pools, hooks) ==
    /\ conf' = conf /\ locked' = locked /\ Others(p) /\ stage[p] = from /\ stage'[p] = to
    /\ running'[p] = running[p] \cup tasks /\ open'[p] = open[p] \cup pools
    /\ ToSet(handlers'[p]) = ToSet(handlers[p]) \cup ToSet(hooks)
\* A start-up stage adds tasks, pools and handlers, and nothing else.
LEMMA BootTypes ==
  ASSUME DaeInv, NEW p \in ServerProcs, NEW from, NEW to \in Stages,
         NEW tasks \in SUBSET Goroutines, NEW pools \in SUBSET {"registry", "fleet"},
         NEW hooks \in Seq(HandlerNames), Boot(p, from, to, tasks, pools, hooks),
         locked' = locked
  PROVE  DaeTyped' /\ OneHolder' /\ Booted(p, from, to, tasks, pools, hooks)
<1>1. /\ handlers[p] \in Seq(HandlerNames)
      /\ handlers' = [handlers EXCEPT ![p] = handlers[p] \o hooks]
  BY DEF Boot, DaeInv, DaeTyped
<1>2. ToSet(handlers[p] \o hooks) = ToSet(handlers[p]) \cup ToSet(hooks)
  BY <1>1, Names
<1>3. handlers[p] \o hooks \in Seq(HandlerNames)
  BY <1>1
<1>4. handlers' \in [ServerProcs -> Seq(HandlerNames)] /\ handlers'[p] = handlers[p] \o hooks
  BY <1>1, <1>3 DEF DaeInv, DaeTyped
<1>5. DaeTyped'
  BY <1>4 DEF Boot, DaeInv, DaeTyped
<1>6. OneHolder'
  BY DEF DaeInv, OneHolder
<1>7. Booted(p, from, to, tasks, pools, hooks)
  BY <1>2, <1>4 DEF Boot, DaeInv, DaeTyped, Others, Booted
<1> QED
  BY <1>5, <1>6, <1>7

\* The hooks a stage binds.
LEMMA HookTypes ==
  ASSUME NEW b \in BOOLEAN, NEW h \in HandlerNames
  PROVE  Hook(b, h) \in Seq(HandlerNames) /\ ToSet(Hook(b, h)) = When(b, h)
<1>1. <<h>> \in Seq(HandlerNames) /\ <<>> \in Seq(HandlerNames)
  OBVIOUS
<1>2. ToSet(<<h>>) = {h} /\ ToSet(<<>>) = {}
  BY Names
<1> QED
  BY <1>1, <1>2 DEF Hook, When

\* Start-up registers a handler for every task and pool it opens.
LEMMA BootKeeps ==
  ASSUME DaeInv, conf \in [postgres : BOOLEAN, remote : BOOLEAN, access : BOOLEAN],
         NEW p \in ServerProcs, BootStep(p), ~Serve(p), ~Refused(p)
  PROVE  DaeInv'
<1>1. ASSUME NEW from \in Stages \ {"terminate", "serving", "lock"}, NEW to \in Stages \ {"serving", "terminate"},
             NEW tasks \in SUBSET Goroutines, NEW pools \in SUBSET {"registry", "fleet"},
             NEW hooks \in Seq(HandlerNames), Boot(p, from, to, tasks, pools, hooks),
             UNCHANGED locked,
             tasks \cap (FleetTasks \cup {"batch", "http"}) = {},
             "downloader" \in tasks => to = "lock" /\ "downloader" \in ToSet(hooks),
             conf.postgres => to \notin {"converter", "ingest", "fleet", "lock"}
                  \/ "registry" \in pools \/ from \in {"converter", "ingest", "fleet"},
             conf.remote => to # "lock" \/ "fleet" \in pools,
             conf.access => to \notin {"fleet", "lock"} \/ "scheduler" \in ToSet(hooks)
                  \/ from = "fleet"
      PROVE  DaeInv'
  <2>1. ProcInv(p)
    BY DEF DaeInv
  <2>2. Booted(p, from, to, tasks, pools, hooks) /\ DaeTyped' /\ OneHolder'
    <3>1. to \in Stages
      OBVIOUS
    <3>2. Boot(p, from, to, tasks, pools, hooks) /\ locked' = locked
      BY <1>1
    <3> QED
      BY <3>1, <3>2, BootTypes
  <2>3. ProcInv(p)'
    <3>1. /\ conf' = conf /\ stage[p] = from /\ stage'[p] = to
          /\ running'[p] = running[p] \cup tasks
          /\ open'[p] = open[p] \cup pools /\ locked' = locked
          /\ ToSet(handlers'[p]) = ToSet(handlers[p]) \cup ToSet(hooks)
      BY <2>2 DEF Booted
    <3>2. running[p] \cap (PoolUsers \cup {"http"}) = {}
      BY <1>1, <2>1, <3>1 DEF ProcInv, BootInv
    <3>3. tasks \cap FleetTasks = {} /\ "batch" \notin tasks /\ "http" \notin tasks
      BY <1>1
    <3>4. BootInv(p)'
      <4>1. to = "lock" \/ "downloader" \notin tasks
        BY <1>1
      <4>2. to # "lock" => running'[p] \cap PoolUsers = {}
        BY <3>1, <3>2, <3>3, <4>1 DEF PoolUsers, FleetTasks
      <4>3. running'[p] \cap (FleetTasks \cup {"batch"}) = {} /\ "http" \notin running'[p]
        BY <3>1, <3>2, <3>3 DEF PoolUsers, FleetTasks
      <4>4. conf.postgres /\ to \in {"converter", "ingest", "fleet", "lock"} => "registry" \in open'[p]
        BY <1>1, <2>1, <3>1 DEF ProcInv, BootInv
      <4>5. conf.remote /\ to = "lock" => "fleet" \in open'[p]
        BY <1>1, <3>1
      <4> QED
        BY <1>1, <3>1, <4>2, <4>3, <4>4, <4>5 DEF BootInv
    <3>5. HandlerInv(p)'
      BY <1>1, <2>1, <3>1, <3>2, <3>3 DEF ProcInv, HandlerInv, PoolUsers, FleetTasks
    <3>6. ChainInv(p)'
      BY <1>1, <3>1 DEF ChainInv
    <3>7. UserInv(p)'
      <4>1. running'[p] \cap FleetTasks = {}
        BY <3>1, <3>2, <3>3 DEF PoolUsers, FleetTasks
      <4>2. running'[p] \cap PoolUsers # {} => to = "lock"
        BY <1>1, <3>1, <3>2, <3>3 DEF PoolUsers, FleetTasks
      <4>3. conf.postgres /\ to = "lock" => "registry" \in open'[p]
        BY <1>1, <2>1, <3>1 DEF ProcInv, BootInv
      <4> QED
        BY <3>1, <4>1, <4>2, <4>3 DEF UserInv
    <3> QED
      BY <3>4, <3>5, <3>6, <3>7 DEF ProcInv
  <2> QED
    BY <2>2, <2>3, OthersKeep DEF Booted
<1> DEFINE Configured == conf.postgres \in BOOLEAN /\ conf.remote \in BOOLEAN /\ conf.access \in BOOLEAN
<1>2. <<>> \in Seq(HandlerNames) /\ Configured
  OBVIOUS
<1>3. CASE LoadConfig(p)
  BY <1>1, <1>2, <1>3 DEF LoadConfig, Stages
<1>4. CASE ValidateForServe(p)
  BY <1>1, <1>2, <1>4 DEF ValidateForServe, Stages
<1>5. CASE InitBackends(p)
  <2> DEFINE hooks == Hook(conf.postgres, "pool")
             pools == When(conf.postgres, "registry")
  <2>1. hooks \in Seq(HandlerNames)
    BY <1>2, HookTypes DEF HandlerNames
  <2>2. pools \in SUBSET {"registry", "fleet"} /\ (conf.postgres => "registry" \in pools)
    BY DEF When
  <2>3. "backends" \in Stages \ {"terminate", "serving", "lock"}
        /\ "converter" \in Stages \ {"serving", "terminate"}
    BY DEF Stages
  <2>4. Boot(p, "backends", "converter", {}, pools, hooks) /\ UNCHANGED locked
    BY <1>5 DEF InitBackends
  <2> HIDE DEF hooks, pools
  <2> QED
    BY <1>1, <2>1, <2>2, <2>3, <2>4
<1>6. CASE BuildConverter(p)
  <2>1. /\ When(conf.postgres, "schema") \in SUBSET Goroutines
        /\ When(conf.postgres, "schema") \subseteq {"schema"}
    BY DEF When, Goroutines
  <2>2. "converter" \in Stages \ {"terminate", "serving", "lock"}
        /\ "ingest" \in Stages \ {"serving", "terminate"}
    BY DEF Stages
  <2>3. When(conf.postgres, "schema") \cap (FleetTasks \cup {"batch", "http"}) = {}
        /\ "downloader" \notin When(conf.postgres, "schema")
    BY <2>1 DEF FleetTasks
  <2> QED
    BY <1>1, <1>2, <1>6, <2>1, <2>2, <2>3 DEF BuildConverter
<1>7. CASE BuildIngest(p)
  <2> DEFINE hooks == Hook(conf.access, "scheduler") \o <<"janitor", "ingester">>
  <2>1. Hook(conf.access, "scheduler") \in Seq(HandlerNames)
        /\ ToSet(Hook(conf.access, "scheduler")) = When(conf.access, "scheduler")
    BY <1>2, HookTypes DEF HandlerNames
  <2>2. <<"janitor", "ingester">> \in Seq(HandlerNames)
    BY DEF HandlerNames
  <2>3. hooks \in Seq(HandlerNames)
    BY <2>1, <2>2
  <2>4. ToSet(hooks) = When(conf.access, "scheduler") \cup ToSet(<<"janitor", "ingester">>)
    <3> DEFINE s == Hook(conf.access, "scheduler")
               t == <<"janitor", "ingester">>
    <3>0. s \in Seq(HandlerNames) /\ t \in Seq(HandlerNames)
      BY <2>1, <2>2
    <3> HIDE DEF s, t
    <3>1. ToSet(s \o t) = ToSet(s) \cup ToSet(t)
      BY <3>0, Names
    <3> QED
      BY <2>1, <3>1 DEF s, t
  <2>5. conf.access => "scheduler" \in ToSet(hooks)
    BY <2>4 DEF When
  <2>6. "ingest" \in Stages \ {"terminate", "serving", "lock"}
        /\ "fleet" \in Stages \ {"serving", "terminate"}
    BY DEF Stages
  <2>7. Boot(p, "ingest", "fleet", {}, {}, hooks) /\ UNCHANGED locked
    BY <1>7 DEF BuildIngest
  <2> HIDE DEF hooks
  <2> QED
    BY <1>1, <2>3, <2>5, <2>6, <2>7
<1>8. CASE BuildDownloader(p)
  <2> DEFINE hooks == Hook(conf.access, "downloader")
  <2>1. hooks \in Seq(HandlerNames) /\ ToSet(hooks) = When(conf.access, "downloader")
    BY <1>2, HookTypes DEF HandlerNames
  <2>2. /\ When(conf.access, "downloader") \in SUBSET Goroutines
        /\ When(conf.access, "downloader") \subseteq {"downloader"}
        /\ When(conf.remote, "fleet") \in SUBSET {"registry", "fleet"}
        /\ conf.remote => "fleet" \in When(conf.remote, "fleet")
    BY DEF When, Goroutines
  <2>3. When(conf.access, "downloader") \cap (FleetTasks \cup {"batch", "http"}) = {}
    BY <2>2 DEF FleetTasks
  <2>4. "fleet" \in Stages \ {"terminate", "serving", "lock"}
        /\ "lock" \in Stages \ {"serving", "terminate"}
    BY DEF Stages
  <2>5. Boot(p, "fleet", "lock", When(conf.access, "downloader"), When(conf.remote, "fleet"), hooks)
        /\ UNCHANGED locked
    BY <1>8 DEF BuildDownloader
  <2> HIDE DEF hooks
  <2> QED
    BY <1>1, <2>1, <2>2, <2>3, <2>4, <2>5
<1> QED
  BY <1>3, <1>4, <1>5, <1>6, <1>7, <1>8 DEF BootStep


\* The listener starts, and what needs the lock with it.
LEMMA ServeKeeps ==
  ASSUME DaeInv, NEW p \in ServerProcs, Serve(p)
  PROVE  DaeInv'
<1> DEFINE hook  == Hook(conf.remote, "fleet")
           hooked == <<"lock">> \o handlers[p] \o hook
           tasks == {"http"} \cup (IF conf.remote THEN FleetTasks ELSE {})
<1>1. /\ stage[p] = "lock" /\ locked = {} /\ locked' = {p} /\ conf' = conf
      /\ stage' = [stage EXCEPT ![p] = "serving"] /\ open' = open /\ pending' = pending
      /\ handlers' = [handlers EXCEPT ![p] = hooked]
      /\ running' = [running EXCEPT ![p] = running[p] \cup tasks]
  BY DEF Serve, DaeInv, DaeTyped, FleetTasks
<1>2. /\ hook \in Seq(HandlerNames) /\ handlers[p] \in Seq(HandlerNames)
      /\ <<"lock">> \in Seq(HandlerNames) /\ (conf.remote => "fleet" \in ToSet(hook))
  <2>1. CASE conf.remote
    <3>1. hook = <<"fleet">> /\ <<"fleet">> \in Seq(HandlerNames)
      BY <2>1 DEF Hook, HandlerNames
    <3>2. ToSet(<<"fleet">>) = {"fleet"}
      BY Names DEF HandlerNames
    <3>3. handlers[p] \in Seq(HandlerNames)
      BY DEF DaeInv, DaeTyped
    <3>4. <<"lock">> \in Seq(HandlerNames)
      BY DEF HandlerNames
    <3>5. hook \in Seq(HandlerNames)
      BY <3>1
    <3>6. "fleet" \in ToSet(hook)
      BY <3>1, <3>2
    <3> HIDE DEF hook
    <3> QED
      BY <3>3, <3>4, <3>5, <3>6
  <2>2. CASE ~conf.remote
    <3>1. hook = <<>> /\ <<>> \in Seq(HandlerNames)
      BY <2>2 DEF Hook
    <3>2. handlers[p] \in Seq(HandlerNames)
      BY DEF DaeInv, DaeTyped
    <3>3. <<"lock">> \in Seq(HandlerNames)
      BY DEF HandlerNames
    <3> QED
      BY <2>2, <3>1, <3>2, <3>3
  <2> QED
    BY <2>1, <2>2
<1> HIDE DEF hook
<1>3. hooked \in Seq(HandlerNames) /\ ToSet(hooked) = ToSet(<<"lock">>) \cup ToSet(handlers[p]) \cup ToSet(hook)
  <2> DEFINE first == <<"lock">>
             old   == handlers[p]
  <2>0. first \in Seq(HandlerNames) /\ old \in Seq(HandlerNames) /\ hook \in Seq(HandlerNames)
    BY <1>2
  <2> HIDE DEF first, old
  <2> DEFINE both == first \o old
  <2>1. both \in Seq(HandlerNames)
    BY <2>0
  <2>2. ToSet(both) = ToSet(first) \cup ToSet(old)
    BY <2>0, Names
  <2> HIDE DEF both
  <2>3. both \o hook \in Seq(HandlerNames) /\ ToSet(both \o hook) = ToSet(both) \cup ToSet(hook)
    BY <2>0, <2>1, Names
  <2> QED
    BY <2>2, <2>3 DEF both, first, old
<1> HIDE DEF hooked
<1>4. tasks \in SUBSET Goroutines /\ tasks \subseteq FleetTasks \cup {"http"}
      /\ (tasks \cap FleetTasks # {} => conf.remote)
  BY DEF Goroutines, FleetTasks
<1> HIDE DEF tasks
<1>5. /\ stage'[p] = "serving" /\ running'[p] = running[p] \cup tasks /\ handlers'[p] = hooked
      /\ open'[p] = open[p]
  BY <1>1 DEF DaeInv, DaeTyped
<1>6. DaeTyped' /\ OneHolder'
  BY <1>1, <1>3, <1>4 DEF DaeInv, DaeTyped, OneHolder, Stages
<1>7. Others(p)
  BY <1>1 DEF Others, DaeInv, DaeTyped
<1>8. ProcInv(p)
  BY DEF DaeInv
<1>9. BootInv(p)'
  BY <1>1, <1>4, <1>5, <1>8 DEF ProcInv, BootInv
<1>10. HandlerInv(p)'
  BY <1>1, <1>2, <1>3, <1>4, <1>5, <1>8 DEF ProcInv, HandlerInv, BootInv, FleetTasks
<1>11. ChainInv(p)'
  BY <1>5 DEF ChainInv
<1>12. UserInv(p)'
  BY <1>1, <1>4, <1>5, <1>8 DEF ProcInv, BootInv, UserInv, FleetTasks, PoolUsers
<1> QED
  BY <1>1, <1>6, <1>7, <1>9, <1>10, <1>11, <1>12, OthersKeep DEF ProcInv

\* The handlers together wait for every user of a pool.
LEMMA ChainEmpties ==
  ASSUME NEW p \in ServerProcs, ProcInv(p), stage[p] = "terminate", pending[p] = <<>>
  PROVE  running[p] \cap PoolUsers = {}
<1>1. ToSet(pending[p]) = {}
  BY DEF ToSet
<1>2. \A h \in ToSet(handlers[p]) : Awaits(p, h) \cap running[p] = {}
  BY <1>1 DEF ProcInv, ChainInv
<1>3. /\ Awaits(p, "scheduler") = {"batch"} /\ Awaits(p, "fleet") = FleetTasks
      /\ "downloader" \in Awaits(p, "downloader")
  BY DEF Awaits, FleetStopped, FleetTasks
<1>4. "batch" \notin running[p] /\ "downloader" \notin running[p] /\ running[p] \cap FleetTasks = {}
  BY <1>2, <1>3 DEF ProcInv, HandlerInv
<1> QED
  BY <1>4 DEF PoolUsers, FleetTasks

\* Teardown, and the ends of a process.
LEMMA TeardownKeeps ==
  ASSUME DaeInv, NEW p \in ServerProcs,
         Launch(p) \/ Terminate(p) \/ TerminateStep(p) \/ Refused(p) \/ Killed(p)
  PROVE  DaeInv'
<1>1. ProcInv(p)
  BY DEF DaeInv
<1>2. CASE Launch(p)
  <2>1. /\ stage[p] = "down" /\ stage'[p] = "load"
        /\ UNCHANGED <<conf, handlers, pending, running, locked, open>>
    BY <1>2 DEF Launch, DaeInv, DaeTyped
  <2>2. DaeTyped' /\ OneHolder' /\ Others(p)
    BY <1>2, <2>1 DEF Launch, DaeInv, DaeTyped, OneHolder, Others, Stages
  <2>3. ProcInv(p)'
    BY <1>1, <2>1 DEF ProcInv, BootInv, HandlerInv, ChainInv, UserInv
  <2> QED
    BY <2>1, <2>2, <2>3, OthersKeep
<1>3. CASE Terminate(p)
  <2>1. /\ stage'[p] = "terminate" /\ pending'[p] = handlers[p]
        /\ running'[p] = running[p] \ {"http"} /\ UNCHANGED <<conf, handlers, locked, open>>
    BY <1>3 DEF Terminate, DaeInv, DaeTyped
  <2>2. DaeTyped' /\ OneHolder' /\ Others(p)
    BY <1>3, <2>1 DEF Terminate, DaeInv, DaeTyped, OneHolder, Others, Stages
  <2>3. ProcInv(p)'
    BY <1>1, <2>1 DEF ProcInv, BootInv, HandlerInv, ChainInv, UserInv
  <2> QED
    BY <2>1, <2>2, <2>3, OthersKeep
<1>4. CASE Enter(p)
  <2> DEFINE h == Head(pending[p])
  <2>1. /\ stage[p] = "terminate" /\ pending[p] # <<>> /\ Awaits(p, h) \cap running[p] = {}
        /\ pending'[p] = Tail(pending[p])
        /\ UNCHANGED <<conf, stage, handlers, running, locked, open>>
    BY <1>4 DEF Enter, DaeInv, DaeTyped
  <2>2. pending[p] \in Seq(HandlerNames)
    BY DEF DaeInv, DaeTyped
  <2>3. ToSet(pending[p]) = {h} \cup ToSet(pending'[p]) /\ Tail(pending[p]) \in Seq(HandlerNames)
    BY <2>1, <2>2, Names
  <2>4. DaeTyped' /\ OneHolder' /\ Others(p)
    BY <1>4, <2>1, <2>3 DEF Enter, DaeInv, DaeTyped, OneHolder, Others
  <2>5. ChainInv(p)'
    BY <1>1, <2>1, <2>3 DEF ProcInv, ChainInv, Awaits, FleetStopped
  <2>6. BootInv(p)' /\ HandlerInv(p)' /\ UserInv(p)'
    BY <1>1, <2>1 DEF ProcInv, BootInv, HandlerInv, UserInv
  <2> QED
    BY <2>1, <2>4, <2>5, <2>6, OthersKeep DEF ProcInv
<1>5. CASE LeaveHandler(p)
  <2>1. running[p] \cap PoolUsers = {}
    BY <1>1, <1>5, ChainEmpties DEF LeaveHandler
  <2>2. /\ stage[p] = "terminate" /\ locked' \in {locked, locked \ {p}}
        /\ UNCHANGED <<conf, stage, handlers, pending, running>>
    BY <1>5 DEF LeaveHandler
  <2>3. DaeTyped' /\ OneHolder' /\ Others(p)
    BY <1>5, <2>2 DEF LeaveHandler, DaeInv, DaeTyped, OneHolder, Others
  <2>4. ProcInv(p)'
    BY <1>1, <2>1, <2>2 DEF ProcInv, BootInv, HandlerInv, ChainInv, UserInv, PoolUsers, FleetTasks,
       Awaits, FleetStopped
  <2> QED
    BY <2>2, <2>3, <2>4, OthersKeep
<1>6. CASE Gone(p)
  <2>1. /\ stage'[p] = "down" /\ running'[p] = {} /\ handlers'[p] = <<>> /\ conf' = conf
    BY <1>6 DEF Gone, DaeInv, DaeTyped
  <2>2. DaeTyped' /\ OneHolder' /\ Others(p)
    BY <1>6 DEF Gone, DaeInv, DaeTyped, OneHolder, Others, Stages
  <2>3. ProcInv(p)'
    BY <2>1 DEF ProcInv, BootInv, HandlerInv, ChainInv, UserInv
  <2> QED
    BY <2>1, <2>2, <2>3, OthersKeep
<1> QED
  BY <1>2, <1>3, <1>4, <1>5, <1>6 DEF TerminateStep, ExitProcess, Refused, Killed

\* Goroutines end, an admin starts a batch, the schema is brought up.
LEMMA TasksKeep ==
  ASSUME DaeInv, NEW p \in ServerProcs,
         \/ \E t \in Goroutines : TaskEnds(p, t)
         \/ RunBatch(p) \/ SchemaFails(p) \/ SchemaReady(p)
  PROVE  DaeInv'
<1>1. ProcInv(p)
  BY DEF DaeInv
<1>2. UNCHANGED <<conf, stage, handlers, pending, locked, open>>
  BY DEF TaskEnds, Ends, RunBatch, SchemaFails, SchemaReady
<1>3. CASE RunBatch(p)
  <2>1. "http" \in running[p] /\ conf.access /\ running' = [running EXCEPT ![p] = running[p] \cup {"batch"}]
    BY <1>3 DEF RunBatch
  <2>2. running'[p] = running[p] \cup {"batch"}
    BY <2>1 DEF DaeInv, DaeTyped
  <2>3. DaeTyped' /\ OneHolder' /\ Others(p)
    BY <1>2, <2>1 DEF DaeInv, DaeTyped, OneHolder, Others, Goroutines
  <2>4. ProcInv(p)'
    BY <1>1, <1>2, <2>1, <2>2 DEF ProcInv, BootInv, HandlerInv, ChainInv, UserInv, PoolUsers, FleetTasks,
       Awaits, FleetStopped
  <2> QED
    BY <1>2, <2>3, <2>4, OthersKeep
<1>4. CASE ~RunBatch(p)
  <2>1. \E t \in Goroutines : running' \in {running, [running EXCEPT ![p] = running[p] \ {t}]}
    BY <1>4 DEF TaskEnds, SchemaFails, SchemaReady, Ends, Goroutines
  <2>2. PICK t \in Goroutines : running' \in {running, [running EXCEPT ![p] = running[p] \ {t}]}
    BY <2>1
  <2>3. running'[p] \subseteq running[p]
    BY <2>2 DEF DaeInv, DaeTyped
  <2>4. DaeTyped' /\ OneHolder' /\ Others(p)
    BY <1>2, <2>2 DEF DaeInv, DaeTyped, OneHolder, Others
  <2>5. ProcInv(p)'
    BY <1>1, <1>2, <2>3 DEF ProcInv, BootInv, HandlerInv, ChainInv, UserInv, PoolUsers, FleetTasks,
       Awaits, FleetStopped
  <2> QED
    BY <1>2, <2>4, <2>5, OthersKeep
<1> QED
  BY <1>3, <1>4

DaeConfigured == conf \in [postgres : BOOLEAN, remote : BOOLEAN, access : BOOLEAN]

\* Every step of the daemon keeps the invariant and the configuration.
LEMMA DaeStep ==
  ASSUME DaeInv, DaeConfigured, [DaeNext]_daeVars
  PROVE  DaeInv' /\ DaeConfigured'
<1>1. DaeConfigured'
  <2>1. ASSUME DaeNext PROVE conf' = conf
    BY <2>1 DEF DaeNext, Launch, BootStep, LoadConfig, ValidateForServe, InitBackends,
       BuildConverter, BuildIngest, BuildDownloader, Serve, Refused, Boot, Gone, Terminate,
       TerminateStep, Enter, LeaveHandler, ExitProcess, Killed, TaskEnds, RunBatch, SchemaFails,
       SchemaReady
  <2> QED
    BY <2>1 DEF DaeConfigured, daeVars
<1>2. ASSUME UNCHANGED daeVars PROVE DaeInv'
  BY <1>2 DEF daeVars, DaeInv, DaeTyped, OneHolder, ProcInv, BootInv, HandlerInv, ChainInv, UserInv,
     Awaits, FleetStopped
<1>3. ASSUME NEW p \in ServerProcs, BootStep(p)
      PROVE  DaeInv'
  BY <1>3, BootKeeps, ServeKeeps, TeardownKeeps DEF DaeConfigured
<1>4. ASSUME NEW p \in ServerProcs, Launch(p) \/ Terminate(p) \/ TerminateStep(p) \/ Killed(p)
      PROVE  DaeInv'
  BY <1>4, TeardownKeeps
<1>5. ASSUME NEW p \in ServerProcs,
             \/ \E t \in Goroutines : TaskEnds(p, t)
             \/ RunBatch(p) \/ SchemaFails(p) \/ SchemaReady(p)
      PROVE  DaeInv'
  BY <1>5, TasksKeep
<1>6. ASSUME DaeNext PROVE DaeInv'
  <2>1. PICK p \in ServerProcs :
           \/ Launch(p) \/ BootStep(p) \/ Terminate(p) \/ TerminateStep(p) \/ Killed(p)
           \/ \E t \in Goroutines : TaskEnds(p, t)
           \/ RunBatch(p) \/ SchemaFails(p) \/ SchemaReady(p)
    BY <1>6 DEF DaeNext
  <2> QED
    BY <1>3, <1>4, <1>5, <2>1
<1> QED
  BY <1>1, <1>2, <1>6

\* No process runs at the start.
LEMMA DaeStarts == DaeInit => DaeInv /\ DaeConfigured
<1> SUFFICES ASSUME DaeInit PROVE DaeInv /\ DaeConfigured
  OBVIOUS
<1>1. DaeTyped /\ OneHolder /\ DaeConfigured
  BY DEF DaeInit, DaeTyped, OneHolder, DaeConfigured, Stages
<1>2. \A p \in ServerProcs : ProcInv(p)
  BY DEF DaeInit, ProcInv, BootInv, HandlerInv, ChainInv, UserInv
<1> QED
  BY <1>1, <1>2 DEF DaeInv

\* In every boot, failed stage, overlap of two processes, teardown and kill, a
\* pool is closed and the lock given up only after the goroutines that need
\* them are gone, and at most one process runs the fleet.
THEOREM PoolsAlwaysOutliveUsers == DaeSpec => []PoolsOutliveUsers
<1>1. DaeInv => PoolsOutliveUsers
  BY DEF DaeInv, OneHolder, ProcInv, UserInv, PoolsOutliveUsers, PoolUsers, FleetTasks
<1> QED
  BY <1>1, DaeStarts, DaeStep, PTL DEF DaeSpec

\* What is left of a process's types.  The schema is tried until the last
\* attempt, and before the converter is built it has not been tried.
SchemaSound(p) ==
    /\ "schema" \in running[p] => attempts[p] < SchemaAttempts
    /\ stage[p] \in {"down", "load", "validate", "backends", "converter"} =>
          attempts[p] = 0 /\ "schema" \notin running[p]
DaeRest ==
    /\ conf \in [postgres : BOOLEAN, remote : BOOLEAN, access : BOOLEAN]
    /\ attempts \in [ServerProcs -> 0 .. SchemaAttempts]
    /\ entered \in [ServerProcs -> Seq(HandlerNames)]
    /\ ring \in [ServerProcs -> {"config", "table"}] /\ migrated \in BOOLEAN /\ boots \in Nat
    /\ \A p \in ServerProcs : SchemaSound(p)

\* A step of one process, with the attempts as they are.
LEMMA DaeRestMoves ==
  ASSUME DaeInv, DaeRest, NEW p \in ServerProcs, UNCHANGED <<conf, attempts>>,
         \A q \in ServerProcs : q # p => stage'[q] = stage[q] /\ running'[q] = running[q],
         entered' \in [ServerProcs -> Seq(HandlerNames)],
         ring' \in [ServerProcs -> {"config", "table"}], migrated' \in BOOLEAN, boots' \in Nat,
         SchemaSound(p)'
  PROVE  DaeRest'
<1>1. \A q \in ServerProcs : q # p => SchemaSound(q)'
  BY DEF DaeRest, SchemaSound
<1> QED
  BY <1>1 DEF DaeRest

\* A stage of the boot.
LEMMA BootRests ==
  ASSUME DaeInv, DaeRest, NEW p \in ServerProcs, NEW from, NEW to, NEW hooks, NEW pools,
         NEW tasks, Boot(p, from, to, tasks, pools, hooks),
         to \in {"validate", "backends", "converter"} =>
            from \in {"load", "validate", "backends"} /\ "schema" \notin tasks,
         "schema" \in tasks => from = "converter",
         to \notin {"down", "load"}
  PROVE  DaeRest'
<1>1. /\ UNCHANGED <<conf, attempts, entered, ring, migrated, boots>>
      /\ stage[p] = from /\ stage' = [stage EXCEPT ![p] = to]
      /\ running' = [running EXCEPT ![p] = running[p] \cup tasks]
  BY DEF Boot
<1>2. SchemaSound(p)'
  <2>1. stage'[p] = to /\ running'[p] = running[p] \cup tasks
    BY <1>1 DEF DaeInv, DaeTyped
  <2>2. attempts[p] \in Nat /\ SchemaAttempts \in Nat /\ SchemaAttempts >= 1
    BY DaemonConfig DEF DaeRest
  <2> QED
    BY <1>1, <2>1, <2>2 DEF DaeRest, SchemaSound
<1>3. \A q \in ServerProcs : q # p => stage'[q] = stage[q] /\ running'[q] = running[q]
  BY <1>1 DEF DaeInv, DaeTyped
<1> QED
  BY <1>1, <1>2, <1>3, DaeRestMoves DEF DaeRest

\* The boot, the chain of handlers and the tasks keep the rest of the types.
LEMMA DaeRestKept == DaeInv /\ DaeRest /\ [DaeNext]_daeVars => DaeRest'
<1> SUFFICES ASSUME DaeInv, DaeRest, [DaeNext]_daeVars PROVE DaeRest'
  OBVIOUS
<1>1. CASE UNCHANGED daeVars
  BY <1>1 DEF daeVars, DaeRest, SchemaSound
<1>2. ASSUME NEW p \in ServerProcs, Gone(p) PROVE DaeRest'
  <2>1. /\ stage' = [stage EXCEPT ![p] = "down"] /\ running' = [running EXCEPT ![p] = {}]
        /\ entered' = [entered EXCEPT ![p] = <<>>] /\ attempts' = [attempts EXCEPT ![p] = 0]
        /\ ring' = [ring EXCEPT ![p] = "config"] /\ UNCHANGED <<conf, migrated, boots>>
    BY <1>2 DEF Gone
  <2>2. attempts' \in [ServerProcs -> 0 .. SchemaAttempts]
    BY <2>1, DaemonConfig DEF DaeRest
  <2>3. ASSUME NEW q \in ServerProcs PROVE SchemaSound(q)'
    <3>1. CASE q = p
      BY <2>1, <3>1 DEF DaeInv, DaeTyped, DaeRest, SchemaSound
    <3>2. CASE q # p
      BY <2>1, <3>2 DEF DaeInv, DaeTyped, DaeRest, SchemaSound
    <3> QED
      BY <3>1, <3>2
  <2> QED
    BY <2>1, <2>2, <2>3 DEF DaeRest
<1>3. ASSUME NEW p \in ServerProcs, BootStep(p) PROVE DaeRest'
  <2>1. CASE Serve(p)
    <3>1. /\ UNCHANGED <<conf, attempts, entered, ring, migrated, boots>>
          /\ stage[p] = "lock" /\ stage' = [stage EXCEPT ![p] = "serving"]
          /\ running' = [running EXCEPT ![p] = running[p] \cup {"http"} \cup
                           (IF conf.remote THEN {"fleet", "recovery"} ELSE {})]
      BY <2>1 DEF Serve
    <3>2. SchemaSound(p)'
      BY <3>1 DEF DaeInv, DaeTyped, DaeRest, SchemaSound
    <3>3. \A q \in ServerProcs : q # p => stage'[q] = stage[q] /\ running'[q] = running[q]
      BY <3>1 DEF DaeInv, DaeTyped
    <3> QED
      BY <3>1, <3>2, <3>3, DaeRestMoves DEF DaeRest
  <2>2. "schema" \notin When(conf.access, "downloader")
    BY DEF When
  <2> QED
    BY <1>2, <1>3, <2>1, <2>2, BootRests
       DEF BootStep, LoadConfig, ValidateForServe, InitBackends, BuildConverter, BuildIngest,
           BuildDownloader, Refused
<1>4. ASSUME NEW p \in ServerProcs, Launch(p) \/ Terminate(p) \/ TerminateStep(p) \/ Killed(p)
      PROVE  DaeRest'
  <2>1. CASE Launch(p)
    <3>1. /\ UNCHANGED <<conf, attempts, entered, ring, migrated, running>>
          /\ stage[p] = "down" /\ stage' = [stage EXCEPT ![p] = "load"] /\ boots' = boots + 1
      BY <2>1 DEF Launch
    <3>2. SchemaSound(p)'
      BY <3>1 DEF DaeInv, DaeTyped, DaeRest, SchemaSound
    <3>3. \A q \in ServerProcs : q # p => stage'[q] = stage[q] /\ running'[q] = running[q]
      BY <3>1 DEF DaeInv, DaeTyped
    <3>4. boots' \in Nat
      BY <3>1 DEF DaeRest
    <3>5. /\ UNCHANGED <<conf, attempts>> /\ entered' \in [ServerProcs -> Seq(HandlerNames)]
          /\ ring' \in [ServerProcs -> {"config", "table"}] /\ migrated' \in BOOLEAN
      BY <3>1 DEF DaeRest
    <3> QED
      BY <3>2, <3>3, <3>4, <3>5, DaeRestMoves
  <2>2. CASE Terminate(p)
    <3>1. /\ UNCHANGED <<conf, attempts, entered, ring, migrated, boots>>
          /\ stage' = [stage EXCEPT ![p] = "terminate"]
          /\ running' = [running EXCEPT ![p] = running[p] \ {"http"}]
      BY <2>2 DEF Terminate
    <3>2. SchemaSound(p)'
      BY <3>1 DEF DaeInv, DaeTyped, DaeRest, SchemaSound
    <3>3. \A q \in ServerProcs : q # p => stage'[q] = stage[q] /\ running'[q] = running[q]
      BY <3>1 DEF DaeInv, DaeTyped
    <3> QED
      BY <3>1, <3>2, <3>3, DaeRestMoves DEF DaeRest
  <2>3. CASE Enter(p)
    <3>1. /\ UNCHANGED <<conf, stage, running, attempts, ring, migrated, boots>>
          /\ pending[p] # <<>> /\ entered' = [entered EXCEPT ![p] = Append(entered[p], Head(pending[p]))]
      BY <2>3 DEF Enter
    <3>2. pending[p] \in Seq(HandlerNames) /\ entered[p] \in Seq(HandlerNames)
      BY DEF DaeInv, DaeTyped, DaeRest
    <3>3. Head(pending[p]) \in HandlerNames
      BY <3>1, <3>2
    <3>4. entered' \in [ServerProcs -> Seq(HandlerNames)]
      BY <3>1, <3>2, <3>3 DEF DaeRest
    <3>5. SchemaSound(p)'
      BY <3>1 DEF DaeRest, SchemaSound
    <3> QED
      BY <3>1, <3>4, <3>5, DaeRestMoves DEF DaeRest
  <2>4. CASE LeaveHandler(p)
    <3>1. /\ UNCHANGED <<conf, stage, running, attempts, ring, migrated, boots>>
          /\ entered[p] # <<>> /\ entered' = [entered EXCEPT ![p] = Front(entered[p])]
      BY <2>4 DEF LeaveHandler
    <3>2. entered[p] \in Seq(HandlerNames)
      BY DEF DaeRest
    <3>3. Front(entered[p]) \in Seq(HandlerNames)
      BY <3>1, <3>2 DEF Front
    <3>4. entered' \in [ServerProcs -> Seq(HandlerNames)]
      BY <3>1, <3>3 DEF DaeRest
    <3>5. SchemaSound(p)'
      BY <3>1 DEF DaeRest, SchemaSound
    <3> QED
      BY <3>1, <3>4, <3>5, DaeRestMoves DEF DaeRest
  <2> QED
    BY <1>2, <1>4, <2>1, <2>2, <2>3, <2>4 DEF TerminateStep, ExitProcess, Killed
<1>5. ASSUME NEW p \in ServerProcs,
             (\E t \in Goroutines : TaskEnds(p, t)) \/ RunBatch(p) \/ SchemaReady(p)
      PROVE  DaeRest'
  <2>1. /\ UNCHANGED <<conf, stage, attempts, entered, boots>>
        /\ migrated' \in BOOLEAN /\ ring' \in [ServerProcs -> {"config", "table"}]
    BY <1>5 DEF TaskEnds, RunBatch, SchemaReady, DaeRest
  <2>2. \E T : \/ running' = [running EXCEPT ![p] = running[p] \ T]
               \/ "schema" \notin T /\ running' = [running EXCEPT ![p] = running[p] \cup T]
    BY <1>5 DEF TaskEnds, RunBatch, SchemaReady, Ends
  <2>3. SchemaSound(p)'
    BY <2>1, <2>2 DEF DaeInv, DaeTyped, DaeRest, SchemaSound
  <2>4. \A q \in ServerProcs : q # p => running'[q] = running[q]
    BY <2>2 DEF DaeInv, DaeTyped
  <2> QED
    BY <2>1, <2>3, <2>4, DaeRestMoves DEF DaeRest
<1>6. ASSUME NEW p \in ServerProcs, SchemaFails(p) PROVE DaeRest'
  <2>1. /\ "schema" \in running[p] /\ attempts' = [attempts EXCEPT ![p] = attempts[p] + 1]
        /\ running' = IF attempts'[p] = SchemaAttempts THEN [running EXCEPT ![p] = running[p] \ {"schema"}]
                      ELSE running
        /\ UNCHANGED <<conf, stage, entered, ring, migrated, boots>>
    BY <1>6 DEF SchemaFails
  <2>2. attempts[p] \in Nat /\ attempts[p] < SchemaAttempts /\ SchemaAttempts \in Nat
    BY <2>1, DaemonConfig DEF DaeRest, SchemaSound
  <2>3. /\ attempts' \in [ServerProcs -> 0 .. SchemaAttempts] /\ attempts'[p] = attempts[p] + 1
        /\ \A q \in ServerProcs : q # p => attempts'[q] = attempts[q] /\ running'[q] = running[q]
    BY <2>1, <2>2 DEF DaeInv, DaeTyped, DaeRest
  <2>4. SchemaSound(p)'
    BY <2>1, <2>2, <2>3 DEF DaeInv, DaeTyped, DaeRest, SchemaSound
  <2>5. \A q \in ServerProcs : q # p => SchemaSound(q)'
    BY <2>1, <2>3 DEF DaeRest, SchemaSound
  <2> QED
    BY <2>1, <2>3, <2>4, <2>5 DEF DaeRest
<1> QED
  BY <1>1, <1>3, <1>4, <1>5, <1>6 DEF DaeNext

\* A server process keeps its state within its types: the schema is tried at
\* most SchemaAttempts times in a process.
LEMMA DaeTypesHold == DaeSpec => []DaeTypeOK
<1>1. DaeInit => DaeRest
  <2> SUFFICES ASSUME DaeInit PROVE DaeRest
    OBVIOUS
  <2>1. attempts \in [ServerProcs -> 0 .. SchemaAttempts]
    BY DaemonConfig DEF DaeInit
  <2>2. \A p \in ServerProcs : SchemaSound(p)
    BY DEF DaeInit, SchemaSound
  <2>3. entered \in [ServerProcs -> Seq(HandlerNames)]
    BY DEF DaeInit
  <2>4. ring \in [ServerProcs -> {"config", "table"}] /\ migrated \in BOOLEAN /\ boots \in Nat
    BY DEF DaeInit
  <2>5. conf \in [postgres : BOOLEAN, remote : BOOLEAN, access : BOOLEAN]
    BY DEF DaeInit
  <2> QED
    BY <2>1, <2>2, <2>3, <2>4, <2>5 DEF DaeRest
<1>2. DaeInv /\ DaeRest => DaeTypeOK
  <2>1. \A q \in Seq(HandlerNames) : ToSet(q) \subseteq HandlerNames
    BY DEF ToSet
  <2> QED
    BY <2>1 DEF DaeInv, DaeTyped, DaeRest, DaeTypeOK
<1> QED
  BY <1>1, <1>2, DaeStarts, DaeStep, DaeRestKept, PTL DEF DaeSpec

-----------------------------------------------------------------------------
(* Storage: the versions of each key.                                        *)

VersionRecord == [id : Nat, marker : BOOLEAN]
KeysTyped ==
    /\ kept \in [ObjKeys -> SUBSET VersionRecord]
    /\ lastIds \in [ObjKeys -> Nat] /\ writes \in Nat
\* A key's newest version is there and every other is older; only the legacy key
\* is ever deleted.
VersionsSound ==
    \A k \in ObjKeys :
       /\ lastIds[k] <= writes
       /\ \A v \in kept[k] : v.id \in 1 .. lastIds[k]
       /\ lastIds[k] # 0 => \E v \in kept[k] : v.id = lastIds[k]
LegacyWritten == lastIds["legacy"] # 0
NoMarkers == \A v \in kept["sharded"] : ~v.marker

\* Who copied the asset left it under the sharded key, and so did whoever
\* deleted the legacy one; a pruner deletes only what something newer follows.
CopiedFirst ==
    /\ \A m \in Movers : mover[m] = "copied" => lastIds["sharded"] # 0
    /\ \A v \in kept["legacy"] : v.marker => lastIds["sharded"] # 0
PlansOld == \A p \in Pruners : \A v \in plan[p] : v[1] \in ObjKeys /\ v[2] < lastIds[v[1]]
\* A reader between its two probes still finds the legacy key, or it was deleted
\* since the first.
ReadersSound ==
    \A r \in Readers :
       /\ reader[r].at = "probe" => Held("legacy") \/ reader[r].moved
       /\ reader[r].at = "missing" => reader[r].moved
Shapes ==
    /\ mover \in [Movers -> {"idle", "listed", "absent", "copied", "read"}]
    /\ plan \in [Pruners -> SUBSET (ObjKeys \X Nat)]
    /\ reader \in [Readers -> [at : {"idle", "probe", "found", "missing"}, moved : BOOLEAN]]
StoInv == /\ KeysTyped /\ VersionsSound /\ LegacyWritten /\ NoMarkers
          /\ CopiedFirst /\ PlansOld /\ ReadersSound /\ Shapes

\* The newest version of a key is the last one written to it.
LEMMA LatestIsLast ==
  ASSUME KeysTyped, VersionsSound, NEW k \in ObjKeys
  PROVE  /\ NewestOf(k) = {v \in kept[k] : v.id = lastIds[k]}
         /\ lastIds[k] # 0 => \E v \in NewestOf(k) : v.id = lastIds[k]
<1>1. /\ kept[k] \subseteq VersionRecord /\ lastIds[k] \in Nat
      /\ \A v \in kept[k] : v.id \in 1 .. lastIds[k]
      /\ lastIds[k] # 0 => \E v \in kept[k] : v.id = lastIds[k]
  BY DEF KeysTyped, VersionsSound
<1>2. ASSUME NEW v \in kept[k] PROVE (\A w \in kept[k] : w.id <= v.id) <=> v.id = lastIds[k]
  <2>1. lastIds[k] # 0
    BY <1>1
  <2>2. PICK x \in kept[k] : x.id = lastIds[k]
    BY <1>1, <2>1
  <2>3. (\A w \in kept[k] : w.id <= v.id) => v.id = lastIds[k]
    BY <1>1, <2>2
  <2>4. v.id = lastIds[k] => \A w \in kept[k] : w.id <= v.id
    BY <1>1
  <2> QED
    BY <2>3, <2>4
<1>3. NewestOf(k) = {v \in kept[k] : v.id = lastIds[k]}
  BY <1>2 DEF NewestOf
<1> QED
  BY <1>1, <1>3

\* What the invariant comes to.
LEMMA AssetsFollow == StoInv => AssetsSound
<1> SUFFICES ASSUME StoInv PROVE AssetsSound
  OBVIOUS
<1>1. ObjKeys = {"legacy", "sharded"}
  BY DEF ObjKeys
<1>2. CASE Held("legacy")
  BY <1>1, <1>2, LatestIsLast DEF StoInv, AssetsSound, AssetSurvives, AbsentMeansMoved, ReadersSound
<1>3. CASE ~Held("legacy")
  <2>1. PICK v \in NewestOf("legacy") : v.id = lastIds["legacy"]
    BY <1>1, LatestIsLast DEF StoInv, LegacyWritten
  <2>2. v \in kept["legacy"] /\ v.marker
    BY <1>1, <1>3, <2>1, LatestIsLast DEF StoInv, Held
  <2>3. lastIds["sharded"] # 0
    BY <2>2 DEF StoInv, CopiedFirst
  <2>4. Held("sharded")
    BY <1>1, <2>3, LatestIsLast DEF StoInv, Held, NoMarkers
  <2> QED
    BY <1>1, <2>4, LatestIsLast DEF StoInv, AssetsSound, AssetSurvives, AbsentMeansMoved, ReadersSound
<1> QED
  BY <1>2, <1>3

\* Initially the legacy key holds the asset.
LEMMA StoInvInit == StoInit => StoInv
<1> SUFFICES ASSUME StoInit PROVE StoInv
  OBVIOUS
<1>1. /\ kept["legacy"] = {[id |-> 1, marker |-> FALSE]} /\ kept["sharded"] = {}
      /\ lastIds["legacy"] = 1 /\ lastIds["sharded"] = 0 /\ writes = 1
  BY DEF StoInit, ObjKeys
<1>2. KeysTyped
  BY <1>1 DEF StoInit, KeysTyped, ObjKeys, VersionRecord
<1>3. VersionsSound /\ LegacyWritten /\ NoMarkers
  <2>1. \A v \in kept["legacy"] : v.id = 1
    BY <1>1
  <2>2. \E v \in kept["legacy"] : v.id = 1
    BY <1>1
  <2>3. \A k \in ObjKeys : k = "legacy" \/ k = "sharded"
    BY DEF ObjKeys
  <2> QED
    BY <1>1, <2>1, <2>2, <2>3 DEF VersionsSound, LegacyWritten, NoMarkers
<1>4. CopiedFirst
  BY <1>1 DEF StoInit, CopiedFirst
<1>5. PlansOld /\ ReadersSound /\ Shapes
  BY DEF StoInit, PlansOld, ReadersSound, Shapes
<1> QED
  BY <1>2, <1>3, <1>4, <1>5 DEF StoInv

-----------------------------------------------------------------------------
(* Storage: the steps.                                                       *)

\* A version written is its key's newest, and older plans stay old.
LEMMA WrittenKeeps ==
  ASSUME StoInv, NEW k \in ObjKeys, NEW gone \in BOOLEAN, Written(k, gone)
  PROVE  /\ KeysTyped' /\ VersionsSound' /\ LegacyWritten'
         /\ lastIds'[k] # 0 /\ \A j \in ObjKeys : lastIds'[j] >= lastIds[j] /\ lastIds[j] \in Nat
         /\ \A j \in ObjKeys : j # k => kept'[j] = kept[j] /\ lastIds'[j] = lastIds[j]
         /\ \A v \in kept'[k] : v \in kept[k] \/ v.marker = gone
<1> DEFINE v0 == [id |-> writes + 1, marker |-> gone]
<1>1. /\ kept' = [kept EXCEPT ![k] = kept[k] \cup {v0}]
      /\ lastIds' = [lastIds EXCEPT ![k] = writes + 1] /\ writes' = writes + 1
      /\ kept \in [ObjKeys -> SUBSET VersionRecord] /\ lastIds \in [ObjKeys -> Nat] /\ writes \in Nat
  BY DEF Written, StoInv, KeysTyped
<1>2. v0 \in VersionRecord /\ v0.id = writes + 1 /\ v0.marker = gone
  BY <1>1 DEF VersionRecord
<1>3. /\ kept'[k] = kept[k] \cup {v0} /\ lastIds'[k] = writes + 1
      /\ \A j \in ObjKeys : j # k => kept'[j] = kept[j] /\ lastIds'[j] = lastIds[j]
  BY <1>1
<1>4. KeysTyped'
  BY <1>1, <1>2 DEF KeysTyped
<1>5. \A j \in ObjKeys : lastIds[j] <= writes
  BY DEF StoInv, VersionsSound
<1>6. ASSUME NEW j \in ObjKeys
      PROVE  /\ lastIds'[j] <= writes' /\ \A v \in kept'[j] : v.id \in 1 .. lastIds'[j]
             /\ lastIds'[j] # 0 => \E v \in kept'[j] : v.id = lastIds'[j]
  <2>1. CASE j = k
    <3>1. \A v \in kept[k] : v.id \in 1 .. lastIds[k]
      BY DEF StoInv, VersionsSound
    <3>2. \A v \in kept'[k] : v.id \in 1 .. writes + 1
      BY <1>1, <1>2, <1>3, <1>5, <3>1
    <3> QED
      BY <1>1, <1>2, <1>3, <2>1, <3>2
  <2>2. CASE j # k
    BY <1>1, <1>3, <1>5, <2>2 DEF StoInv, VersionsSound
  <2> QED
    BY <2>1, <2>2
<1>7. \A j \in ObjKeys : lastIds'[j] >= lastIds[j] /\ lastIds[j] \in Nat
  BY <1>1, <1>3, <1>5
<1>8. LegacyWritten'
  BY <1>1, <1>7 DEF StoInv, LegacyWritten, ObjKeys
<1> QED
  BY <1>1, <1>2, <1>3, <1>4, <1>6, <1>7, <1>8 DEF VersionsSound

\* Writing to the sharded key leaves what the legacy key shows.
LEMMA HeldStays ==
  ASSUME NEW k \in ObjKeys, kept'[k] = kept[k]
  PROVE  Held(k)' = Held(k)
BY DEF Held, NewestOf

LEMMA CopyKeeps ==
  ASSUME StoInv, NEW m \in Movers, MoveCopies(m) \/ (MovePuts(m) /\ ~Held("sharded"))
  PROVE  StoInv'
<1>1. /\ Written("sharded", FALSE) /\ mover' = [mover EXCEPT ![m] = "copied"]
      /\ plan' = plan /\ reader' = reader
  BY DEF MoveCopies, MovePuts, MoverAt
<1>2. /\ KeysTyped' /\ VersionsSound' /\ LegacyWritten' /\ lastIds'["sharded"] # 0
      /\ \A j \in ObjKeys : lastIds'[j] >= lastIds[j] /\ lastIds[j] \in Nat
      /\ kept'["legacy"] = kept["legacy"]
      /\ \A v \in kept'["sharded"] : v \in kept["sharded"] \/ v.marker = FALSE
  BY <1>1, WrittenKeeps DEF ObjKeys
<1>3. NoMarkers'
  BY <1>2 DEF StoInv, NoMarkers
<1>4. CopiedFirst'
  BY <1>2 DEF CopiedFirst
<1>5. PlansOld'
  <2>1. \A p \in Pruners : \A v \in plan[p] : v[1] \in ObjKeys /\ v[2] \in Nat /\ v[2] < lastIds[v[1]]
    BY DEF StoInv, PlansOld, Shapes
  <2> QED
    BY <1>1, <1>2, <2>1 DEF PlansOld, KeysTyped
<1>6. ReadersSound'
  BY <1>1, <1>2, HeldStays DEF StoInv, ReadersSound, ObjKeys
<1>7. Shapes'
  BY <1>1 DEF StoInv, Shapes
<1> QED
  BY <1>2, <1>3, <1>4, <1>5, <1>6, <1>7 DEF StoInv

\* A delete hides the legacy key behind a marker: the sharded one holds the
\* asset by then, and whoever is between its probes is told.
LEMMA DeleteKeeps ==
  ASSUME StoInv, NEW m \in Movers, MoveDeletes(m)
  PROVE  StoInv'
<1>1. /\ Written("legacy", TRUE) /\ mover[m] = "copied" /\ mover' = [mover EXCEPT ![m] = "idle"]
      /\ plan' = plan
      /\ reader' = [r \in Readers |-> [reader[r] EXCEPT !.moved = @ \/ reader[r].at = "probe"]]
  BY DEF MoveDeletes, MoverAt
<1>2. /\ KeysTyped' /\ VersionsSound' /\ LegacyWritten'
      /\ \A j \in ObjKeys : lastIds'[j] >= lastIds[j] /\ lastIds[j] \in Nat
      /\ kept'["sharded"] = kept["sharded"] /\ lastIds'["sharded"] = lastIds["sharded"]
  BY <1>1, WrittenKeeps DEF ObjKeys
<1>3. lastIds["sharded"] # 0
  BY <1>1 DEF StoInv, CopiedFirst
<1>4. NoMarkers'
  BY <1>2 DEF StoInv, NoMarkers
<1>5. CopiedFirst'
  BY <1>2, <1>3 DEF CopiedFirst
<1>6. PlansOld'
  <2>1. \A p \in Pruners : \A v \in plan[p] : v[1] \in ObjKeys /\ v[2] \in Nat /\ v[2] < lastIds[v[1]]
    BY DEF StoInv, PlansOld, Shapes
  <2> QED
    BY <1>1, <1>2, <2>1 DEF PlansOld, KeysTyped
<1>7. Shapes'
  BY <1>1 DEF StoInv, Shapes
<1>8. ASSUME NEW r \in Readers
      PROVE  /\ reader'[r].at = "probe" => reader'[r].moved
             /\ reader'[r].at = "missing" => reader'[r].moved
  <2>1. /\ reader[r].at \in {"idle", "probe", "found", "missing"} /\ reader[r].moved \in BOOLEAN
        /\ reader[r].at = "missing" => reader[r].moved
    BY DEF StoInv, Shapes, ReadersSound
  <2>2. reader[r] \in [at : {"idle", "probe", "found", "missing"}, moved : BOOLEAN]
    BY DEF StoInv, Shapes
  <2>3. reader'[r].at = reader[r].at /\ reader'[r].moved = (reader[r].moved \/ reader[r].at = "probe")
    BY <1>1, <2>2
  <2> QED
    BY <2>1, <2>3
<1> QED
  BY <1>2, <1>4, <1>5, <1>6, <1>7, <1>8 DEF StoInv, ReadersSound

\* Deleting a version that something newer follows changes nothing anyone sees.
LEMMA PruneKeeps ==
  ASSUME StoInv, NEW p \in Pruners, PruneDeletes(p)
  PROVE  StoInv'
<1>1. PICK v \in plan[p] : /\ plan' = [plan EXCEPT ![p] = plan[p] \ {v}]
                           /\ VersionGone(v[1], v[2]) \/ kept' = kept
  BY DEF PruneDeletes
<1>2. UNCHANGED <<writes, mover, reader, lastIds>>
  BY DEF PruneDeletes
<1>3. v[1] \in ObjKeys /\ v[2] \in Nat /\ v[2] < lastIds[v[1]]
  BY DEF StoInv, PlansOld, Shapes
<1>4. ASSUME NEW k \in ObjKeys
      PROVE  /\ kept'[k] \subseteq kept[k]
             /\ \A x \in kept[k] : x.id = lastIds[k] => x \in kept'[k]
  <2>1. CASE kept' = kept
    BY <2>1
  <2>2. CASE VersionGone(v[1], v[2])
    <3>1. kept' = [kept EXCEPT ![v[1]] = {x \in kept[v[1]] : x.id # v[2]}]
      BY <2>2 DEF VersionGone
    <3>2. /\ kept \in [ObjKeys -> SUBSET VersionRecord]
          /\ \A x \in kept[k] : x.id \in Nat
      BY DEF StoInv, KeysTyped, VersionRecord
    <3>3. CASE k = v[1]
      <4>1. kept'[k] = {x \in kept[k] : x.id # v[2]}
        BY <3>1, <3>2, <3>3
      <4> QED
        BY <1>3, <3>2, <3>3, <4>1
    <3>4. CASE k # v[1]
      BY <3>1, <3>2, <3>4
    <3> QED
      BY <3>3, <3>4
  <2> QED
    BY <1>1, <2>1, <2>2
<1>5. KeysTyped'
  <2>1. kept' \in [ObjKeys -> SUBSET VersionRecord]
    <3>1. CASE kept' = kept
      BY <3>1 DEF StoInv, KeysTyped
    <3>2. CASE VersionGone(v[1], v[2])
      BY <1>3, <3>2 DEF StoInv, KeysTyped, VersionGone
    <3> QED
      BY <1>1, <3>1, <3>2
  <2> QED
    BY <1>2, <2>1 DEF StoInv, KeysTyped
<1>6. VersionsSound' /\ LegacyWritten' /\ NoMarkers' /\ CopiedFirst'
  <2>1. "legacy" \in ObjKeys /\ "sharded" \in ObjKeys
    BY DEF ObjKeys
  <2>2. VersionsSound'
    BY <1>2, <1>4 DEF StoInv, VersionsSound
  <2>3. LegacyWritten' /\ NoMarkers'
    BY <1>2, <1>4, <2>1 DEF StoInv, LegacyWritten, NoMarkers
  <2> QED
    BY <1>2, <1>4, <2>1, <2>2, <2>3 DEF StoInv, CopiedFirst
<1>7. PlansOld' /\ Shapes'
  BY <1>1, <1>2 DEF StoInv, PlansOld, Shapes
<1>8. Held("legacy") => Held("legacy")'
  <2>1. "legacy" \in ObjKeys
    BY DEF ObjKeys
  <2>2. ASSUME NEW x \in NewestOf("legacy") PROVE x \in NewestOf("legacy")'
    <3>1. x \in kept["legacy"] /\ x.id = lastIds["legacy"] /\ \A w \in kept["legacy"] : w.id <= x.id
      BY <2>1, LatestIsLast DEF StoInv, NewestOf
    <3> QED
      BY <1>4, <2>1, <3>1 DEF NewestOf
  <2> QED
    BY <2>2 DEF Held
<1>9. ReadersSound'
  BY <1>2, <1>8 DEF StoInv, ReadersSound
<1> QED
  BY <1>5, <1>6, <1>7, <1>9 DEF StoInv

\* A plan holds versions that something newer follows.
LEMMA PlanKeeps ==
  ASSUME StoInv, NEW p \in Pruners, PruneLists(p)
  PROVE  StoInv'
<1>1. PICK cutoff \in 1 .. writes : plan' = [plan EXCEPT ![p] = Planned(cutoff)]
  BY DEF PruneLists
<1>2. UNCHANGED <<kept, writes, mover, reader, lastIds>>
  BY DEF PruneLists
<1>3. \A v \in Planned(cutoff) : v \in ObjKeys \X Nat /\ v[2] < lastIds[v[1]]
  <2> SUFFICES ASSUME NEW v \in Planned(cutoff)
               PROVE  v \in ObjKeys \X Nat /\ v[2] < lastIds[v[1]]
    OBVIOUS
  <2>1. PICK k \in ObjKeys : \E y \in Eligible(k) : v = <<k, y.id>>
    BY DEF Planned
  <2>0. PICK x \in Eligible(k) : v = <<k, x.id>>
    BY <2>1
  <2>2. x \in kept[k] /\ x \notin NewestOf(k)
    BY <2>0 DEF Eligible
  <2>3. x.id # lastIds[k]
    BY <2>2, LatestIsLast DEF StoInv
  <2>4. x.id \in 1 .. lastIds[k] /\ x.id \in Nat /\ lastIds[k] \in Nat
    BY <2>2 DEF StoInv, VersionsSound, KeysTyped, VersionRecord
  <2> QED
    BY <2>0, <2>3, <2>4
<1>4. PlansOld' /\ Shapes'
  BY <1>1, <1>2, <1>3 DEF StoInv, PlansOld, Shapes
<1>5. KeysTyped' /\ VersionsSound' /\ LegacyWritten' /\ NoMarkers' /\ CopiedFirst'
  BY <1>2 DEF StoInv, KeysTyped, VersionsSound, LegacyWritten, NoMarkers, CopiedFirst
<1>6. ReadersSound'
  BY <1>2, HeldStays DEF StoInv, ReadersSound, ObjKeys
<1> QED
  BY <1>4, <1>5, <1>6 DEF StoInv

\* The readers' steps: a second probe that finds nothing was overtaken.
LEMMA ReadKeeps ==
  ASSUME StoInv, NEW r \in Readers, LocateNew(r) \/ LocateLegacy(r) \/ Located(r)
  PROVE  StoInv'
<1>1. UNCHANGED <<kept, writes, mover, plan, lastIds>>
  BY DEF LocateNew, LocateLegacy, Located
<1>2. reader \in [Readers -> [at : {"idle", "probe", "found", "missing"}, moved : BOOLEAN]]
  BY DEF StoInv, Shapes
<1>3. /\ reader' \in [Readers -> [at : {"idle", "probe", "found", "missing"}, moved : BOOLEAN]]
      /\ \A x \in Readers : x # r => reader'[x] = reader[x]
  <2>1. ASSUME NEW at \in {"idle", "probe", "found", "missing"}, NEW b \in BOOLEAN,
               reader' = [reader EXCEPT ![r] = [at |-> at, moved |-> b]]
        PROVE  /\ reader' \in [Readers -> [at : {"idle", "probe", "found", "missing"}, moved : BOOLEAN]]
               /\ \A x \in Readers : x # r => reader'[x] = reader[x]
    BY <1>2, <2>1
  <2>2. ASSUME NEW to \in {"found", "probe", "missing"}, ReaderAt(r, to)
        PROVE  /\ reader' \in [Readers -> [at : {"idle", "probe", "found", "missing"}, moved : BOOLEAN]]
               /\ \A x \in Readers : x # r => reader'[x] = reader[x]
    <3>1. PICK b \in BOOLEAN : b = (to # "probe" /\ reader[r].moved)
      OBVIOUS
    <3>2. reader' = [reader EXCEPT ![r] = [at |-> to, moved |-> b]]
      BY <2>2, <3>1 DEF ReaderAt
    <3> QED
      BY <2>1, <3>2
  <2>3. CASE Located(r)
    BY <2>1, <2>3 DEF Located
  <2> QED
    BY <2>2, <2>3 DEF LocateNew, LocateLegacy
<1>4. /\ reader'[r].at = "probe" => Held("legacy") \/ reader'[r].moved
      /\ reader'[r].at = "missing" => reader'[r].moved
  <2>1. CASE LocateNew(r)
    <3>1. /\ reader'[r].at = "probe" => ~Held("sharded")
          /\ reader'[r].at # "missing"
      BY <1>2, <2>1 DEF LocateNew, ReaderAt
    <3>2. Held("sharded") \/ Held("legacy")
      BY AssetsFollow DEF AssetsSound, AssetSurvives, ObjKeys
    <3> QED
      BY <3>1, <3>2
  <2>2. CASE LocateLegacy(r)
    <3>1. /\ reader'[r].at # "probe" /\ reader[r].at = "probe"
          /\ reader'[r].at = "missing" => ~Held("legacy")
          /\ reader'[r].moved = reader[r].moved
      BY <1>2, <2>2 DEF LocateLegacy, ReaderAt
    <3> QED
      BY <3>1 DEF StoInv, ReadersSound
  <2>3. CASE Located(r)
    BY <1>2, <2>3 DEF Located
  <2> QED
    BY <2>1, <2>2, <2>3
<1>5. ReadersSound'
  <2>1. "legacy" \in ObjKeys /\ Held("legacy")' = Held("legacy")
    BY <1>1, HeldStays DEF ObjKeys
  <2> QED
    BY <1>3, <1>4, <2>1 DEF StoInv, ReadersSound
<1>6. KeysTyped' /\ VersionsSound' /\ LegacyWritten' /\ NoMarkers' /\ CopiedFirst'
  BY <1>1 DEF StoInv, KeysTyped, VersionsSound, LegacyWritten, NoMarkers, CopiedFirst
<1>7. PlansOld' /\ Shapes'
  BY <1>1, <1>3 DEF StoInv, PlansOld, Shapes
<1> QED
  BY <1>5, <1>6, <1>7 DEF StoInv

\* Everything else leaves the versions, the plans and the readers.
LEMMA RestKeeps ==
  ASSUME StoInv, UNCHANGED <<kept, writes, lastIds, plan, reader>>,
         \A m \in Movers : mover'[m] = "copied" => mover[m] = "copied" \/ Held("sharded"),
         mover' \in [Movers -> {"idle", "listed", "absent", "copied", "read"}]
  PROVE  StoInv'
<1>1. Held("sharded") => lastIds["sharded"] # 0
  BY DEF StoInv, VersionsSound, KeysTyped, Held, NewestOf, ObjKeys
<1>2. KeysTyped' /\ VersionsSound' /\ LegacyWritten' /\ NoMarkers'
  BY DEF StoInv, KeysTyped, VersionsSound, LegacyWritten, NoMarkers
<1>3. CopiedFirst'
  BY <1>1 DEF StoInv, CopiedFirst
<1>4. ReadersSound'
  BY HeldStays DEF StoInv, ReadersSound, ObjKeys
<1>5. PlansOld' /\ Shapes'
  BY DEF StoInv, PlansOld, Shapes
<1> QED
  BY <1>2, <1>3, <1>4, <1>5 DEF StoInv

\* Every step keeps the invariant.
LEMMA StoInvNext == StoInv /\ [StoNext]_stoVars => StoInv'
<1> SUFFICES ASSUME StoInv, [StoNext]_stoVars PROVE StoInv'
  OBVIOUS
<1>0. mover \in [Movers -> {"idle", "listed", "absent", "copied", "read"}]
  BY DEF StoInv, Shapes
<1>1. ASSUME NEW m \in Movers,
             \/ MoveLists(m) \/ MoveStats(m) \/ MoveReads(m) \/ MoveFails(m)
             \/ (MovePuts(m) /\ Held("sharded"))
      PROVE  StoInv'
  <2>1. UNCHANGED <<kept, writes, lastIds, plan, reader>>
    BY <1>1 DEF MoveLists, MoveStats, MoveReads, MoveFails, MovePuts
  <2>2. /\ mover' \in [Movers -> {"idle", "listed", "absent", "copied", "read"}]
        /\ \A x \in Movers : mover'[x] = "copied" => mover[x] = "copied" \/ Held("sharded")
    BY <1>0, <1>1 DEF MoveLists, MoveStats, MoveReads, MoveFails, MovePuts, MoverAt
  <2> QED
    BY <2>1, <2>2, RestKeeps
<1>2. ASSUME NEW p \in Pruners, PruneStops(p) PROVE StoInv'
  <2>1. /\ UNCHANGED <<kept, writes, mover, reader, lastIds>>
        /\ plan' = [plan EXCEPT ![p] = {}]
    BY <1>2 DEF PruneStops
  <2>2. PlansOld' /\ Shapes'
    BY <2>1 DEF StoInv, PlansOld, Shapes
  <2>3. KeysTyped' /\ VersionsSound' /\ LegacyWritten' /\ NoMarkers' /\ CopiedFirst'
    BY <2>1 DEF StoInv, KeysTyped, VersionsSound, LegacyWritten, NoMarkers, CopiedFirst
  <2>4. ReadersSound'
    BY <2>1, HeldStays DEF StoInv, ReadersSound, ObjKeys
  <2> QED
    BY <2>2, <2>3, <2>4 DEF StoInv
<1>3. CASE UNCHANGED stoVars
  BY <1>0, <1>3, RestKeeps DEF stoVars
<1> QED
  BY <1>1, <1>2, <1>3, CopyKeeps, DeleteKeeps, PruneKeeps, PlanKeeps, ReadKeeps DEF StoNext

\* Whatever migrations, prunings and failures do at once, the asset stays under
\* one of its keys, the newest version of each is never pruned, and a reader
\* misses the asset only if it was moved between its two probes.
THEOREM AssetsAlwaysSound == StoSpec => []AssetsSound
<1> QED
  BY StoInvInit, StoInvNext, AssetsFollow, PTL DEF StoSpec

\* As many versions as the bound allows, and plans only of those.
StoBound == writes <= MaxWrites /\ \A p \in Pruners : \A v \in plan[p] : v[2] \in 1 .. MaxWrites

LEMMA StoBoundKept == StoInv /\ StoBound /\ [StoNext]_stoVars => StoBound'
<1> SUFFICES ASSUME StoInv, StoBound, [StoNext]_stoVars PROVE StoBound'
  OBVIOUS
<1>1. MaxWrites \in Nat /\ writes \in Nat /\ plan \in [Pruners -> SUBSET (ObjKeys \X Nat)]
  BY StorageConfig DEF StoInv, KeysTyped, Shapes
<1>2. ASSUME NEW k \in ObjKeys, NEW v \in kept[k] PROVE v.id \in 1 .. MaxWrites
  <2>1. lastIds[k] \in Nat /\ lastIds[k] <= writes /\ v.id \in 1 .. lastIds[k]
    BY DEF StoInv, KeysTyped, VersionsSound
  <2> QED
    BY <1>1, <2>1 DEF StoBound
<1>3. ASSUME NEW k, NEW mark, Written(k, mark) PROVE writes' <= MaxWrites
  BY <1>1, <1>3 DEF Written
<1>4. ASSUME NEW m \in Movers, MoveLists(m) \/ MoveStats(m) \/ MoveReads(m) \/ MoveFails(m)
      PROVE  UNCHANGED <<writes, plan>>
  BY <1>4 DEF MoveLists, MoveStats, MoveReads, MoveFails
<1>5. ASSUME NEW m \in Movers, MoveCopies(m) \/ MovePuts(m) \/ MoveDeletes(m)
      PROVE  UNCHANGED plan /\ (UNCHANGED writes \/ writes' <= MaxWrites)
  BY <1>3, <1>5 DEF MoveCopies, MovePuts, MoveDeletes
<1>6. ASSUME NEW p \in Pruners, PruneLists(p) PROVE StoBound'
  <2>1. PICK cutoff \in 1 .. writes : plan' = [plan EXCEPT ![p] = Planned(cutoff)]
    BY <1>6 DEF PruneLists
  <2>2. ASSUME NEW v \in Planned(cutoff) PROVE v[2] \in 1 .. MaxWrites
    <3>1. PICK k \in ObjKeys : \E w \in kept[k] : v = <<k, w.id>>
      BY <2>2 DEF Planned, Eligible
    <3> QED
      BY <1>2, <3>1
  <2>3. ASSUME NEW q \in Pruners, NEW v \in plan'[q] PROVE v[2] \in 1 .. MaxWrites
    BY <1>1, <2>1, <2>2, <2>3 DEF StoBound
  <2> QED
    BY <1>6, <2>3 DEF StoBound, PruneLists
<1>7. ASSUME NEW p \in Pruners, PruneDeletes(p) \/ PruneStops(p) PROVE StoBound'
  <2>1. UNCHANGED writes /\ \A q \in Pruners : plan'[q] \subseteq plan[q]
    BY <1>1, <1>7 DEF PruneDeletes, PruneStops
  <2> QED
    BY <2>1 DEF StoBound
<1>8. ASSUME NEW r \in Readers, LocateNew(r) \/ LocateLegacy(r) \/ Located(r)
      PROVE  UNCHANGED <<writes, plan>>
  BY <1>8 DEF LocateNew, LocateLegacy, Located
<1>9. UNCHANGED stoVars => UNCHANGED <<writes, plan>>
  BY DEF stoVars
<1>10. UNCHANGED plan /\ (UNCHANGED writes \/ writes' <= MaxWrites) => StoBound'
  BY DEF StoBound
<1> QED
  BY <1>4, <1>5, <1>6, <1>7, <1>8, <1>9, <1>10 DEF StoNext

\* Versions, plans, movers and readers stay within their types.
LEMMA StoTypesHold == StoSpec => []StoTypeOK
<1>1. StoInit => StoBound
  BY StorageConfig DEF StoInit, StoBound
<1>2. StoInv /\ StoBound => StoTypeOK
  <2> SUFFICES ASSUME StoInv, StoBound PROVE StoTypeOK
    OBVIOUS
  <2>1. MaxWrites \in Nat /\ writes \in 0 .. MaxWrites
    BY StorageConfig DEF StoInv, KeysTyped, StoBound
  <2>2. ASSUME NEW k \in ObjKeys
        PROVE  lastIds[k] \in 0 .. MaxWrites /\ kept[k] \in SUBSET [id : 1 .. MaxWrites, marker : BOOLEAN]
    <3>1. lastIds[k] \in Nat /\ lastIds[k] <= writes /\ kept[k] \subseteq VersionRecord
          /\ \A v \in kept[k] : v.id \in 1 .. lastIds[k]
      BY DEF StoInv, KeysTyped, VersionsSound
    <3>2. \A v \in kept[k] : v.id \in 1 .. MaxWrites
      BY <2>1, <3>1
    <3>3. \A v \in kept[k] : v \in [id : 1 .. MaxWrites, marker : BOOLEAN]
      BY <3>1, <3>2 DEF VersionRecord
    <3> QED
      BY <2>1, <3>1, <3>3
  <2>3. kept \in [ObjKeys -> SUBSET [id : 1 .. MaxWrites, marker : BOOLEAN]]
        /\ lastIds \in [ObjKeys -> 0 .. MaxWrites]
    BY <2>2 DEF StoInv, KeysTyped
  <2>4. ASSUME NEW p \in Pruners PROVE plan[p] \in SUBSET (ObjKeys \X (1 .. MaxWrites))
    BY DEF StoInv, Shapes, StoBound
  <2>5. plan \in [Pruners -> SUBSET (ObjKeys \X (1 .. MaxWrites))]
    BY <2>4 DEF StoInv, Shapes
  <2> QED
    BY <2>1, <2>3, <2>5 DEF StoTypeOK, StoInv, Shapes
<1> QED
  BY <1>1, <1>2, StoInvInit, StoInvNext, StoBoundKept, PTL DEF StoSpec

-----------------------------------------------------------------------------
(* Access tokens: one token for each approval, none after a revocation.      *)

CodeRow == [status : CodeStatuses, user : AccUsers \cup {NoUser}, polls : Nat, last : Int,
            until : Int]
PatRow  == [user : AccUsers \cup {NoUser}, until : Int, from : DevCodes \cup {Missing},
            live : BOOLEAN]
Request == [op : {"idle", "poll", "mint", "approve", "verify", "owner", "accepted"},
            code : DevCodes \cup {Missing}, pat : AccTokens \cup {Missing},
            user : AccUsers \cup {NoUser}, now : Int, row : CodeRow, dead : BOOLEAN,
            barred : BOOLEAN]
AccTyped ==
    /\ code \in [DevCodes -> CodeRow] /\ pat \in [AccTokens -> PatRow]
    /\ req \in [Callers -> Request] /\ tick \in Nat

Decided(d) == code[d].status \notin {"none", "pending"}
\* Consumed codes have one token, of the user who approved; no other code has.
CodeInv(d) ==
    /\ code[d].status \in {"approved", "consumed"} => code[d].user \in AccUsers
    /\ IF code[d].status = "consumed"
       THEN \E t \in AccTokens : MintedFor(d) = {t} /\ pat[t].user = code[d].user
       ELSE MintedFor(d) = {}
PatInv(t) == pat[t] = NoPat \/ pat[t].user \in AccUsers
\* What a request still knows when it goes on.
ReqInv(r) ==
    LET x == req[r] IN
    /\ x.op = "poll" =>
          /\ x.code \in DevCodes
          /\ x.row.status = "approved" => Decided(x.code) /\ x.row.user = code[x.code].user
    /\ x.op = "mint" => x.code \in DevCodes /\ Decided(x.code) /\ x.user = code[x.code].user
    /\ x.op = "approve" => x.code \in DevCodes /\ x.user \in AccUsers
    /\ x.op \in {"verify", "owner", "accepted"} =>
          /\ x.pat \in AccTokens /\ pat[x.pat] # NoPat
          /\ x.barred => pat[x.pat].user \in disabled
    /\ x.op = "verify" /\ x.dead => Expired(pat[x.pat], tick)
    /\ x.op \in {"owner", "accepted"} => ~x.dead
    /\ x.op = "accepted" => ~x.barred

AccInv ==
    /\ AccTyped
    /\ \A d \in DevCodes : CodeInv(d)
    /\ \A t \in AccTokens : PatInv(t)
    /\ \A r \in Callers : ReqInv(r)

\* A decision stands, and so do a token's owner and expiry.
CodesStand == \A d \in DevCodes : Decided(d) => Decided(d)' /\ code'[d].user = code[d].user
PatsStand  == \A t \in AccTokens : pat[t] # NoPat =>
                 pat'[t] # NoPat /\ pat'[t].user = pat[t].user /\ pat'[t].until = pat[t].until
\* Requests that do not move are as sound as before.
LEMMA ReqFrame ==
  ASSUME AccInv, AccTyped', CodesStand, PatsStand, tick <= tick', NEW r \in Callers, req'[r] = req[r],
         (req[r].barred /\ req[r].pat \in AccTokens /\ pat[req[r].pat].user \in disabled) =>
            pat[req[r].pat].user \in disabled'
  PROVE  ReqInv(r)'
<1>1. ReqInv(r) /\ req[r] \in Request
  BY DEF AccInv, AccTyped
<1>2. ASSUME req[r].op = "poll" PROVE ReqInv(r)'
  BY <1>1, <1>2 DEF ReqInv, CodesStand
<1>3. ASSUME req[r].op = "mint" PROVE ReqInv(r)'
  BY <1>1, <1>3 DEF ReqInv, CodesStand
<1>4. ASSUME req[r].op \in {"verify", "owner", "accepted"} PROVE ReqInv(r)'
  <2>1. /\ req[r].pat \in AccTokens /\ pat[req[r].pat] # NoPat
        /\ pat'[req[r].pat] # NoPat /\ pat'[req[r].pat].user = pat[req[r].pat].user
        /\ pat'[req[r].pat].until = pat[req[r].pat].until
    BY <1>1, <1>4 DEF ReqInv, PatsStand
  <2>2. req[r].barred => pat'[req[r].pat].user \in disabled'
    BY <1>1, <1>4, <2>1 DEF ReqInv
  <2>3. pat[req[r].pat].until \in Int /\ tick \in Int /\ tick' \in Int
    BY <2>1 DEF AccInv, AccTyped, PatRow
  <2>4. Expired(pat[req[r].pat], tick) => Expired(pat'[req[r].pat], tick')
    BY <2>1, <2>3 DEF Expired
  <2> QED
    BY <1>1, <1>4, <2>1, <2>2, <2>4 DEF ReqInv
<1>5. ASSUME req[r].op \in {"idle", "approve"} PROVE ReqInv(r)'
  BY <1>1, <1>5 DEF ReqInv
<1>6. req[r].op \in {"idle", "poll", "mint", "approve", "verify", "owner", "accepted"}
  BY <1>1 DEF Request
<1> QED
  BY <1>2, <1>3, <1>4, <1>5, <1>6

\* Codes that are not consumed now.
LEMMA CodeStep ==
  ASSUME AccInv, pat' = pat,
         \A d \in DevCodes :
            /\ (code'[d].status = "consumed") <=> (code[d].status = "consumed")
            /\ code'[d].status \in {"approved", "consumed"} => code'[d].user \in AccUsers
            /\ code[d].status = "consumed" => code'[d].user = code[d].user
  PROVE  (\A d \in DevCodes : CodeInv(d)') /\ (\A t \in AccTokens : PatInv(t)')
<1>1. \A d \in DevCodes : MintedFor(d)' = MintedFor(d)
  BY DEF MintedFor
<1> QED
  BY <1>1 DEF AccInv, CodeInv, PatInv

\* Tokens that are not minted for a code now.
LEMMA PatStep ==
  ASSUME AccInv, code' = code, PatsStand, \A t \in AccTokens : PatInv(t)',
         \A t \in AccTokens : pat'[t].from = pat[t].from
  PROVE  \A d \in DevCodes : CodeInv(d)'
<1>1. \A d \in DevCodes : MintedFor(d)' = MintedFor(d)
  BY DEF MintedFor
<1>2. ASSUME NEW d \in DevCodes, code[d].status = "consumed" PROVE CodeInv(d)'
  <2>1. PICK t \in AccTokens : MintedFor(d) = {t} /\ pat[t].user = code[d].user
    BY <1>2 DEF AccInv, CodeInv
  <2>2. pat[t].from = d /\ pat[t] # NoPat
    BY <2>1, AccessConfig DEF MintedFor, NoPat, Missing
  <2>3. pat'[t].user = pat[t].user
    BY <2>2 DEF PatsStand
  <2> QED
    BY <1>1, <1>2, <2>1, <2>3 DEF AccInv, CodeInv
<1> QED
  BY <1>1, <1>2 DEF AccInv, CodeInv

\* One request moves, on the tokens as they are.
LEMMA ReqStep ==
  ASSUME AccInv, pat' = pat, tick' = tick, disabled' = disabled, code' \in [DevCodes -> CodeRow],
         CodesStand, \A d \in DevCodes : CodeInv(d)',
         NEW r \in Callers, NEW x \in Request, req' = [req EXCEPT ![r] = x], ReqInv(r)'
  PROVE  AccInv'
<1>1. AccTyped' /\ PatsStand /\ tick <= tick'
  BY DEF AccInv, AccTyped, PatsStand
<1>2. \A q \in Callers \ {r} : req'[q] = req[q]
  BY DEF AccInv, AccTyped
<1>3. \A q \in Callers : ReqInv(q)'
  BY <1>1, <1>2, ReqFrame
<1>4. \A t \in AccTokens : PatInv(t)'
  BY DEF AccInv, PatInv
<1> QED
  BY <1>1, <1>3, <1>4 DEF AccInv

\* The empty request, code and token.
LEMMA Blank ==
  ASSUME NoUser \notin AccUsers
  PROVE  /\ NoReq \in Request /\ NoReq.op = "idle" /\ NoReq.code = Missing /\ NoReq.pat = Missing
         /\ NoCode \in CodeRow /\ NoCode.status = "none" /\ NoCode.user = NoUser
         /\ NoPat \in PatRow /\ NoPat.user = NoUser /\ NoPat.from = Missing /\ ~NoPat.live
BY DEF NoReq, NoCode, NoPat, Request, CodeRow, PatRow, CodeStatuses, Missing

\* A poll that is counted changes neither status nor user of its code.
LEMMA Bumped ==
  ASSUME NEW o \in CodeRow, NEW n \in Int
  PROVE  LET c == [o EXCEPT !.polls = @ + 1, !.last = n]
         IN  c \in CodeRow /\ c.user = o.user /\ c.status = o.status
<1> DEFINE k == o.polls + 1
           c == [o EXCEPT !.polls = k, !.last = n]
<1>1. k \in Nat
  BY DEF CodeRow
<1>2. c = [o EXCEPT !.polls = @ + 1, !.last = n]
  OBVIOUS
<1> HIDE DEF k
<1>3. c \in CodeRow /\ c.user = o.user /\ c.status = o.status
  BY <1>1 DEF CodeRow
<1> QED
  BY <1>2, <1>3

\* Requests about codes.
LEMMA PollKeeps ==
  ASSUME AccInv, NEW r \in Callers, (\E d \in DevCodes : Poll(r, d)) \/ PollDecides(r)
  PROVE  AccInv'
<1>1. CASE \E d \in DevCodes : Poll(r, d)
  <2>1. PICK d \in DevCodes : Poll(r, d)
    BY <1>1
  <2> DEFINE x == [NoReq EXCEPT !.op = "poll", !.code = d, !.now = tick, !.row = code[d]]
  <2>2. code[d] \in CodeRow /\ tick \in Int
    BY DEF AccInv, AccTyped
  <2>3. x \in Request /\ x.op = "poll" /\ x.code = d /\ x.row = code[d]
    BY <2>2, AccessConfig, Blank DEF Request
  <2>4. req' = [req EXCEPT ![r] = x] /\ req'[r] = x /\ UNCHANGED <<code, pat, disabled, tick>>
    BY <2>1 DEF Poll, AccInv, AccTyped
  <2> HIDE DEF x
  <2>5. ReqInv(r)'
    BY <2>3, <2>4 DEF ReqInv, Decided
  <2>6. CodesStand /\ code' \in [DevCodes -> CodeRow] /\ \A e \in DevCodes : CodeInv(e)'
    BY <2>4, CodeStep DEF CodesStand, AccInv, AccTyped, CodeInv, Decided
  <2> QED
    BY <2>3, <2>4, <2>5, <2>6, ReqStep
<1>2. CASE PollDecides(r)
  <2> DEFINE x == req[r]
             m == [NoReq EXCEPT !.op = "mint", !.code = x.code, !.user = x.row.user]
  <2>1. x \in Request /\ x.op = "poll" /\ x.code \in DevCodes /\ x.row \in CodeRow
        /\ (x.row.status = "approved" => Decided(x.code) /\ x.row.user = code[x.code].user)
    BY <1>2 DEF PollDecides, AccInv, AccTyped, ReqInv, Request
  <2>2. code[x.code] \in CodeRow
    BY <2>1 DEF AccInv, AccTyped
  <2>3. PICK y \in {NoReq, m} :
          /\ req' = [req EXCEPT ![r] = y] /\ (y # NoReq => x.row.status = "approved")
          /\ MarkExpired(x.code) \/ BumpPoll(x.code, x.now)
          /\ UNCHANGED <<pat, disabled, tick>>
    <3>1. CASE EndRequest(r)
      BY <1>2, <3>1 DEF PollDecides, EndRequest
    <3>2. CASE ~EndRequest(r)
      BY <1>2, <3>2 DEF PollDecides
    <3> QED
      BY <3>1, <3>2
  <2>4. m \in Request /\ m.op = "mint" /\ m.code = x.code /\ m.user = x.row.user
    BY <2>1, AccessConfig, Blank DEF Request, CodeRow
  <2> HIDE DEF m
  <2>5. PICK c \in CodeRow : /\ code' = [code EXCEPT ![x.code] = c] /\ c.user = code[x.code].user
                             /\ \/ c.status = code[x.code].status
                                \/ c.status = "expired" /\ code[x.code].status \in {"pending", "approved"}
    <3>1. CASE MarkExpired(x.code)
      <4> DEFINE c == IF code[x.code].status \in {"pending", "approved"}
                      THEN [code[x.code] EXCEPT !.status = "expired"] ELSE code[x.code]
      <4>1. c \in CodeRow /\ c.user = code[x.code].user
        BY <2>2 DEF CodeRow, CodeStatuses
      <4>2. code' = [code EXCEPT ![x.code] = c]
        BY <3>1 DEF MarkExpired, AccInv, AccTyped
      <4> QED
        BY <2>2, <4>1, <4>2 DEF CodeRow
    <3>2. CASE BumpPoll(x.code, x.now)
      <4> DEFINE o == code[x.code]
                 n == x.now
                 c == [o EXCEPT !.polls = @ + 1, !.last = n]
      <4>1. c \in CodeRow /\ c.user = o.user /\ c.status = o.status
        <5>1. n \in Int /\ o \in CodeRow
          BY <2>1, <2>2 DEF Request
        <5> QED
          BY <5>1, Bumped
      <4>2. code' = [code EXCEPT ![x.code] = c]
        BY <3>2 DEF BumpPoll, AccInv, AccTyped
      <4> QED
        BY <4>1, <4>2
    <3> QED
      BY <2>3, <3>1, <3>2
  <2>6. code' \in [DevCodes -> CodeRow] /\ \A d \in DevCodes :
           /\ code'[d].user = code[d].user
           /\ code'[d].status = code[d].status
              \/ (code'[d].status = "expired" /\ code[d].status \in {"pending", "approved"})
    BY <2>1, <2>5 DEF AccInv, AccTyped
  <2>7. CodesStand /\ \A d \in DevCodes : CodeInv(d)'
    BY <2>3, <2>6, CodeStep DEF CodesStand, Decided, AccInv, CodeInv
  <2>8. y \in Request /\ req'[r] = y
    BY <2>3, <2>4, AccessConfig, Blank DEF AccInv, AccTyped
  <2>9. ReqInv(r)'
    <3>1. CASE y = NoReq
      BY <2>8, <3>1, AccessConfig, Blank DEF ReqInv
    <3>2. CASE y = m
      <4>1. Decided(x.code)' /\ m.user = code'[x.code].user
        <5>1. m # NoReq
          BY <2>4, AccessConfig, Blank
        <5> QED
          BY <2>1, <2>3, <2>4, <2>6, <2>7, <3>2, <5>1 DEF CodesStand
      <4> QED
        BY <2>1, <2>4, <2>8, <3>2, <4>1 DEF ReqInv
    <3> QED
      BY <3>1, <3>2
  <2> QED
    BY <2>3, <2>6, <2>7, <2>8, <2>9, ReqStep
<1> QED
  BY <1>1, <1>2

\* Requests rest, or end.
LEMMA Quits ==
  ASSUME AccInv, AccTyped', CodesStand, PatsStand, tick <= tick', disabled \subseteq disabled',
         \A r \in Callers : req'[r] \in {req[r], NoReq}
  PROVE  \A r \in Callers : ReqInv(r)'
<1> SUFFICES ASSUME NEW r \in Callers PROVE ReqInv(r)'
  OBVIOUS
<1>1. CASE req'[r] = req[r]
  BY <1>1, ReqFrame
<1>2. CASE req'[r] = NoReq
  BY <1>2, AccessConfig, Blank DEF ReqInv
<1> QED
  BY <1>1, <1>2

\* A code is issued, approved, denied or expired.
LEMMA CodeKeeps ==
  ASSUME AccInv, NEW d \in DevCodes, NEW c \in CodeRow, code' = [code EXCEPT ![d] = c],
         UNCHANGED <<pat, disabled, tick>>,
         \/ /\ code[d].status \in {"none", "pending"} /\ c.status # "consumed"
            /\ c.status = "approved" => c.user \in AccUsers
         \/ code[d].status = "approved" /\ c.status = "expired" /\ c.user = code[d].user
         \/ c = code[d],
         req' \in [Callers -> Request], \A r \in Callers : req'[r] \in {req[r], NoReq}
  PROVE  AccInv'
<1>1. code' \in [DevCodes -> CodeRow] /\ code'[d] = c /\ \A e \in DevCodes \ {d} : code'[e] = code[e]
  BY DEF AccInv, AccTyped
<1>2. CodesStand
  BY <1>1 DEF CodesStand, Decided
<1>3. (\A e \in DevCodes : CodeInv(e)') /\ (\A t \in AccTokens : PatInv(t)')
  <2>1. \A e \in DevCodes :
            /\ (code'[e].status = "consumed") <=> (code[e].status = "consumed")
            /\ code'[e].status \in {"approved", "consumed"} => code'[e].user \in AccUsers
            /\ code[e].status = "consumed" => code'[e].user = code[e].user
    BY <1>1 DEF AccInv, CodeInv
  <2> QED
    BY <2>1, CodeStep
<1>4. AccTyped' /\ PatsStand /\ tick <= tick'
  BY <1>1 DEF AccInv, AccTyped, PatsStand
<1>5. \A r \in Callers : ReqInv(r)'
  BY <1>2, <1>4, Quits
<1> QED
  BY <1>3, <1>4, <1>5 DEF AccInv

\* The device grant's other requests.
LEMMA GrantKeeps ==
  ASSUME AccInv,
         \/ \E d \in DevCodes : IssueCode(d) \/ Deny(d)
         \/ \E r \in Callers : \/ ApproveWrites(r)
                               \/ \E d \in DevCodes, u \in AccUsers : ApproveReads(r, d, u)
  PROVE  AccInv'
<1> DEFINE Ended == req' \in [Callers -> Request] /\ \A r \in Callers : req'[r] \in {req[r], NoReq}
<1>0. /\ \A r \in Callers : EndRequest(r) => Ended
      /\ UNCHANGED req => Ended
  BY AccessConfig, Blank DEF EndRequest, AccInv, AccTyped
<1>1. CASE \E d \in DevCodes : IssueCode(d) \/ Deny(d)
  <2>1. PICK d \in DevCodes : IssueCode(d) \/ Deny(d)
    BY <1>1
  <2>2. PICK c \in CodeRow : code' = [code EXCEPT ![d] = c] /\ c.status \in {"pending", "denied"}
    <3>1. CASE IssueCode(d)
      <4>1. [NoCode EXCEPT !.status = "pending", !.until = tick + CodeLife] \in CodeRow
        <5>1. CodeLife \in Int /\ tick \in Int
          BY AccessConfig DEF AccInv, AccTyped
        <5>2. tick + CodeLife \in Int
          BY <5>1
        <5> QED
          BY <5>2, AccessConfig, Blank DEF CodeRow, CodeStatuses
      <4> QED
        BY <3>1, <4>1, AccessConfig, Blank DEF IssueCode, CodeRow
    <3>2. CASE Deny(d)
      <4>1. code[d] \in CodeRow
        BY DEF AccInv, AccTyped
      <4>2. [code[d] EXCEPT !.status = "denied"] \in CodeRow
            /\ [code[d] EXCEPT !.status = "denied"].status = "denied"
        BY <4>1 DEF CodeRow, CodeStatuses
      <4>3. code' = [code EXCEPT ![d] = [code[d] EXCEPT !.status = "denied"]]
        BY <3>2 DEF Deny, AccInv, AccTyped
      <4> QED
        BY <4>2, <4>3
    <3> QED
      BY <2>1, <3>1, <3>2
  <2>3. code[d].status \in {"none", "pending"} /\ UNCHANGED <<pat, disabled, tick, req>>
    BY <2>1 DEF IssueCode, Deny
  <2> QED
    BY <1>0, <2>2, <2>3, CodeKeeps
<1>2. ASSUME NEW r \in Callers, ApproveWrites(r) PROVE AccInv'
  <2> DEFINE x == req[r]
             c == IF Approves(x.code) THEN [code[x.code] EXCEPT !.status = "approved", !.user = x.user]
                  ELSE code[x.code]
  <2>1. x.code \in DevCodes /\ x.user \in AccUsers
    BY <1>2 DEF ApproveWrites, AccInv, ReqInv
  <2>2. code[x.code] \in CodeRow
    BY <2>1 DEF AccInv, AccTyped
  <2>3. c \in CodeRow /\ (c = code[x.code] \/ (code[x.code].status = "pending" /\ c.status = "approved"
                                                /\ c.user = x.user))
    BY <2>1, <2>2 DEF CodeRow, CodeStatuses, Approves
  <2>4. code' = [code EXCEPT ![x.code] = c]
    BY <1>2, <2>1 DEF ApproveWrites, AccInv, AccTyped
  <2>5. Ended /\ UNCHANGED <<pat, disabled, tick>>
    BY <1>0, <1>2 DEF ApproveWrites
  <2> HIDE DEF c
  <2> QED
    BY <2>1, <2>3, <2>4, <2>5, CodeKeeps
<1>3. ASSUME NEW r \in Callers, NEW d \in DevCodes, NEW u \in AccUsers, ApproveReads(r, d, u)
      PROVE  AccInv'
  <2>1. CASE MarkExpired(d) /\ UNCHANGED req
    <3> DEFINE c == IF code[d].status \in {"pending", "approved"}
                    THEN [code[d] EXCEPT !.status = "expired"] ELSE code[d]
    <3>1. code[d] \in CodeRow
      BY DEF AccInv, AccTyped
    <3>2. c \in CodeRow /\ (c = code[d] \/ (code[d].status \in {"pending", "approved"}
                                            /\ c.status = "expired" /\ c.user = code[d].user))
      BY <3>1 DEF CodeRow, CodeStatuses
    <3>3. code' = [code EXCEPT ![d] = c]
      BY <2>1 DEF MarkExpired, AccInv, AccTyped
    <3>4. UNCHANGED <<pat, disabled, tick>> /\ Ended
      BY <1>0, <1>3, <2>1 DEF ApproveReads
    <3> HIDE DEF c
    <3> QED
      BY <3>2, <3>3, <3>4, CodeKeeps
  <2>2. CASE UNCHANGED code
    <3> DEFINE x == [NoReq EXCEPT !.op = "approve", !.code = d, !.user = u]
    <3>1. x \in Request /\ x.op = "approve" /\ x.code = d /\ x.user = u
      BY AccessConfig, Blank DEF Request
    <3> HIDE DEF x
    <3>2. req' = [req EXCEPT ![r] = x] \/ UNCHANGED req
      BY <1>3 DEF ApproveReads, x
    <3>3. UNCHANGED <<pat, disabled, tick>>
      BY <1>3 DEF ApproveReads
    <3>4. CASE req' = [req EXCEPT ![r] = x]
      <4>1. req'[r] = x
        BY <3>4 DEF AccInv, AccTyped
      <4>2. ReqInv(r)' /\ CodesStand /\ code' \in [DevCodes -> CodeRow]
            /\ \A e \in DevCodes : CodeInv(e)'
        BY <2>2, <3>1, <3>3, <4>1, CodeStep DEF ReqInv, CodesStand, Decided, AccInv, AccTyped, CodeInv
      <4> QED
        BY <3>1, <3>3, <3>4, <4>2, ReqStep
    <3>5. CASE UNCHANGED req
      <4>1. code[d] \in CodeRow /\ code' = [code EXCEPT ![d] = code[d]]
        BY <2>2 DEF AccInv, AccTyped
      <4> QED
        BY <1>0, <3>3, <3>5, <4>1, CodeKeeps
    <3> QED
      BY <3>2, <3>4, <3>5
  <2> QED
    BY <1>3, <2>1, <2>2 DEF ApproveReads
<1> QED
  BY <1>1, <1>2, <1>3

\* The minting transaction.
LEMMA MintKeeps ==
  ASSUME AccInv, NEW r \in Callers, MintToken(r)
  PROVE  AccInv'
<1> DEFINE x == req[r]
<1>1. /\ x.op = "mint" /\ x.code \in DevCodes /\ x.user = code[x.code].user /\ code[x.code] \in CodeRow
      /\ req' = [req EXCEPT ![r] = NoReq] /\ UNCHANGED <<disabled, tick>>
  BY DEF MintToken, EndRequest, AccInv, AccTyped, ReqInv
<1>2. req' \in [Callers -> Request] /\ \A q \in Callers : req'[q] \in {req[q], NoReq}
  BY <1>1, AccessConfig, Blank DEF AccInv, AccTyped
<1>3. CASE ~Consumes(x.code)
  <2>1. pat' = pat /\ code' = [code EXCEPT ![x.code] = code[x.code]]
    BY <1>3 DEF MintToken, AccInv, AccTyped
  <2> QED
    BY <1>1, <1>2, <2>1, CodeKeeps
<1>4. CASE Consumes(x.code)
  <2>0. PICK d \in DevCodes : d = x.code
    BY <1>1
  <2> DEFINE c == [code[d] EXCEPT !.status = "consumed"]
             p == [user |-> x.user, until |-> tick + TokenLife, from |-> d, live |-> TRUE]
  <2>1. PICK t \in AccTokens : pat[t] = NoPat /\ pat' = [pat EXCEPT ![t] = p]
                               /\ code' = [code EXCEPT ![d] = c]
    BY <1>4, <2>0 DEF MintToken, AccInv, AccTyped
  <2>2. code[d].status = "approved" /\ x.user \in AccUsers
    BY <1>1, <1>4, <2>0 DEF Consumes, AccInv, CodeInv
  <2>3. c \in CodeRow /\ c.status = "consumed" /\ c.user = x.user
    BY <1>1, <2>0 DEF CodeRow, CodeStatuses
  <2>4. p \in PatRow /\ p.from = d /\ p.user = x.user
    <3>1. TokenLife \in Int /\ tick \in Int
      BY AccessConfig DEF AccInv, AccTyped
    <3>2. tick + TokenLife \in Int
      BY <3>1
    <3> QED
      BY <1>1, <2>0, <2>2, <3>2 DEF PatRow
  <2> HIDE DEF p, c
  <2>5. /\ code' \in [DevCodes -> CodeRow] /\ code'[d] = c
        /\ \A e \in DevCodes \ {d} : code'[e] = code[e]
        /\ pat' \in [AccTokens -> PatRow] /\ pat'[t] = p
        /\ \A s \in AccTokens \ {t} : pat'[s] = pat[s]
    BY <1>1, <2>1, <2>3, <2>4 DEF AccInv, AccTyped
  <2>6. AccTyped'
    BY <1>1, <1>2, <2>5 DEF AccInv, AccTyped
  <2>7. CodesStand
    BY <1>1, <2>0, <2>2, <2>3, <2>5 DEF CodesStand, Decided
  <2>8. PatsStand
    BY <2>1, <2>5 DEF PatsStand
  <2>9. ASSUME NEW e \in DevCodes PROVE CodeInv(e)'
    <3>1. CASE e = d
      <4>1. MintedFor(d) = {}
        BY <1>1, <2>2 DEF AccInv, CodeInv
      <4>2. MintedFor(d)' = {t}
        BY <2>4, <2>5, <4>1 DEF MintedFor
      <4> QED
        BY <2>2, <2>3, <2>4, <2>5, <3>1, <4>2 DEF CodeInv
    <3>2. CASE e # d
      <4>1. pat[t].from # e
        BY <2>1, AccessConfig, Blank DEF Missing
      <4>2. MintedFor(e)' = MintedFor(e)
        BY <2>4, <2>5, <3>2, <4>1 DEF MintedFor
      <4>3. code'[e] = code[e]
        BY <2>5, <3>2
      <4>4. CASE code[e].status = "consumed"
        <5>1. PICK s \in AccTokens : MintedFor(e) = {s} /\ pat[s].user = code[e].user
          BY <4>4 DEF AccInv, CodeInv
        <5>2. s # t
          BY <4>1, <5>1 DEF MintedFor
        <5> QED
          BY <2>5, <4>2, <4>3, <4>4, <5>1, <5>2 DEF AccInv, CodeInv
      <4> QED
        BY <4>2, <4>3, <4>4 DEF AccInv, CodeInv
    <3> QED
      BY <3>1, <3>2
  <2>10. \A s \in AccTokens : PatInv(s)'
    BY <2>2, <2>4, <2>5 DEF AccInv, PatInv
  <2>11. \A q \in Callers : ReqInv(q)'
    <3>1. tick <= tick'
      BY <1>1 DEF AccInv, AccTyped
    <3> QED
      BY <1>1, <1>2, <2>6, <2>7, <2>8, <3>1, Quits
  <2> QED
    BY <2>6, <2>9, <2>10, <2>11 DEF AccInv
<1> QED
  BY <1>3, <1>4

\* Tokens made and deleted outside the grant; time, evictions, restarts.
LEMMA TokensKeep ==
  ASSUME AccInv,
         \/ \E t \in AccTokens : \/ DeletePAT(t) \/ patRevokeCommand(t) \/ Evict(t)
                                 \/ \E u \in AccUsers : CreatePAT(t, u) \/ patMintCommand(t, u)
         \/ AccRestart \/ AccTick
  PROVE  AccInv'
<1>1. code' = code /\ disabled' = disabled
  BY DEF DeletePAT, patRevokeCommand, Evict, CreatePAT, patMintCommand, AccRestart, AccTick
<1>2. tick' \in Nat /\ tick <= tick'
  BY DEF DeletePAT, patRevokeCommand, Evict, CreatePAT, patMintCommand, AccRestart, AccTick,
     AccInv, AccTyped
<1>3. req' \in [Callers -> Request] /\ \A r \in Callers : req'[r] \in {req[r], NoReq}
  <2>1. req' = req \/ req' = [r \in Callers |-> NoReq]
    BY DEF DeletePAT, patRevokeCommand, Evict, CreatePAT, patMintCommand, AccRestart, AccTick
  <2> QED
    BY <2>1, AccessConfig, Blank DEF AccInv, AccTyped
<1> DEFINE PatsGood == /\ pat' \in [AccTokens -> PatRow] /\ PatsStand
                       /\ \A t \in AccTokens : PatInv(t)' /\ pat'[t].from = pat[t].from
<1>4. ASSUME pat' = pat PROVE PatsGood
  BY <1>4 DEF PatsStand, AccInv, AccTyped, PatInv
<1>5. ASSUME NEW t \in AccTokens, pat[t].live, pat' = [pat EXCEPT ![t].live = FALSE]
      PROVE  PatsGood
  <2> DEFINE p == [pat[t] EXCEPT !.live = FALSE]
  <2>1. pat[t] # NoPat /\ pat[t] \in PatRow /\ pat[t].user \in AccUsers
    BY <1>5, AccessConfig, Blank DEF AccInv, AccTyped, PatInv
  <2>2. p \in PatRow /\ p.user = pat[t].user /\ p.until = pat[t].until /\ p.from = pat[t].from
    BY <2>1 DEF PatRow
  <2>3. p # NoPat
    BY <2>1, <2>2, AccessConfig, Blank
  <2>4. pat' = [pat EXCEPT ![t] = p]
    BY <1>5 DEF AccInv, AccTyped
  <2> HIDE DEF p
  <2> QED
    BY <2>1, <2>2, <2>3, <2>4 DEF PatsStand, AccInv, AccTyped, PatInv
<1>6. ASSUME NEW t \in AccTokens, NEW u \in AccUsers, pat[t] = NoPat,
             pat' = [pat EXCEPT ![t] = [user |-> u, until |-> tick + TokenLife,
                                        from |-> Missing, live |-> TRUE]]
      PROVE  PatsGood
  <2> DEFINE p == [user |-> u, until |-> tick + TokenLife, from |-> Missing, live |-> TRUE]
  <2>1. tick + TokenLife \in Int
    <3>1. TokenLife \in Int /\ tick \in Int
      BY AccessConfig DEF AccInv, AccTyped
    <3> QED
      BY <3>1
  <2>2. p \in PatRow /\ p.user = u /\ p.from = Missing
    BY <2>1 DEF PatRow
  <2>3. NoPat.from = Missing
    BY AccessConfig, Blank
  <2> HIDE DEF p
  <2>4. pat' = [pat EXCEPT ![t] = p]
    BY <1>6 DEF p
  <2> QED
    BY <1>6, <2>2, <2>3, <2>4 DEF PatsStand, AccInv, AccTyped, PatInv
<1>7. PatsGood
  BY <1>4, <1>5, <1>6 DEF DeletePAT, patRevokeCommand, Evict, CreatePAT, patMintCommand, AccRestart,
     AccTick
<1>8. AccTyped' /\ CodesStand
  BY <1>1, <1>2, <1>3, <1>7 DEF AccInv, AccTyped, CodesStand, Decided
<1>9. \A r \in Callers : ReqInv(r)'
  BY <1>1, <1>2, <1>3, <1>7, <1>8, Quits
<1>10. \A d \in DevCodes : CodeInv(d)'
  BY <1>1, <1>7, PatStep
<1> QED
  BY <1>7, <1>8, <1>9, <1>10 DEF AccInv

\* The guard: a token that was dead when the request came never gets past the
\* verification, and a disabled owner is seen at the end of it.
LEMMA GuardKeeps ==
  ASSUME AccInv, NEW r \in Callers,
         \/ \E t \in AccTokens : Authenticate(r, t)
         \/ BcryptMatched(r) \/ OwnerChecked(r) \/ Served(r)
  PROVE  AccInv'
<1>1. UNCHANGED <<code, pat, disabled, tick>>
  BY DEF Authenticate, BcryptMatched, OwnerChecked, Served
<1>2. /\ code' \in [DevCodes -> CodeRow] /\ CodesStand
      /\ \A d \in DevCodes : CodeInv(d)'
  BY <1>1, CodeStep DEF CodesStand, Decided, AccInv, AccTyped, CodeInv
<1>3. ASSUME NEW x \in Request, req' = [req EXCEPT ![r] = x], ReqInv(r)'
      PROVE  AccInv'
  BY <1>1, <1>2, <1>3, ReqStep
<1>4. CASE EndRequest(r)
  <2>1. NoReq \in Request /\ req' = [req EXCEPT ![r] = NoReq] /\ req'[r] = NoReq
    BY <1>4, AccessConfig, Blank DEF EndRequest, AccInv, AccTyped
  <2>2. ReqInv(r)'
    BY <2>1, AccessConfig, Blank DEF ReqInv
  <2> QED
    BY <1>3, <2>1, <2>2
<1>5. ASSUME NEW t \in AccTokens, Authenticate(r, t) PROVE AccInv'
  <2> DEFINE dead == ~pat[t].live \/ Expired(pat[t], tick)
             barred == pat[t].user \in disabled
             y == [NoReq EXCEPT !.pat = t, !.dead = dead, !.barred = barred]
             x(op) == [y EXCEPT !.op = op]
  <2>1. pat[t] # NoPat
    BY <1>5 DEF Authenticate
  <2>2. dead \in BOOLEAN /\ barred \in BOOLEAN
    OBVIOUS
  <2>3. \/ EndRequest(r)
        \/ ~dead /\ req' = [req EXCEPT ![r] = x("owner")]
        \/ pat[t].live /\ req' = [req EXCEPT ![r] = x("verify")]
    BY <1>5 DEF Authenticate, EndRequest, CacheGet, RecordLives
  <2>4. pat[t].live /\ dead => Expired(pat[t], tick)
    OBVIOUS
  <2>5. barred => pat[t].user \in disabled
    OBVIOUS
  <2> HIDE DEF dead, barred
  <2>6. y \in Request /\ y.pat = t /\ y.dead = dead /\ y.barred = barred
    BY <2>2, AccessConfig, Blank DEF Request
  <2> HIDE DEF y
  <2>7. \A op \in {"owner", "verify"} :
           x(op) \in Request /\ x(op).op = op /\ x(op).pat = t /\ x(op).dead = dead
           /\ x(op).barred = barred
    BY <2>6 DEF Request
  <2> HIDE DEF x
  <2>8. ASSUME NEW op \in {"owner", "verify"}, req' = [req EXCEPT ![r] = x(op)],
               op = "owner" => ~dead, op = "verify" => pat[t].live
        PROVE  AccInv'
    <3>1. PICK z \in Request : z = x(op) /\ z.op = op /\ z.pat = t /\ z.dead = dead /\ z.barred = barred
      BY <2>7
    <3>2. req'[r] = z /\ req' = [req EXCEPT ![r] = z]
      BY <2>8, <3>1 DEF AccInv, AccTyped
    <3>3. ReqInv(r)'
      BY <1>1, <2>1, <2>4, <2>5, <2>8, <3>1, <3>2 DEF ReqInv
    <3> QED
      BY <1>3, <3>2, <3>3
  <2> QED
    BY <1>4, <2>3, <2>8
<1>6. ASSUME NEW op \in {"owner", "accepted"}, req' = [req EXCEPT ![r].op = op],
             \/ req[r].op = "verify" /\ op = "owner" /\ ~Expired(pat[req[r].pat], tick)
             \/ req[r].op = "owner" /\ op = "accepted" /\ pat[req[r].pat].user \notin disabled
      PROVE  AccInv'
  <2>1. PICK x \in Request : /\ x = [req[r] EXCEPT !.op = op] /\ x.op = op
                             /\ x.pat = req[r].pat /\ x.dead = req[r].dead /\ x.barred = req[r].barred
    <3>1. req[r] \in Request
      BY DEF AccInv, AccTyped
    <3>2. [req[r] EXCEPT !.op = op] \in Request
      BY <3>1 DEF Request
    <3> QED
      BY <3>1, <3>2 DEF Request
  <2>2. req' = [req EXCEPT ![r] = x] /\ req'[r] = x
    BY <1>6, <2>1 DEF AccInv, AccTyped
  <2>3. ReqInv(r)
    BY DEF AccInv
  <2>4. ReqInv(r)'
    BY <1>1, <1>6, <2>1, <2>2, <2>3 DEF ReqInv
  <2> QED
    BY <1>3, <2>2, <2>4
<1> QED
  BY <1>4, <1>5, <1>6 DEF BcryptMatched, OwnerChecked, Served, Step

\* An administrator disables a user, or lets one in again.
LEMMA DisableKeeps ==
  ASSUME AccInv, NEW u \in AccUsers, NEW off \in BOOLEAN, SetDisabled(u, off)
  PROVE  AccInv'
<1>1. UNCHANGED <<code, pat, tick>>
  BY DEF SetDisabled
<1>2. CodesStand /\ PatsStand /\ tick <= tick'
  BY <1>1 DEF CodesStand, PatsStand, Decided, AccInv, AccTyped
<1>3. ASSUME NEW r \in Callers
      PROVE  /\ req'[r] \in Request
             /\ \/ /\ req'[r] = req[r]
                   /\ (req[r].pat \in AccTokens /\ pat[req[r].pat].user \in disabled
                         => pat[req[r].pat].user \in disabled')
                \/ /\ req'[r] = [req[r] EXCEPT !.barred = FALSE]
  <2>1. req[r] \in Request /\ [req[r] EXCEPT !.barred = FALSE] \in Request
    BY DEF AccInv, AccTyped, Request
  <2>2. req'[r] = IF ~off /\ req[r].pat # Missing /\ pat[req[r].pat].user = u
                  THEN [req[r] EXCEPT !.barred = FALSE] ELSE req[r]
    BY DEF SetDisabled
  <2>3. disabled' = IF off THEN disabled \cup {u} ELSE disabled \ {u}
    BY DEF SetDisabled
  <2>4. req[r].pat \in AccTokens => req[r].pat # Missing
    BY AccessConfig DEF Missing
  <2> QED
    BY <2>1, <2>2, <2>3, <2>4
<1>4. AccTyped'
  BY <1>1, <1>3 DEF AccInv, AccTyped, SetDisabled
<1>5. ASSUME NEW r \in Callers PROVE ReqInv(r)'
  <2>1. CASE req'[r] = req[r] /\ (req[r].pat \in AccTokens /\ pat[req[r].pat].user \in disabled
                                    => pat[req[r].pat].user \in disabled')
    BY <1>2, <1>4, <2>1, ReqFrame
  <2>2. CASE req'[r] = [req[r] EXCEPT !.barred = FALSE]
    <3>1. req[r] \in Request
      BY DEF AccInv, AccTyped
    <3>2. /\ req'[r].op = req[r].op /\ req'[r].code = req[r].code /\ req'[r].row = req[r].row
          /\ req'[r].user = req[r].user /\ req'[r].pat = req[r].pat /\ req'[r].dead = req[r].dead
          /\ req'[r].barred = FALSE
      BY <2>2, <3>1 DEF Request
    <3> QED
      BY <1>1, <3>2 DEF ReqInv, AccInv, Decided
  <2> QED
    BY <1>3, <2>1, <2>2
<1>6. (\A d \in DevCodes : CodeInv(d)') /\ (\A t \in AccTokens : PatInv(t)')
  BY <1>1, CodeStep DEF AccInv, CodeInv
<1> QED
  BY <1>4, <1>5, <1>6 DEF AccInv

\* The invariant holds at first.
LEMMA AccStarts == AccInit => AccInv
<1> SUFFICES ASSUME AccInit PROVE AccInv
  OBVIOUS
<1>1. AccTyped
  BY AccessConfig, Blank DEF AccInit, AccTyped
<1>2. \A d \in DevCodes : MintedFor(d) = {}
  BY AccessConfig, Blank DEF AccInit, MintedFor, Missing
<1> QED
  BY <1>1, <1>2, AccessConfig, Blank DEF AccInit, AccInv, CodeInv, PatInv, ReqInv

\* ... and every step keeps it.
LEMMA AccKept == AccInv /\ [AccNext]_accVars => AccInv'
<1>1. ASSUME AccInv, AccNext PROVE AccInv'
  BY <1>1, PollKeeps, GrantKeeps, MintKeeps, TokensKeep, GuardKeeps, DisableKeeps DEF AccNext
<1>2. ASSUME AccInv, UNCHANGED accVars PROVE AccInv'
  <2>1. AccTyped' /\ CodesStand /\ PatsStand /\ tick <= tick' /\ UNCHANGED <<code, pat, tick, disabled, req>>
    BY <1>2 DEF accVars, AccInv, AccTyped, CodesStand, PatsStand, Decided
  <2>2. \A r \in Callers : ReqInv(r)'
    BY <1>2, <2>1, Quits
  <2>3. (\A d \in DevCodes : CodeInv(d)') /\ (\A t \in AccTokens : PatInv(t)')
    BY <1>2, <2>1, CodeStep DEF AccInv, CodeInv
  <2> QED
    BY <2>1, <2>2, <2>3 DEF AccInv
<1> QED
  BY <1>1, <1>2

\* A device code yields one token, for the user who approved it, whatever polls
\* and approvals run at once; a token that was deleted or had expired, or whose
\* owner was disabled, before a request came does not authenticate it, whatever
\* the cache and a slow verification say.
THEOREM TokensAlwaysSound == AccSpec => []TokensSound
<1>1. AccInv => TokensSound
  <2> SUFFICES ASSUME AccInv PROVE TokensSound
    OBVIOUS
  <2>1. ASSUME NEW d \in DevCodes
        PROVE  /\ Cardinality(MintedFor(d)) = IF code[d].status = "consumed" THEN 1 ELSE 0
               /\ \A t \in MintedFor(d) : pat[t].user = code[d].user /\ code[d].user # NoUser
    <3>1. CASE code[d].status = "consumed"
      <4>1. PICK t \in AccTokens : MintedFor(d) = {t} /\ pat[t].user = code[d].user
        BY <3>1 DEF AccInv, CodeInv
      <4>2. code[d].user \in AccUsers
        BY <3>1 DEF AccInv, CodeInv
      <4> QED
        BY <3>1, <4>1, <4>2, FS_Singleton, AccessConfig
    <3>2. CASE code[d].status # "consumed"
      <4>1. MintedFor(d) = {}
        BY <3>2 DEF AccInv, CodeInv
      <4> QED
        BY <3>2, <4>1, FS_EmptySet
    <3> QED
      BY <3>1, <3>2
  <2>2. RevokedRefused
    BY DEF AccInv, ReqInv, RevokedRefused
  <2> QED
    BY <2>1, <2>2 DEF TokensSound, OneTokenPerCode
<1> QED
  BY <1>1, AccStarts, AccKept, PTL DEF AccSpec

\* The cache, the disabled users and the clock keep their bounds.
AccBound ==
    /\ cached \in [AccTokens -> Missing .. LastTick]
    /\ disabled \subseteq AccUsers /\ tick \in 0 .. LastTick
LEMMA AccBoundKept == AccBound /\ [AccNext]_accVars => AccBound'
<1> SUFFICES ASSUME AccBound, [AccNext]_accVars PROVE AccBound'
  OBVIOUS
<1> USE AccessConfig DEF AccBound, Missing
<1>1. ASSUME NEW d \in DevCodes, IssueCode(d) \/ Deny(d) PROVE AccBound'
  BY <1>1 DEF IssueCode, Deny
<1>2. ASSUME NEW r \in Callers,
             \/ \E d \in DevCodes : Poll(r, d) \/ \E u \in AccUsers : ApproveReads(r, d, u)
             \/ PollDecides(r) \/ MintToken(r) \/ ApproveWrites(r)
             \/ OwnerChecked(r) \/ Served(r)
      PROVE  AccBound'
  <2>1. UNCHANGED <<cached, disabled, tick>>
    <3>1. CASE \E d \in DevCodes : Poll(r, d) \/ \E u \in AccUsers : ApproveReads(r, d, u)
      <4>1. ASSUME NEW d \in DevCodes, Poll(r, d) PROVE UNCHANGED <<cached, disabled, tick>>
        BY <4>1 DEF Poll
      <4>2. ASSUME NEW d \in DevCodes, NEW u \in AccUsers, ApproveReads(r, d, u)
            PROVE  UNCHANGED <<cached, disabled, tick>>
        BY <4>2 DEF ApproveReads
      <4> QED
        BY <3>1, <4>1, <4>2
    <3>2. CASE PollDecides(r)
      BY <3>2 DEF PollDecides
    <3>3. CASE MintToken(r)
      BY <3>3 DEF MintToken
    <3>4. CASE ApproveWrites(r) \/ OwnerChecked(r) \/ Served(r)
      BY <3>4 DEF ApproveWrites, OwnerChecked, Served
    <3> QED
      BY <1>2, <3>1, <3>2, <3>3, <3>4
  <2> QED
    BY <2>1
<1>3. ASSUME NEW r \in Callers, NEW t \in AccTokens, Authenticate(r, t) PROVE AccBound'
  BY <1>3 DEF Authenticate
<1>4. ASSUME NEW r \in Callers, BcryptMatched(r) PROVE AccBound'
  BY <1>4 DEF BcryptMatched
<1>5. ASSUME NEW t \in AccTokens,
             \/ DeletePAT(t) \/ patRevokeCommand(t) \/ Evict(t)
             \/ \E u \in AccUsers : CreatePAT(t, u) \/ patMintCommand(t, u)
      PROVE  AccBound'
  BY <1>5 DEF DeletePAT, patRevokeCommand, Evict, CreatePAT, patMintCommand
<1>6. ASSUME NEW u \in AccUsers, NEW off \in BOOLEAN, SetDisabled(u, off) PROVE AccBound'
  BY <1>6 DEF SetDisabled
<1>7. CASE AccRestart \/ AccTick \/ UNCHANGED accVars
  BY <1>7 DEF AccRestart, AccTick, accVars
<1> QED
  BY <1>1, <1>2, <1>3, <1>4, <1>5, <1>6, <1>7 DEF AccNext

\* Every row, every cache entry and every request keeps its type.
LEMMA AccTypesHold == AccSpec => []AccTypeOK
<1>1. AccInit => AccBound
  BY AccessConfig DEF AccInit, AccBound, Missing
<1>2. AccInv /\ AccBound => AccTypeOK
  <2> SUFFICES ASSUME AccInv, AccBound PROVE AccTypeOK
    OBVIOUS
  <2>1. AccTyped
    BY DEF AccInv
  <2> QED
    BY <2>1 DEF AccTyped, CodeRow, PatRow, Request, AccBound, AccTypeOK
<1> QED
  BY <1>1, <1>2, AccStarts, AccKept, AccBoundKept, PTL DEF AccSpec

-----------------------------------------------------------------------------
(* Conversion leases.                                                        *)

IdOrNone  == 0 .. MaxCalls
PaperRow  == [cols : SUBSET CatKeys, into : IdOrNone, default : IdOrNone,
              status : {"none", "ready", "failed", "merged"}]
AssetRow  == [owner : IdOrNone, source : {"none", "arxiv", "published"}, md : BOOLEAN,
              lease : Nat, expired : BOOLEAN]
CallRec   == [at : {"unborn", "found", "moved", "raced", "attach", "mark", "done", "failed"},
              op : {"none", "resolve", "arxiv", "published", "md"}, ref : SUBSET CatKeys,
              cands : SUBSET Ids, keys : SUBSET CatKeys, moved : SUBSET Ids, paper : IdOrNone,
              job : IdOrNone]
LeaseHeld == [op : {"none", "claim", "held", "release"}, id : Nat, paper : IdOrNone,
              asset : IdOrNone]
CatTyped ==
    /\ ident \in [CatKeys -> IdOrNone] /\ paper \in [Ids -> PaperRow]
    /\ asset \in [Ids -> AssetRow] /\ call \in [Ids -> CallRec]
    /\ leases \in Nat /\ holding \in [LeaseHolders -> LeaseHeld]

Exists(a) == asset[a].owner # 0
\* A call inserts its asset at most once, at its end; what it moves is there.
CallInv(c) ==
    /\ call[c].at \in {"unborn", "found", "moved", "raced", "attach"} => ~Exists(c)
    /\ call[c].at \in {"moved", "attach", "mark"} => call[c].paper \in Ids
    /\ \A a \in call[c].moved : Exists(a)
PaperInv(p) == paper[p].default # 0 => Exists(paper[p].default)
\* Leases have numbers of their own, and so have their holders.
AssetInv(a) ==
    /\ asset[a].lease \in 0 .. leases
    /\ \A b \in Ids : asset[a].lease # 0 /\ asset[b].lease = asset[a].lease => a = b
HolderInv(h) ==
    /\ holding[h].op \in {"claim", "release"} => holding[h].paper \in Ids
    /\ holding[h].op \in {"held", "release"} =>
          /\ holding[h].id \in 1 .. leases
          /\ \A g \in LeaseHolders :
                holding[g].op \in {"held", "release"} /\ holding[g].id = holding[h].id => g = h
    /\ holding[h].op = "held" =>
          LET a == holding[h].asset
          IN  /\ a \in Ids /\ Exists(a)
              /\ asset[a].md \/ (asset[a].lease = holding[h].id /\ ~asset[a].expired)

CatInv ==
    /\ CatTyped
    /\ \A c \in Ids : CallInv(c)
    /\ \A p \in Ids : PaperInv(p)
    /\ \A a \in Ids : AssetInv(a)
    /\ \A h \in LeaseHolders : HolderInv(h)

\* A nonempty set of numbers has a least one, a nonempty set of ids a last one.
LEMMA Least ==
  ASSUME NEW S \in SUBSET Nat, S # {}
  PROVE  \E x \in S : \A y \in S : x <= y
<1>1. \A x, y \in S : x <= y \/ y < x
  OBVIOUS
<1>2. PICK x \in S : \A y \in S : ~(<<y, x>> \in OpToRel(<, Nat))
  BY NatLessThanWellFounded, WFMin
<1>3. \A y \in S : x <= y
  BY <1>1, <1>2 DEF OpToRel
<1> QED
  BY <1>3
\* Min and Max of a nonempty set of ids are members of it.
LEMMA Extremes ==
  ASSUME NEW S \in SUBSET (0 .. MaxCalls), S # {}
  PROVE  Min(S) \in S /\ Max(S) \in S
<1>1. MaxCalls \in Nat
  BY CatalogConfig
<1>2. \E x \in S : \A y \in S : x <= y
  BY <1>1, Least
<1>3. \E x \in S : \A y \in S : x >= y
  <2> DEFINE T == {MaxCalls - x : x \in S}
  <2>1. \A x \in S : MaxCalls - x \in Nat /\ x \in Int
    BY <1>1
  <2>2. T \in SUBSET Nat /\ T # {}
    BY <2>1
  <2> HIDE DEF T
  <2>3. PICK t \in T : \A u \in T : t <= u
    BY <2>2, Least
  <2>4. PICK x \in S : t = MaxCalls - x
    BY <2>3 DEF T
  <2>5. \A y \in S : MaxCalls - y \in T
    BY DEF T
  <2>6. ASSUME NEW y \in S PROVE x >= y
    BY <1>1, <2>1, <2>3, <2>4, <2>5
  <2> QED
    BY <2>6
<1> QED
  BY <1>2, <1>3 DEF Min, Max

\* Assets stay, markdown stays, and so does the lease of an asset without it.
LeasesRest ==
    /\ leases' = leases /\ holding' = holding
    /\ \A a \in Ids :
          /\ asset'[a].lease \in {0, asset[a].lease}
          /\ Exists(a) =>
                /\ Exists(a)' /\ (asset[a].md => asset'[a].md)
                /\ asset'[a].md
                   \/ (asset'[a].lease = asset[a].lease /\ asset'[a].expired = asset[a].expired)
\* A step that leaves leases alone keeps the invariant if its call and its paper do.
LEMMA LeasesFrame ==
  ASSUME CatInv, CatTyped', LeasesRest,
         \A c \in Ids : call'[c] # call[c] \/ (Exists(c)' # Exists(c)) => CallInv(c)',
         \A p \in Ids : paper'[p].default # paper[p].default => PaperInv(p)'
  PROVE  CatInv'
<1>1. \A a \in Ids : AssetInv(a)'
  <2> SUFFICES ASSUME NEW a \in Ids PROVE AssetInv(a)'
    OBVIOUS
  <2>1. asset'[a].lease \in 0 .. leases'
    BY DEF CatInv, AssetInv, LeasesRest, CatTyped
  <2>2. ASSUME NEW b \in Ids, asset'[a].lease # 0, asset'[b].lease = asset'[a].lease PROVE a = b
    <3>1. asset[a].lease # 0 /\ asset[b].lease = asset[a].lease
      BY <2>2 DEF LeasesRest
    <3> QED
      BY <3>1 DEF CatInv, AssetInv
  <2> QED
    BY <2>1, <2>2 DEF AssetInv
<1>2. ASSUME NEW h \in LeaseHolders PROVE HolderInv(h)'
  BY DEF CatInv, HolderInv, LeasesRest
<1>3. ASSUME NEW c \in Ids PROVE CallInv(c)'
  <2>1. CASE call'[c] = call[c] /\ Exists(c)' = Exists(c)
    <3>1. call[c].moved \subseteq Ids
      BY DEF CatInv, CatTyped, CallRec
    <3> QED
      BY <2>1, <3>1 DEF CatInv, CallInv, LeasesRest
  <2> QED
    BY <2>1
<1>4. ASSUME NEW p \in Ids PROVE PaperInv(p)'
  <2>1. CASE paper'[p].default = paper[p].default
    <3>1. paper[p].default # 0 => paper[p].default \in Ids
      BY CatalogConfig DEF CatInv, CatTyped, PaperRow, IdOrNone, Ids
    <3> QED
      BY <2>1, <3>1 DEF CatInv, PaperInv, LeasesRest
  <2> QED
    BY <2>1
<1> QED
  BY <1>1, <1>2, <1>3, <1>4 DEF CatInv

\* A call goes on, with the tables of assets and leases as they are.
LEMMA CallKeeps ==
  ASSUME CatInv, NEW c \in Ids, NEW x \in CallRec, call' = [call EXCEPT ![c] = x],
         ident' \in [CatKeys -> IdOrNone], paper' \in [Ids -> PaperRow],
         \A p \in Ids : paper'[p].default \in {0, paper[p].default},
         UNCHANGED <<asset, leases, holding>>,
         x.at \in {"unborn", "found", "moved", "raced", "attach"} => ~Exists(c),
         x.at \in {"moved", "attach", "mark"} => x.paper \in Ids,
         \A a \in x.moved : Exists(a)
  PROVE  CatInv'
<1>1. CatTyped' /\ call'[c] = x /\ \A d \in Ids \ {c} : call'[d] = call[d]
  BY DEF CatInv, CatTyped
<1>2. LeasesRest
  BY DEF LeasesRest, Exists
<1>3. CallInv(c)'
  BY <1>1 DEF CallInv, Exists
<1>4. \A d \in Ids : call'[d] # call[d] \/ (Exists(d)' # Exists(d)) => CallInv(d)'
  BY <1>1, <1>3 DEF Exists
<1>5. \A p \in Ids : paper'[p].default # paper[p].default => PaperInv(p)'
  BY DEF PaperInv
<1> QED
  BY <1>1, <1>2, <1>4, <1>5, LeasesFrame


\* The records a call leaves behind.
LEMMA CallRecords ==
  ASSUME CatInv, NEW c \in Ids
  PROVE  /\ call[c] \in CallRec /\ NoCall \in CallRec /\ NoCall.moved = {} /\ NoCall.paper = 0
         /\ \A at \in {"done", "failed"} : Over(c, at) =>
               \E x \in CallRec : call' = [call EXCEPT ![c] = x] /\ x.at = at /\ x.moved = {}
         /\ \A p \in Ids : Returns(c, p) =>
               \E x \in CallRec : /\ call' = [call EXCEPT ![c] = x] /\ x.moved = {}
                                  /\ x.at = "done" \/ (x.at = "attach" /\ x.paper = p)
<1>1. 0 \in IdOrNone /\ \A p \in Ids : p \in IdOrNone
  BY CatalogConfig DEF IdOrNone, Ids
<1>2. call[c] \in CallRec /\ NoCall \in CallRec /\ NoCall.moved = {} /\ NoCall.paper = 0
  BY <1>1 DEF CatInv, CatTyped, NoCall, CallRec
<1>3. ASSUME NEW at \in {"done", "failed"}, Over(c, at)
      PROVE  \E x \in CallRec : call' = [call EXCEPT ![c] = x] /\ x.at = at /\ x.moved = {}
  <2> DEFINE x == [NoCall EXCEPT !.at = at, !.job = call[c].job]
  <2>1. x \in CallRec /\ x.at = at /\ x.moved = {}
    BY <1>2 DEF CallRec
  <2> QED
    BY <1>3, <2>1 DEF Over, CallNow
<1>4. ASSUME NEW p \in Ids, Returns(c, p)
      PROVE  \E x \in CallRec : /\ call' = [call EXCEPT ![c] = x] /\ x.moved = {}
                                /\ x.at = "done" \/ (x.at = "attach" /\ x.paper = p)
  <2> DEFINE x == [NoCall EXCEPT !.at = "attach", !.op = call[c].op, !.paper = p, !.job = call[c].job]
  <2>1. x \in CallRec /\ x.at = "attach" /\ x.moved = {} /\ x.paper = p
    BY <1>1, <1>2 DEF CallRec
  <2>2. Over(c, "done") \/ call' = [call EXCEPT ![c] = x]
    BY <1>4 DEF Returns, CallNow
  <2> QED
    BY <1>3, <2>1, <2>2
<1> QED
  BY <1>2, <1>3, <1>4

\* Candidates are papers; so is the survivor.
LEMMA CandidateIds ==
  ASSUME CatInv, NEW r \in SUBSET CatKeys
  PROVE  Candidates(r) \subseteq Ids
BY DEF Candidates, CatInv, CatTyped, Ids, IdOrNone
\* The survivor of a merge is one of its candidates.
LEMMA SurvivorIn ==
  ASSUME NEW S \in SUBSET Ids, S # {}, NEW s \in Survivors(S)
  PROVE  s \in S
<1>1. S \in SUBSET (0 .. MaxCalls)
  BY CatalogConfig DEF Ids
<1> QED
  BY <1>1, Extremes DEF Survivors

\* ResolveOrMint, up to its commit, keeps the invariant.
LEMMA ResolveKeeps ==
  ASSUME CatInv, NEW c \in Ids,
         \/ \E r \in SUBSET CatKeys, op \in {"resolve", "arxiv", "published", "md"}, j \in IdOrNone :
               Resolves(c, r, op, j)
         \/ MergeInto(c) \/ LookupPaper(c) \/ CatalogUnavailable(c) \/ Mint(c)
  PROVE  CatInv'
<1>1. call[c] \in CallRec /\ CallInv(c) /\ ident \in [CatKeys -> IdOrNone] /\ paper \in [Ids -> PaperRow]
  BY DEF CatInv, CatTyped
<1>2. CASE \E r \in SUBSET CatKeys, op \in {"resolve", "arxiv", "published", "md"}, j \in IdOrNone :
              Resolves(c, r, op, j)
  <2>1. PICK r \in SUBSET CatKeys, op \in {"resolve", "arxiv", "published", "md"}, j \in IdOrNone :
           Resolves(c, r, op, j)
    BY <1>2
  <2> DEFINE x == [NoCall EXCEPT !.at = "found", !.op = op, !.ref = r, !.job = j,
                                 !.cands = Candidates(r)]
  <2>2. x \in CallRec /\ x.at = "found" /\ x.moved = {}
    BY CallRecords, CandidateIds DEF CallRec
  <2>3. call' = [call EXCEPT ![c] = x] /\ UNCHANGED <<ident, paper, asset, leases, holding>>
        /\ call[c].at = "unborn"
    BY <2>1 DEF Resolves, CallNow
  <2> HIDE DEF x
  <2>4. ~Exists(c)
    BY <1>1, <2>3 DEF CallInv
  <2> QED
    BY <1>1, <2>2, <2>3, <2>4, CallKeeps
<1>3. ASSUME UNCHANGED <<ident, paper, asset, leases, holding>>, CallTo(c, "raced"), call[c].at = "found"
      PROVE  CatInv'
  <2> DEFINE x == [call[c] EXCEPT !.at = "raced"]
  <2>1. x \in CallRec /\ x.at = "raced" /\ x.moved = call[c].moved
    BY <1>1 DEF CallRec
  <2>2. call' = [call EXCEPT ![c] = x]
    BY <1>3 DEF CallTo, CallNow
  <2> HIDE DEF x
  <2> QED
    BY <1>1, <1>3, <2>1, <2>2, CallKeeps DEF CallInv
<1>4. CASE MergeInto(c)
  <2>1. PICK s \in Survivors(call[c].cands) :
          LET losers == call[c].cands \ {s}
              keys == {k \in CatKeys : ident[k] \in losers}
              as == AssetsOf(losers)
          IN CallTo(c, "raced") \/ CallNow(c, [call[c] EXCEPT !.at = "moved", !.paper = s,
                                                             !.keys = keys, !.moved = as])
    BY <1>4 DEF MergeInto
  <2>2. s \in Ids /\ call[c].at = "found" /\ UNCHANGED <<ident, paper, asset, leases, holding>>
    BY <1>1, <1>4, <2>1, SurvivorIn DEF MergeInto, CallRec
  <2> DEFINE losers == call[c].cands \ {s}
             keys == {k \in CatKeys : ident[k] \in losers}
             as == AssetsOf(losers)
             x == [call[c] EXCEPT !.at = "moved", !.paper = s, !.keys = keys, !.moved = as]
  <2>3. as \subseteq Ids /\ \A a \in as : Exists(a)
    BY <1>1, CatalogConfig DEF AssetsOf, Exists, CallRec, Ids
  <2>4. s \in IdOrNone /\ keys \subseteq CatKeys
    BY <2>2, CatalogConfig DEF Ids, IdOrNone
  <2> HIDE DEF keys, as
  <2>5. x \in CallRec /\ x.at = "moved" /\ x.paper = s /\ x.moved = as
    BY <1>1, <2>3, <2>4 DEF CallRec
  <2>6. CASE call' = [call EXCEPT ![c] = x]
    <3> HIDE DEF x
    <3> QED
      BY <1>1, <2>2, <2>3, <2>5, <2>6, CallKeeps DEF CallInv
  <2> QED
    BY <1>3, <2>1, <2>2, <2>6 DEF CallNow, keys, as
<1>5. CASE CatalogUnavailable(c)
  BY <1>1, <1>5, CallRecords, CallKeeps DEF CatalogUnavailable
<1>6. ASSUME NEW p \in Ids, Returns(c, p), call[c].at \in {"found", "raced"},
             ident' \in [CatKeys -> IdOrNone], paper' \in [Ids -> PaperRow],
             \A q \in Ids : paper'[q].default \in {0, paper[q].default},
             UNCHANGED <<asset, leases, holding>>
      PROVE  CatInv'
  <2>1. PICK x \in CallRec : /\ call' = [call EXCEPT ![c] = x] /\ x.moved = {}
                             /\ x.at = "done" \/ (x.at = "attach" /\ x.paper = p)
    BY <1>6, CallRecords
  <2>2. ~Exists(c)
    BY <1>1, <1>6 DEF CallInv
  <2> QED
    BY <1>6, <2>1, <2>2, CallKeeps
<1>7. CASE LookupPaper(c)
  <2>1. CASE Candidates(call[c].ref) = {}
    BY <1>1, <1>7, <2>1, CallRecords, CallKeeps DEF LookupPaper
  <2>2. CASE Candidates(call[c].ref) # {}
    <3>1. PICK s \in Survivors(Candidates(call[c].ref)) : Returns(c, s)
      BY <1>7, <2>2 DEF LookupPaper
    <3>2. s \in Ids
      BY <1>1, <2>2, <3>1, CandidateIds, SurvivorIn DEF CallRec
    <3> QED
      BY <1>1, <1>6, <1>7, <3>1, <3>2 DEF LookupPaper
  <2> QED
    BY <2>1, <2>2
<1>8. CASE Mint(c)
  <2>1. CASE CallTo(c, "raced") /\ UNCHANGED <<ident, paper>>
    BY <1>3, <1>8, <2>1 DEF Mint
  <2>2. CASE /\ paper' = [paper EXCEPT ![c] = [NoPaper EXCEPT !.status = "ready",
                                                              !.cols = Columned(call[c].ref)]]
             /\ ident' = IdentityRows(c, c) /\ Returns(c, c)
    <3> DEFINE y == [NoPaper EXCEPT !.status = "ready", !.cols = Columned(call[c].ref)]
    <3>1. y \in PaperRow /\ y.default = 0
      <4>1. 0 \in IdOrNone
        BY CatalogConfig DEF IdOrNone
      <4>2. Columned(call[c].ref) \in SUBSET CatKeys
        BY <1>1 DEF Columned, CallRec
      <4>3. NoPaper \in PaperRow /\ NoPaper.default = 0
        BY <4>1 DEF NoPaper, PaperRow
      <4> QED
        BY <4>2, <4>3 DEF PaperRow
    <3> HIDE DEF y
    <3>2. paper' \in [Ids -> PaperRow] /\ \A q \in Ids : paper'[q].default \in {0, paper[q].default}
      BY <1>1, <2>2, <3>1 DEF y
    <3>3. ident' \in [CatKeys -> IdOrNone]
      BY <1>1, <2>2, CatalogConfig DEF IdentityRows, Ids, IdOrNone
    <3> QED
      BY <1>6, <1>8, <2>2, <3>2, <3>3 DEF Mint
  <2> QED
    BY <1>8, <2>1, <2>2 DEF Mint
<1> QED
  BY <1>2, <1>4, <1>5, <1>7, <1>8

\* The commit of a merge: rows that were there move to the survivor.
LEMMA CommitKeeps ==
  ASSUME CatInv, NEW c \in Ids, CommitMerge(c)
  PROVE  CatInv'
<1>1. call[c] \in CallRec /\ CallInv(c) /\ ident \in [CatKeys -> IdOrNone] /\ paper \in [Ids -> PaperRow]
      /\ asset \in [Ids -> AssetRow] /\ call[c].at = "moved"
  BY DEF CatInv, CatTyped, CommitMerge
<1>2. PICK s \in Ids : s = call[c].paper
  BY <1>1 DEF CallInv
<1>3. s # 0 /\ s \in IdOrNone
  BY CatalogConfig DEF Ids, IdOrNone
<1>4. PICK x \in CallRec : /\ call' = [call EXCEPT ![c] = x] /\ x.moved = {}
                           /\ x.at = "done" \/ (x.at = "attach" /\ x.paper = s)
  <2>1. Returns(c, s)
    BY <1>2 DEF CommitMerge
  <2> QED
    BY <2>1, CallRecords
<1>5. ident' \in [CatKeys -> IdOrNone] /\ leases' = leases /\ holding' = holding
  BY <1>1, <1>2, <1>3 DEF CommitMerge, IdentityRows
<1>6. ASSUME NEW p \in Ids PROVE paper'[p] \in PaperRow /\ paper'[p].default = paper[p].default
  <2>1. paper'[p] \in {paper[p], [paper[p] EXCEPT !.status = "merged", !.into = s],
                       [paper[p] EXCEPT !.cols = Backfilled(c, s)]}
    BY <1>2 DEF CommitMerge
  <2>2. paper[p] \in PaperRow /\ paper[s] \in PaperRow
    BY <1>1
  <2>3. Backfilled(c, s) \in SUBSET CatKeys
    BY <1>1, <2>2 DEF Backfilled, Columned, CallRec, PaperRow
  <2> QED
    BY <1>3, <2>1, <2>2, <2>3 DEF PaperRow
<1>7. ASSUME NEW a \in Ids
      PROVE  /\ asset'[a] \in AssetRow /\ asset'[a].md = asset[a].md /\ asset'[a].lease = asset[a].lease
             /\ asset'[a].expired = asset[a].expired /\ Exists(a)' = Exists(a)
  <2>1. asset[a] \in AssetRow
    BY <1>1
  <2>2. asset'[a] = IF a \in call[c].moved THEN [asset[a] EXCEPT !.owner = s] ELSE asset[a]
    BY <1>2 DEF CommitMerge
  <2>3. a \in call[c].moved => Exists(a)
    BY <1>1 DEF CallInv
  <2> QED
    BY <1>3, <2>1, <2>2, <2>3 DEF AssetRow, Exists
<1>8. paper' \in [Ids -> PaperRow] /\ asset' \in [Ids -> AssetRow]
  BY <1>6, <1>7 DEF CommitMerge
<1>9. CatTyped' /\ call'[c] = x /\ \A d \in Ids \ {c} : call'[d] = call[d]
  BY <1>4, <1>5, <1>8 DEF CatInv, CatTyped
<1>10. LeasesRest
  BY <1>5, <1>7 DEF LeasesRest, Exists
<1>11. CallInv(c)'
  BY <1>1, <1>4, <1>7, <1>9 DEF CallInv, Exists
<1> QED
  BY <1>6, <1>7, <1>9, <1>10, <1>11, LeasesFrame

\* The upsert of an asset, with the trigger that picks the paper's default.
LEMMA UpsertKeeps ==
  ASSUME CatInv, NEW c \in Ids, NEW p \in Ids, NEW source \in {"arxiv", "published"}, NEW md \in BOOLEAN,
         Upserted(c, p, source, md), call[c].at = "attach", NEW x \in CallRec,
         call' = [call EXCEPT ![c] = x], x.at \in {"mark", "done"}, x.at = "mark" => x.paper \in Ids,
         \A a \in x.moved : Exists(a), UNCHANGED <<ident, leases, holding>>
  PROVE  CatInv'
<1>1. /\ call[c] \in CallRec /\ ~Exists(c) /\ paper \in [Ids -> PaperRow] /\ asset \in [Ids -> AssetRow]
      /\ call'[c] = x /\ \A d \in Ids \ {c} : call'[d] = call[d]
  BY DEF CatInv, CatTyped, CallInv
<1>2. p # 0 /\ p \in IdOrNone /\ 0 \in IdOrNone
  BY CatalogConfig DEF Ids, IdOrNone
<1>3. ASSUME paper' = paper, asset' \in [Ids -> AssetRow],
             \A a \in Ids : asset'[a] = asset[a] \/ (asset'[a].md /\ asset'[a].lease \in {0, asset[a].lease}
                                                       /\ asset'[a].owner = asset[a].owner)
      PROVE  CatInv'
  <2>1. CatTyped' /\ LeasesRest /\ \A a \in Ids : Exists(a)' = Exists(a)
    BY <1>3 DEF CatInv, CatTyped, LeasesRest, Exists
  <2>2. CallInv(c)'
    BY <1>1, <2>1 DEF CallInv, CallRec
  <2> QED
    BY <1>1, <1>3, <2>1, <2>2, LeasesFrame
<1> DEFINE old == {a \in Ids : asset[a].owner = p /\ asset[a].source = source}
<1>4. CASE old # {}
  <2>1. paper' = paper /\ asset' = [a \in Ids |->
                  IF a \notin old \/ ~md THEN asset[a]
                  ELSE IF source = "arxiv" THEN [asset[a] EXCEPT !.md = TRUE, !.lease = 0,
                                                                 !.expired = FALSE]
                  ELSE [asset[a] EXCEPT !.md = TRUE]]
    BY <1>4 DEF Upserted
  <2>2. ASSUME NEW a \in Ids
        PROVE  /\ asset'[a] \in AssetRow
               /\ asset'[a] = asset[a] \/ (asset'[a].md /\ asset'[a].lease \in {0, asset[a].lease}
                                                       /\ asset'[a].owner = asset[a].owner)
    <3>1. asset[a] \in AssetRow
      BY <1>1
    <3>2. asset'[a] \in {asset[a], [asset[a] EXCEPT !.md = TRUE, !.lease = 0, !.expired = FALSE],
                         [asset[a] EXCEPT !.md = TRUE]}
      BY <2>1
    <3>3. ASSUME NEW y \in AssetRow
          PROVE  /\ [y EXCEPT !.md = TRUE, !.lease = 0, !.expired = FALSE] \in AssetRow
                 /\ [y EXCEPT !.md = TRUE, !.lease = 0, !.expired = FALSE].md
                 /\ [y EXCEPT !.md = TRUE, !.lease = 0, !.expired = FALSE].lease = 0
                 /\ [y EXCEPT !.md = TRUE, !.lease = 0, !.expired = FALSE].owner = y.owner
                 /\ [y EXCEPT !.md = TRUE] \in AssetRow /\ [y EXCEPT !.md = TRUE].md
                 /\ [y EXCEPT !.md = TRUE].lease = y.lease /\ [y EXCEPT !.md = TRUE].owner = y.owner
      BY DEF AssetRow
    <3> QED
      BY <3>1, <3>2, <3>3
  <2>3. asset' \in [Ids -> AssetRow]
    BY <2>1, <2>2
  <2> QED
    BY <1>3, <2>1, <2>2, <2>3
<1>5. CASE old = {}
  <2> DEFINE n == [NoAsset EXCEPT !.owner = p, !.md = md, !.source = source]
             as == {a \in Ids : asset'[a].owner = p}
             default == DefaultOf(as, asset')
  <2>1. asset' = [asset EXCEPT ![c] = n] /\ paper' = [paper EXCEPT ![p].default = default]
    BY <1>5 DEF Upserted
  <2>2. n \in AssetRow /\ n.owner = p /\ n.lease = 0
    BY <1>2 DEF NoAsset, AssetRow
  <2> HIDE DEF n
  <2>3. /\ asset' \in [Ids -> AssetRow] /\ asset'[c] = n
        /\ \A a \in Ids \ {c} : asset'[a] = asset[a]
    BY <1>1, <2>1, <2>2
  <2>4. default \in Ids /\ default \in as
    <3>1. c \in as /\ as \subseteq Ids
      BY <2>2, <2>3
    <3> HIDE DEF as
    <3> DEFINE published == {a \in as : asset'[a].source = "published"}
    <3>2. default = IF published # {} THEN Max(published) ELSE Max(as)
      BY <3>1 DEF DefaultOf
    <3>3. as \in SUBSET (0 .. MaxCalls) /\ as # {} /\ published \in SUBSET (0 .. MaxCalls)
      <4>1. Ids \subseteq 0 .. MaxCalls
        BY CatalogConfig DEF Ids
      <4> QED
        BY <3>1, <4>1
    <3> HIDE DEF default
    <3> QED
      BY <3>1, <3>2, <3>3, Extremes
  <2>5. PICK d \in Ids : d = default /\ asset'[d].owner = p
    BY <2>4
  <2> HIDE DEF default
  <2>6. /\ paper' \in [Ids -> PaperRow] /\ paper'[p].default = d
        /\ \A q \in Ids \ {p} : paper'[q] = paper[q]
    <3>1. d \in IdOrNone
      BY CatalogConfig DEF Ids, IdOrNone
    <3> QED
      BY <1>1, <2>1, <2>5, <3>1 DEF PaperRow
  <2>7. CatTyped'
    BY <2>3, <2>6 DEF CatInv, CatTyped
  <2>8. LeasesRest
    BY <1>1, <2>2, <2>3 DEF LeasesRest, Exists
  <2>9. CallInv(c)'
    BY <1>1, <2>3, <2>8 DEF CallInv, LeasesRest, CallRec
  <2>10. PaperInv(p)'
    BY <1>2, <2>5, <2>6 DEF PaperInv, Exists
  <2>11. \A e \in Ids \ {c} : Exists(e)' = Exists(e)
    BY <2>3 DEF Exists
  <2> QED
    BY <1>1, <2>6, <2>7, <2>8, <2>9, <2>10, <2>11, LeasesFrame
<1> QED
  BY <1>4, <1>5

\* The statements that attach an asset keep the invariant.
LEMMA AttachKeeps ==
  ASSUME CatInv, NEW c \in Ids, UpsertPDF(c) \/ UpsertMD(c) \/ MarkReady(c)
  PROVE  CatInv'
<1>1. call[c] \in CallRec /\ CallInv(c) /\ paper \in [Ids -> PaperRow]
  BY DEF CatInv, CatTyped
<1>2. CASE UpsertPDF(c)
  <2> DEFINE x == [call[c] EXCEPT !.at = "mark"]
  <2>1. x \in CallRec /\ x.at = "mark" /\ x.paper = call[c].paper /\ x.moved = call[c].moved
    BY <1>1 DEF CallRec
  <2>2. call' = [call EXCEPT ![c] = x] /\ call[c].at = "attach" /\ UNCHANGED <<ident, leases, holding>>
        /\ call[c].op \in {"arxiv", "published"} /\ Upserted(c, call[c].paper, call[c].op, FALSE)
    BY <1>2 DEF UpsertPDF, CallTo, CallNow
  <2> HIDE DEF x
  <2>3. call[c].paper \in Ids /\ \A a \in call[c].moved : Exists(a)
    BY <1>1, <2>2 DEF CallInv
  <2> QED
    BY <2>1, <2>2, <2>3, UpsertKeeps
<1>3. CASE UpsertMD(c)
  <2>1. PICK source \in {"arxiv", "published"} : Upserted(c, call[c].paper, source, TRUE)
    BY <1>3 DEF UpsertMD
  <2>2. PICK x \in CallRec : call' = [call EXCEPT ![c] = x] /\ x.at = "done" /\ x.moved = {}
    BY <1>3, CallRecords DEF UpsertMD
  <2>3. call[c].paper \in Ids /\ call[c].at = "attach" /\ UNCHANGED <<ident, leases, holding>>
    BY <1>1, <1>3 DEF UpsertMD, CallInv
  <2> QED
    BY <2>1, <2>2, <2>3, UpsertKeeps
<1>4. CASE MarkReady(c)
  <2>1. PICK x \in CallRec : call' = [call EXCEPT ![c] = x] /\ x.at = "done" /\ x.moved = {}
    BY <1>4, CallRecords DEF MarkReady
  <2>2. paper' \in [Ids -> PaperRow] /\ \A p \in Ids : paper'[p].default = paper[p].default
    <3>1. paper' = paper \/ paper' = [paper EXCEPT ![call[c].paper].status = "ready"]
      BY <1>4 DEF MarkReady
    <3> QED
      BY <1>1, <3>1 DEF PaperRow
  <2>3. UNCHANGED <<ident, asset, leases, holding>> /\ ident \in [CatKeys -> IdOrNone]
    BY <1>4 DEF MarkReady, CatInv, CatTyped
  <2> QED
    BY <2>1, <2>2, <2>3, CallKeeps
<1> QED
  BY <1>2, <1>3, <1>4


\* What calls and papers rely on is which assets exist.
LEMMA OwnersFrame ==
  ASSUME CatInv, UNCHANGED <<paper, call>>, \A a \in Ids : Exists(a)' = Exists(a)
  PROVE  /\ \A c \in Ids : CallInv(c)'
         /\ \A p \in Ids : PaperInv(p)'
<1>1. ASSUME NEW c \in Ids PROVE CallInv(c)'
  <2>1. call[c].moved \subseteq Ids
    BY DEF CatInv, CatTyped, CallRec
  <2> QED
    BY <2>1 DEF CatInv, CallInv
<1>2. ASSUME NEW p \in Ids PROVE PaperInv(p)'
  <2>1. paper[p].default # 0 => paper[p].default \in Ids
    BY CatalogConfig DEF CatInv, CatTyped, PaperRow, IdOrNone, Ids
  <2> QED
    BY <2>1 DEF CatInv, PaperInv
<1> QED
  BY <1>1, <1>2

\* Claims, leases, releases and the ends of leases.
LEMMA LeaseKeeps ==
  ASSUME CatInv, NEW h \in LeaseHolders,
         \/ \E k \in CatKeys : mineruClaimHandler(h, k) \/ mineruClaimReleaseHandler(h, k)
         \/ Lease(h) \/ ReleaseLease(h)
  PROVE  CatInv'
<1>1. /\ UNCHANGED <<ident, paper, call>> /\ holding \in [LeaseHolders -> LeaseHeld] /\ holding[h] \in LeaseHeld
      /\ HolderInv(h) /\ paper \in [Ids -> PaperRow] /\ asset \in [Ids -> AssetRow] /\ leases \in Nat
  BY DEF mineruClaimHandler, mineruClaimReleaseHandler, Lease, ReleaseLease, CatInv, CatTyped
<1>2. \A k \in CatKeys : ident[k] # 0 => ident[k] \in Ids
  BY CatalogConfig DEF CatInv, CatTyped, IdOrNone, Ids
<1>3. 0 \in IdOrNone /\ Ids \subseteq IdOrNone /\ NoLease \in LeaseHeld /\ NoLease.op = "none"
      /\ NoLease.paper = 0
  BY CatalogConfig DEF IdOrNone, Ids, NoLease, LeaseHeld
\* The holder's own state moves; assets and leases stay.
<1>4. ASSUME NEW y \in LeaseHeld, holding' = [holding EXCEPT ![h] = y], UNCHANGED <<asset, leases>>,
             \/ y.op = "none"
             \/ y.op = "claim" /\ y.paper \in Ids
             \/ y.op = "release" /\ y.paper \in Ids /\ holding[h].op = "held" /\ y.id = holding[h].id
      PROVE  CatInv'
  <2>1. /\ CatTyped' /\ holding'[h] = y /\ \A g \in LeaseHolders \ {h} : holding'[g] = holding[g]
    BY <1>1, <1>4 DEF CatInv, CatTyped
  <2>2. ASSUME NEW g \in LeaseHolders PROVE HolderInv(g)'
    BY <1>1, <1>4, <2>1 DEF CatInv, HolderInv, Exists
  <2> QED
    BY <1>1, <1>4, <2>1, <2>2 DEF CatInv, CallInv, PaperInv, AssetInv, Exists
<1>5. ASSUME Forgets(h), UNCHANGED <<asset, leases>> PROVE CatInv'
  BY <1>3, <1>4, <1>5 DEF Forgets
<1>6. ASSUME NEW k \in CatKeys, mineruClaimHandler(h, k) PROVE CatInv'
  <2> DEFINE y == [NoLease EXCEPT !.op = "claim", !.paper = ident[k]]
  <2>1. ident[k] \in Ids
    BY <1>2, <1>6 DEF mineruClaimHandler, LookupByIdentity
  <2>2. y \in LeaseHeld /\ y.op = "claim" /\ y.paper \in Ids
    BY <1>3, <2>1 DEF LeaseHeld
  <2> QED
    BY <1>4, <1>6, <2>2 DEF mineruClaimHandler, LookupByIdentity
<1>7. ASSUME NEW k \in CatKeys, mineruClaimReleaseHandler(h, k) PROVE CatInv'
  <2> DEFINE y == [holding[h] EXCEPT !.op = "release", !.paper = ident[k], !.asset = 0]
  <2>1. ident[k] \in Ids
    BY <1>2, <1>7 DEF mineruClaimReleaseHandler, LookupByIdentity
  <2>2. y \in LeaseHeld /\ y.op = "release" /\ y.paper \in Ids /\ y.id = holding[h].id
    BY <1>1, <1>3, <2>1 DEF LeaseHeld
  <2>3. holding' = [holding EXCEPT ![h] = y] /\ holding[h].op = "held" /\ UNCHANGED <<asset, leases>>
    BY <1>1, <1>7 DEF mineruClaimReleaseHandler, LookupByIdentity
  <2> HIDE DEF y
  <2> QED
    BY <1>4, <2>2, <2>3
<1>8. CASE Lease(h)
  <2> DEFINE b == paper[holding[h].paper].default
  <2>0. PICK a : a = b
    OBVIOUS
  <2>2. CASE /\ a # 0 /\ ~LeaseLive(a) /\ ~asset[a].md /\ leases' = leases + 1
             /\ asset' = [asset EXCEPT ![a].lease = leases + 1, ![a].expired = FALSE]
             /\ holding' = [holding EXCEPT ![h] = [op |-> "held", id |-> leases + 1, paper |-> 0,
                                                      asset |-> a]]
    <3> DEFINE y == [op |-> "held", id |-> leases + 1, paper |-> 0, asset |-> a]
               z == [asset[a] EXCEPT !.lease = leases + 1, !.expired = FALSE]
    <3>1. holding[h].paper \in Ids
      BY <1>1, <1>8 DEF Lease, HolderInv
    <3>2. a \in Ids /\ Exists(a)
      <4>1. a \in IdOrNone /\ PaperInv(holding[h].paper)
        BY <1>1, <2>0, <3>1 DEF PaperRow, CatInv
      <4>2. a # 0 => Exists(a)
        BY <2>0, <4>1 DEF PaperInv
      <4>3. a # 0
        BY <2>2
      <4>4. a \in Ids
        BY <4>1, <4>3, CatalogConfig DEF IdOrNone, Ids
      <4> QED
        BY <4>2, <4>3, <4>4
    <3>3. y \in LeaseHeld /\ y.op = "held" /\ y.id = leases + 1 /\ y.asset = a
      BY <1>1, <1>3, <3>2 DEF LeaseHeld
    <3>4. z \in AssetRow /\ z.lease = leases + 1 /\ ~z.expired /\ z.owner = asset[a].owner /\ z.md = asset[a].md
      <4> DEFINE n == leases + 1
      <4>1. n \in Nat /\ asset[a] \in AssetRow
        BY <1>1, <3>2
      <4> HIDE DEF n
      <4>2. LET w == [asset[a] EXCEPT !.lease = n, !.expired = FALSE]
            IN  w \in AssetRow /\ w.lease = n /\ ~w.expired /\ w.owner = asset[a].owner /\ w.md = asset[a].md
        BY <4>1 DEF AssetRow
      <4> QED
        BY <4>2 DEF n
    <3>5. asset' = [asset EXCEPT ![a] = z] /\ holding' = [holding EXCEPT ![h] = y] /\ leases' = leases + 1
      BY <1>1, <2>2, <3>2
    <3> HIDE DEF y, z
    <3>6. /\ CatTyped' /\ asset'[a] = z /\ \A e \in Ids \ {a} : asset'[e] = asset[e]
          /\ holding'[h] = y /\ \A g \in LeaseHolders \ {h} : holding'[g] = holding[g]
      BY <1>1, <3>2, <3>3, <3>4, <3>5 DEF CatInv, CatTyped
    <3>7. \A e \in Ids : Exists(e)' = Exists(e)
      BY <3>2, <3>4, <3>6 DEF Exists
    <3>8. ASSUME NEW e \in Ids PROVE AssetInv(e)'
      <4>1. \A f \in Ids : asset[f].lease \in 0 .. leases
        BY DEF CatInv, AssetInv
      <4>2. \A f \in Ids \ {a} : asset'[f].lease \in 0 .. leases /\ asset'[f].lease # leases + 1
        BY <1>1, <3>6, <4>1
      <4>3. asset'[e].lease \in 0 .. leases'
        BY <1>1, <3>4, <3>5, <3>6, <4>2
      <4>4. ASSUME NEW f \in Ids, asset'[e].lease # 0, asset'[f].lease = asset'[e].lease PROVE e = f
        <5>1. CASE e = a \/ f = a
          BY <3>4, <3>6, <4>2, <4>4, <5>1
        <5>2. CASE e # a /\ f # a
          BY <3>6, <4>4, <5>2 DEF CatInv, AssetInv
        <5> QED
          BY <5>1, <5>2
      <4> QED
        BY <4>3, <4>4 DEF AssetInv
    <3>9. ASSUME NEW g \in LeaseHolders PROVE HolderInv(g)'
      <4>1. \A f \in LeaseHolders : holding[f].op \in {"held", "release"} =>
               holding[f].id \in 1 .. leases /\ holding[f].id # leases + 1 /\ holding[f].id \in 1 .. leases + 1
        BY <1>1 DEF CatInv, HolderInv
      <4>2. CASE g = h
        BY <1>1, <3>2, <3>3, <3>4, <3>5, <3>6, <3>7, <4>1, <4>2 DEF HolderInv
      <4>3. CASE g # h
        <5>1. holding'[g] = holding[g] /\ HolderInv(g)
          BY <3>6, <4>3 DEF CatInv
        <5>2. holding[g].op = "held" => holding[g].asset # a
          BY <2>2, <5>1 DEF HolderInv, LeaseLive, CatInv, AssetInv
        <5> QED
          BY <3>3, <3>5, <3>6, <3>7, <4>1, <4>3, <5>1, <5>2 DEF HolderInv
      <4> QED
        BY <4>2, <4>3
    <3> QED
      BY <1>1, <3>6, <3>7, <3>8, <3>9, OwnersFrame DEF CatInv
  <2>3. ASSUME a = 0 \/ leases = MaxLeases \/ LeaseLive(a) \/ asset[a].md PROVE CatInv'
    <3>1. CASE b = 0 \/ leases = MaxLeases
      <4>1. Forgets(h) /\ UNCHANGED <<asset, leases>>
        BY <1>8, <3>1, Zenon DEF Lease
      <4> QED
        BY <1>5, <4>1
    <3>2. CASE ~(b = 0 \/ leases = MaxLeases) /\ (LeaseLive(b) \/ asset[b].md)
      <4>1. Forgets(h) /\ UNCHANGED <<asset, leases>>
        BY <1>8, <3>2, Zenon DEF Lease
      <4> QED
        BY <1>5, <4>1
    <3> HIDE DEF b
    <3> QED
      BY <2>0, <2>3, <3>1, <3>2
  <2>4. ASSUME ~(a = 0 \/ leases = MaxLeases \/ LeaseLive(a) \/ asset[a].md) PROVE CatInv'
    <3>1. /\ leases' = leases + 1
          /\ asset' = [asset EXCEPT ![b].lease = leases + 1, ![b].expired = FALSE]
          /\ holding' = [holding EXCEPT ![h] = [op |-> "held", id |-> leases + 1, paper |-> 0,
                                                   asset |-> b]]
      BY <1>8, <2>0, <2>4, Zenon DEF Lease
    <3> HIDE DEF b
    <3>2. /\ asset' = [asset EXCEPT ![a].lease = leases + 1, ![a].expired = FALSE]
          /\ holding' = [holding EXCEPT ![h] = [op |-> "held", id |-> leases + 1, paper |-> 0,
                                                   asset |-> a]]
      BY <2>0, <3>1
    <3> QED
      BY <2>2, <2>4, <3>1, <3>2
  <2> QED
    BY <2>3, <2>4
\* The lease whose number is given back is the one that ends.
<1>9. CASE ReleaseLease(h)
  <2>0. PICK a : a = paper[holding[h].paper].default
    OBVIOUS
  <2>1. /\ holding[h].op = "release" /\ holding' = [holding EXCEPT ![h] = NoLease] /\ leases' = leases
        /\ asset' = [b \in Ids |-> IF b = a /\ asset[a].lease = holding[h].id
                                   THEN [asset[a] EXCEPT !.lease = 0, !.expired = FALSE]
                                   ELSE asset[b]]
    BY <1>9, <2>0 DEF ReleaseLease, Forgets, ReleaseMatches
  <2>2. ASSUME NEW b \in Ids
        PROVE  /\ asset'[b] \in AssetRow /\ asset'[b].owner = asset[b].owner /\ asset'[b].md = asset[b].md
               /\ asset'[b].lease \in {0, asset[b].lease}
               /\ asset[b].lease # holding[h].id => asset'[b] = asset[b]
    <3>1. asset[b] \in AssetRow
      BY <1>1
    <3>2. asset'[b] = asset[b]
          \/ (asset[b].lease = holding[h].id /\ asset'[b] = [asset[b] EXCEPT !.lease = 0, !.expired = FALSE])
      BY <2>1
    <3> DEFINE z == [asset[b] EXCEPT !.lease = 0, !.expired = FALSE]
    <3>3. z \in AssetRow /\ z.owner = asset[b].owner /\ z.md = asset[b].md /\ z.lease = 0
      BY <3>1 DEF AssetRow
    <3> HIDE DEF z
    <3>4. asset'[b] = asset[b] \/ (asset[b].lease = holding[h].id /\ asset'[b] = z)
      BY <3>2 DEF z
    <3> QED
      BY <3>1, <3>3, <3>4
  <2>3. asset' \in [Ids -> AssetRow]
    BY <2>1, <2>2
  <2>4. /\ CatTyped' /\ holding'[h] = NoLease /\ \A g \in LeaseHolders \ {h} : holding'[g] = holding[g]
    BY <1>1, <1>3, <2>1, <2>3 DEF CatInv, CatTyped
  <2>5. \A b \in Ids : Exists(b)' = Exists(b)
    BY <2>2 DEF Exists
  <2>6. \A b \in Ids : AssetInv(b)'
    BY <1>1, <2>1, <2>2 DEF CatInv, AssetInv
  <2>7. ASSUME NEW g \in LeaseHolders PROVE HolderInv(g)'
    <3>1. CASE g = h
      BY <1>3, <2>4, <3>1 DEF HolderInv
    <3>2. CASE g # h
      <4>1. holding'[g] = holding[g] /\ HolderInv(g)
        BY <2>4, <3>2 DEF CatInv
      <4>2. holding[g].op \in {"held", "release"} => holding[g].id # holding[h].id
        BY <2>1, <3>2, <4>1 DEF HolderInv
      <4>3. ASSUME holding[g].op = "held"
            PROVE  LET b == holding[g].asset
                   IN  b \in Ids /\ Exists(b)' /\ (asset'[b].md \/ (asset'[b].lease = holding[g].id
                                                                    /\ ~asset'[b].expired))
        BY <2>2, <2>5, <4>1, <4>2, <4>3 DEF HolderInv
      <4>4. \A f \in LeaseHolders : holding'[f].op \in {"held", "release"} => holding'[f] = holding[f]
        BY <1>3, <2>4
      <4> QED
        BY <1>1, <2>1, <4>1, <4>3, <4>4 DEF HolderInv
    <3> QED
      BY <3>1, <3>2
  <2> QED
    BY <1>1, <2>4, <2>5, <2>6, <2>7, OwnersFrame DEF CatInv
<1> QED
  BY <1>6, <1>7, <1>8, <1>9


\* A lease that ends ends for its holder; the sweep takes ended leases only.
LEMMA EndKeeps ==
  ASSUME CatInv, GCExpiredLeases \/ \E id \in 1 .. MaxLeases : LeaseEnds(id)
  PROVE  CatInv'
<1>1. /\ UNCHANGED <<ident, paper, call, leases>> /\ asset \in [Ids -> AssetRow]
      /\ holding \in [LeaseHolders -> LeaseHeld]
  BY DEF GCExpiredLeases, LeaseEnds, CatInv, CatTyped
<1>2. NoLease \in LeaseHeld /\ NoLease.op = "none"
  BY CatalogConfig DEF IdOrNone, NoLease, LeaseHeld
\* What both do: an asset's lease ends or is swept, and no holder is left with
\* an asset of either kind.
<1>3. ASSUME asset' = [b \in Ids |-> asset'[b]],
             \A b \in Ids :
                /\ asset'[b] \in AssetRow /\ asset'[b].owner = asset[b].owner
                /\ asset'[b].md = asset[b].md /\ asset'[b].lease \in {0, asset[b].lease},
             holding' = [h \in LeaseHolders |-> holding'[h]],
             \A h \in LeaseHolders :
                \/ holding'[h] = NoLease
                \/ /\ holding'[h] = holding[h]
                   /\ holding[h].op = "held" => asset'[holding[h].asset] = asset[holding[h].asset]
                                                \/ asset[holding[h].asset].md
      PROVE  CatInv'
  <2>1. CatTyped'
    BY <1>1, <1>2, <1>3 DEF CatInv, CatTyped
  <2>2. \A b \in Ids : Exists(b)' = Exists(b)
    BY <1>3 DEF Exists
  <2>3. ASSUME NEW a \in Ids PROVE AssetInv(a)'
    <3>1. asset'[a].lease \in 0 .. leases'
      <4>1. leases \in Nat /\ asset[a].lease \in 0 .. leases
        BY DEF CatInv, CatTyped, AssetInv
      <4>2. asset'[a].lease = 0 \/ asset'[a].lease = asset[a].lease
        BY <1>3
      <4> QED
        BY <1>1, <4>1, <4>2
    <3>2. ASSUME NEW b \in Ids, asset'[a].lease # 0, asset'[b].lease = asset'[a].lease
          PROVE  a = b
      <4>1. asset[a].lease # 0 /\ asset[b].lease = asset[a].lease
        BY <1>3, <3>2
      <4> QED
        BY <4>1 DEF CatInv, AssetInv
    <3> QED
      BY <3>1, <3>2 DEF AssetInv
  <2>4. ASSUME NEW h \in LeaseHolders PROVE HolderInv(h)'
    <3>1. CASE holding'[h] = NoLease
      BY <1>2, <3>1 DEF HolderInv
    <3>2. CASE /\ holding'[h] = holding[h]
               /\ holding[h].op = "held" => asset'[holding[h].asset] = asset[holding[h].asset]
                                            \/ asset[holding[h].asset].md
      <4>1. HolderInv(h)
        BY DEF CatInv
      <4>2. \A g \in LeaseHolders : holding'[g].op \in {"held", "release"} => holding'[g] = holding[g]
        BY <1>2, <1>3
      <4>3. ASSUME holding[h].op = "held"
            PROVE  LET b == holding[h].asset
                   IN  b \in Ids /\ Exists(b)' /\ (asset'[b].md \/ (asset'[b].lease = holding[h].id
                                                                    /\ ~asset'[b].expired))
        BY <1>3, <2>2, <3>2, <4>1, <4>3 DEF HolderInv
      <4> QED
        BY <1>1, <3>2, <4>1, <4>2, <4>3 DEF HolderInv
    <3> QED
      BY <1>3, <3>1, <3>2
  <2> QED
    BY <1>1, <2>1, <2>2, <2>3, <2>4, OwnersFrame DEF CatInv
\* What becomes of one asset's row.
<1>4. ASSUME NEW y \in AssetRow
      PROVE  /\ LET z == [y EXCEPT !.lease = 0, !.expired = FALSE]
                IN  z \in AssetRow /\ z.owner = y.owner /\ z.md = y.md /\ z.lease = 0
             /\ LET z == [y EXCEPT !.expired = TRUE]
                IN  z \in AssetRow /\ z.owner = y.owner /\ z.md = y.md /\ z.lease = y.lease
  BY DEF AssetRow
<1>5. ASSUME GCExpiredLeases PROVE CatInv'
  <2>1. asset' = [a \in Ids |-> IF asset[a].expired
                                THEN [asset[a] EXCEPT !.lease = 0, !.expired = FALSE]
                                ELSE asset[a]]
        /\ holding' = holding
    BY <1>5 DEF GCExpiredLeases
  <2>2. ASSUME NEW b \in Ids
        PROVE  /\ asset'[b] \in AssetRow /\ asset'[b].owner = asset[b].owner
               /\ asset'[b].md = asset[b].md /\ asset'[b].lease \in {0, asset[b].lease}
               /\ ~asset[b].expired => asset'[b] = asset[b]
    <3> DEFINE z == [asset[b] EXCEPT !.lease = 0, !.expired = FALSE]
    <3>1. asset'[b] = IF asset[b].expired THEN z ELSE asset[b]
      BY <2>1
    <3>2. z \in AssetRow /\ z.owner = asset[b].owner /\ z.md = asset[b].md /\ z.lease = 0
      BY <1>1, <1>4
    <3>3. asset[b] \in AssetRow
      BY <1>1
    <3> HIDE DEF z
    <3> QED
      BY <3>1, <3>2, <3>3
  <2>3. ASSUME NEW h \in LeaseHolders, holding[h].op = "held"
        PROVE  asset'[holding[h].asset] = asset[holding[h].asset] \/ asset[holding[h].asset].md
    BY <2>2, <2>3 DEF CatInv, HolderInv
  <2>4. asset' = [b \in Ids |-> asset'[b]] /\ holding' = [h \in LeaseHolders |-> holding'[h]]
    BY <1>1, <2>1
  <2> QED
    BY <1>3, <2>1, <2>2, <2>3, <2>4
<1>6. ASSUME NEW id \in 1 .. MaxLeases, LeaseEnds(id) PROVE CatInv'
  <2>1. asset' = [a \in Ids |-> IF asset[a].lease = id THEN [asset[a] EXCEPT !.expired = TRUE]
                                ELSE asset[a]]
        /\ holding' = [h \in LeaseHolders |-> IF holding[h].op = "held" /\ holding[h].id = id
                                              THEN NoLease ELSE holding[h]]
    BY <1>6 DEF LeaseEnds
  <2>2. ASSUME NEW b \in Ids
        PROVE  /\ asset'[b] \in AssetRow /\ asset'[b].owner = asset[b].owner
               /\ asset'[b].md = asset[b].md /\ asset'[b].lease \in {0, asset[b].lease}
               /\ asset[b].lease # id => asset'[b] = asset[b]
    <3> DEFINE z == [asset[b] EXCEPT !.expired = TRUE]
    <3>1. asset'[b] = IF asset[b].lease = id THEN z ELSE asset[b]
      BY <2>1
    <3>2. z \in AssetRow /\ z.owner = asset[b].owner /\ z.md = asset[b].md
          /\ z.lease = asset[b].lease
      BY <1>1, <1>4
    <3>3. asset[b] \in AssetRow
      BY <1>1
    <3> HIDE DEF z
    <3> QED
      BY <3>1, <3>2, <3>3
  <2>3. ASSUME NEW h \in LeaseHolders
        PROVE  \/ holding'[h] = NoLease
               \/ /\ holding'[h] = holding[h]
                  /\ holding[h].op = "held" => asset'[holding[h].asset] = asset[holding[h].asset]
                                               \/ asset[holding[h].asset].md
    BY <2>1, <2>2 DEF CatInv, HolderInv
  <2>4. asset' = [b \in Ids |-> asset'[b]] /\ holding' = [h \in LeaseHolders |-> holding'[h]]
    BY <2>1
  <2> QED
    BY <1>3, <2>2, <2>3, <2>4
<1> QED
  BY <1>5, <1>6

\* The ingester calls the registry and marks papers; it touches no lease.
LEMMA IngestKeeps ==
  ASSUME CatInv,
         \/ \E p, c \in Ids : Process(p, c)
         \/ \E p \in Ids : Ingested(p) \/ Fail(p)
         \/ IngestLost
  PROVE  CatInv'
<1>1. ASSUME NEW p \in Ids, NEW c \in Ids, Process(p, c) PROVE CatInv'
  <2>1. PICK op \in {"arxiv", "published"} : Resolves(c, paper[p].cols, op, p)
    BY <1>1 DEF Process
  <2>2. paper[p].cols \in SUBSET CatKeys /\ p \in IdOrNone
    BY CatalogConfig DEF CatInv, CatTyped, PaperRow, Ids, IdOrNone
  <2>3. \E r \in SUBSET CatKeys, o \in {"resolve", "arxiv", "published", "md"}, j \in IdOrNone :
           Resolves(c, r, o, j)
    BY <2>1, <2>2
  <2> QED
    BY <2>3, ResolveKeeps
<1>2. ASSUME UNCHANGED <<ident, asset, call, leases, holding>>, paper' \in [Ids -> PaperRow],
             \A p \in Ids : paper'[p].default = paper[p].default
      PROVE  CatInv'
  <2>1. CatTyped' /\ LeasesRest
    BY <1>2 DEF CatInv, CatTyped, LeasesRest, Exists
  <2> QED
    BY <1>2, <2>1, LeasesFrame DEF Exists
<1>3. ASSUME NEW p \in Ids, Ingested(p) PROVE CatInv'
  BY <1>2, <1>3 DEF Ingested, CatInv, CatTyped
<1>4. ASSUME NEW p \in Ids, Fail(p) PROVE CatInv'
  <2>1. paper \in [Ids -> PaperRow] /\ paper' = [paper EXCEPT ![p].status = "failed"]
        /\ UNCHANGED <<ident, asset, call, leases, holding>>
    BY <1>4 DEF Fail, CatInv, CatTyped
  <2>2. paper' \in [Ids -> PaperRow] /\ \A q \in Ids : paper'[q].default = paper[q].default
    BY <2>1 DEF PaperRow
  <2> QED
    BY <1>2, <2>1, <2>2
<1>5. ASSUME IngestLost PROVE CatInv'
  BY <1>2, <1>5 DEF IngestLost, CatInv, CatTyped
<1> QED
  BY <1>1, <1>3, <1>4, <1>5

\* The invariant holds once the seeded papers are minted.
LEMMA CatStarts == CatInit => CatInv
<1> SUFFICES ASSUME CatInit PROVE CatInv
  OBVIOUS
<1>1. /\ MaxCalls \in Nat \ {0} /\ Len(Seeded) \in Nat /\ Len(Seeded) <= MaxCalls
      /\ \A p \in 1 .. Len(Seeded) : p \in Ids /\ Seeded[p] \in SUBSET CatKeys
  BY CatalogConfig DEF Ids
<1>2. 0 \in IdOrNone
  BY <1>1 DEF IdOrNone
<1>3. ident \in [CatKeys -> IdOrNone]
  <2>1. ASSUME NEW k \in CatKeys
        PROVE  Max({0} \cup {p \in 1 .. Len(Seeded) : k \in Seeded[p]}) \in IdOrNone
    <3> DEFINE S == {0} \cup {p \in 1 .. Len(Seeded) : k \in Seeded[p]}
    <3>1. S \in SUBSET (0 .. MaxCalls) /\ S # {}
      BY <1>1
    <3> HIDE DEF S
    <3>2. Max(S) \in IdOrNone
      BY <3>1, Extremes DEF IdOrNone
    <3> QED
      BY <3>2 DEF S
  <2> QED
    BY <2>1 DEF CatInit
<1>4. paper \in [Ids -> PaperRow] /\ \A p \in Ids : paper[p].default = 0
  <2>1. NoPaper \in PaperRow /\ NoPaper.default = 0
    BY <1>2 DEF NoPaper, PaperRow
  <2>2. ASSUME NEW cols \in SUBSET CatKeys
        PROVE  LET y == [NoPaper EXCEPT !.cols = cols, !.status = "ready"]
               IN  y \in PaperRow /\ y.default = 0
    BY <2>1 DEF PaperRow
  <2>3. \A p \in 1 .. Len(Seeded) : Columned(Seeded[p]) \in SUBSET CatKeys
    BY <1>1 DEF Columned
  <2>4. ASSUME NEW p \in Ids PROVE paper[p] \in PaperRow /\ paper[p].default = 0
    <3>1. CASE p > Len(Seeded)
      BY <2>1, <3>1 DEF CatInit
    <3>2. CASE ~(p > Len(Seeded))
      <4>1. p \in 1 .. Len(Seeded)
        BY <1>1, <3>2 DEF Ids
      <4>2. PICK cols \in SUBSET CatKeys : cols = Columned(Seeded[p])
        BY <2>3, <4>1
      <4>3. paper[p] = [NoPaper EXCEPT !.cols = cols, !.status = "ready"]
        BY <3>2, <4>2 DEF CatInit
      <4> QED
        BY <2>2, <4>3
    <3> QED
      BY <3>1, <3>2
  <2> QED
    BY <2>4 DEF CatInit
<1>5. asset \in [Ids -> AssetRow] /\ \A a \in Ids : asset[a].owner = 0 /\ asset[a].lease = 0
  <2>1. NoAsset \in AssetRow /\ NoAsset.owner = 0 /\ NoAsset.lease = 0
    BY <1>2 DEF NoAsset, AssetRow
  <2> QED
    BY <2>1 DEF CatInit
<1>6. /\ call \in [Ids -> CallRec]
      /\ \A c \in Ids : call[c].at \in {"unborn", "done"} /\ call[c].moved = {}
  <2>1. NoCall \in CallRec /\ NoCall.at = "unborn" /\ NoCall.moved = {}
    BY <1>2 DEF NoCall, CallRec
  <2> DEFINE y == [NoCall EXCEPT !.at = "done"]
  <2>2. y \in CallRec /\ y.at = "done" /\ y.moved = {}
    BY <2>1 DEF CallRec
  <2>3. call = [c \in Ids |-> IF c > Len(Seeded) THEN NoCall ELSE y]
    BY DEF CatInit
  <2> HIDE DEF y
  <2> QED
    BY <2>1, <2>2, <2>3
<1>7. /\ leases = 0 /\ holding \in [LeaseHolders -> LeaseHeld]
      /\ \A h \in LeaseHolders : holding[h].op = "none"
  <2>1. NoLease \in LeaseHeld /\ NoLease.op = "none"
    BY <1>2 DEF NoLease, LeaseHeld
  <2> QED
    BY <2>1 DEF CatInit
<1>8. CatTyped
  BY <1>3, <1>4, <1>5, <1>6, <1>7 DEF CatTyped
<1>9. \A c \in Ids : CallInv(c)
  BY <1>5, <1>6 DEF CallInv, Exists
<1>10. (\A p \in Ids : PaperInv(p)) /\ (\A a \in Ids : AssetInv(a)) /\ (\A h \in LeaseHolders : HolderInv(h))
  BY <1>4, <1>5, <1>7 DEF PaperInv, AssetInv, HolderInv
<1> QED
  BY <1>8, <1>9, <1>10 DEF CatInv

\* Every step of the registry keeps the invariant.
LEMMA CatKept == CatInv /\ [CatNext]_catVars => CatInv'
<1> SUFFICES ASSUME CatInv, [CatNext]_catVars PROVE CatInv'
  OBVIOUS
<1>1. ASSUME NEW c \in Ids, NEW r \in PaperRefs,
             NEW op \in {"resolve", "arxiv", "published", "md"}, Resolves(c, r, op, 0)
      PROVE  CatInv'
  <2>1. r \in SUBSET CatKeys /\ 0 \in IdOrNone
    BY CatalogConfig DEF PaperRefs, IdOrNone
  <2> QED
    BY <1>1, <2>1, ResolveKeeps
<1>2. ASSUME NEW c \in Ids,
             \/ MergeInto(c) \/ CommitMerge(c) \/ Mint(c) \/ LookupPaper(c)
             \/ CatalogUnavailable(c) \/ UpsertPDF(c) \/ MarkReady(c) \/ UpsertMD(c)
      PROVE  CatInv'
  BY <1>2, ResolveKeeps, CommitKeeps, AttachKeeps
<1>3. ASSUME NEW h \in LeaseHolders,
             \/ \E k \in CatKeys : mineruClaimHandler(h, k) \/ mineruClaimReleaseHandler(h, k)
             \/ Lease(h) \/ ReleaseLease(h)
      PROVE  CatInv'
  BY <1>3, LeaseKeeps
<1>4. CASE GCExpiredLeases \/ \E id \in 1 .. MaxLeases : LeaseEnds(id)
  BY <1>4, EndKeeps
<1>5. CASE \/ \E p, c \in Ids : Process(p, c)
           \/ \E p \in Ids : Ingested(p) \/ Fail(p)
           \/ IngestLost
  BY <1>5, IngestKeeps
<1>6. ASSUME UNCHANGED catVars PROVE CatInv'
  <2>1. CatTyped' /\ LeasesRest
    BY <1>6 DEF catVars, CatInv, CatTyped, LeasesRest, Exists
  <2> QED
    BY <1>6, <2>1, LeasesFrame DEF catVars, Exists
<1> QED
  BY <1>1, <1>2, <1>3, <1>4, <1>5, <1>6 DEF CatNext

\* A contributor at work on a conversion holds the live lease of its asset, so
\* no two work on one, whatever merges, expiries, sweeps and late releases come
\* between, for any number of papers, keys, contributors and leases.
THEOREM LeasesAlwaysExclusive == CatSpec => []LeaseExclusive
<1>1. CatInv => LeaseExclusive
  <2> SUFFICES ASSUME CatInv, NEW h \in LeaseHolders, holding[h].op = "held"
               PROVE  LET a == holding[h].asset
                      IN  asset[a].md \/ (LeaseLive(a) /\ asset[a].lease = holding[h].id)
    BY DEF LeaseExclusive
  <2>1. HolderInv(h) /\ leases \in Nat
    BY DEF CatInv, CatTyped
  <2>2. holding[h].id # 0
    BY <2>1 DEF HolderInv
  <2> QED
    BY <2>1, <2>2 DEF HolderInv, LeaseLive
<1> QED
  BY <1>1, CatStarts, CatKept, PTL DEF CatSpec

\* Leases are counted up to their bound, and the ingester holds papers.
CatBound ==
    /\ leases \in 0 .. MaxLeases /\ ingesting \subseteq Ids
    /\ \A h \in LeaseHolders : holding[h].id \in 0 .. MaxLeases
LEMMA CatBoundKept == CatInv /\ CatBound /\ [CatNext]_catVars => CatBound'
<1> SUFFICES ASSUME CatInv, CatBound, [CatNext]_catVars PROVE CatBound'
  OBVIOUS
<1>1. MaxLeases \in Nat /\ NoLease.id = 0 /\ holding \in [LeaseHolders -> LeaseHeld]
  BY CatalogConfig DEF NoLease, CatInv, CatTyped
<1>2. ASSUME NEW c \in Ids, NEW r \in SUBSET CatKeys, NEW j \in Ids \cup {0},
             NEW op \in {"resolve", "arxiv", "published", "md"}, Resolves(c, r, op, j)
      PROVE  UNCHANGED <<leases, ingesting, holding>>
  BY <1>2 DEF Resolves
<1>3. ASSUME NEW c \in Ids, Mint(c) PROVE leases' = leases /\ holding' = holding /\ ingesting' \subseteq Ids
  BY <1>3 DEF Mint, CatBound
<1>4. ASSUME NEW c \in Ids,
             \/ MergeInto(c) \/ CommitMerge(c) \/ LookupPaper(c) \/ CatalogUnavailable(c)
             \/ UpsertPDF(c) \/ MarkReady(c) \/ UpsertMD(c)
      PROVE  UNCHANGED <<leases, ingesting, holding>>
  <2>1. MergeInto(c) => UNCHANGED <<leases, ingesting, holding>>
    BY DEF MergeInto
  <2>2. CommitMerge(c) => UNCHANGED <<leases, ingesting, holding>>
    BY Zenon DEF CommitMerge
  <2>3. LookupPaper(c) \/ CatalogUnavailable(c) => UNCHANGED <<leases, ingesting, holding>>
    BY DEF LookupPaper, CatalogUnavailable
  <2>4. UpsertPDF(c) \/ MarkReady(c) \/ UpsertMD(c) => UNCHANGED <<leases, ingesting, holding>>
    BY DEF UpsertPDF, MarkReady, UpsertMD
  <2> QED
    BY <1>4, <2>1, <2>2, <2>3, <2>4
<1>5. ASSUME NEW h \in LeaseHolders, NEW y,
             y.id \in 0 .. MaxLeases, holding' = [holding EXCEPT ![h] = y],
             leases' \in 0 .. MaxLeases, ingesting' = ingesting
      PROVE  CatBound'
  BY <1>1, <1>5 DEF CatBound
<1>6. ASSUME NEW h \in LeaseHolders, Forgets(h), UNCHANGED <<leases, ingesting>> PROVE CatBound'
  <2>1. holding' = [holding EXCEPT ![h] = NoLease] /\ leases' \in 0 .. MaxLeases /\ NoLease.id \in 0 .. MaxLeases
    BY <1>1, <1>6 DEF Forgets, CatBound
  <2> QED
    BY <1>5, <1>6, <2>1
<1>7. ASSUME NEW h \in LeaseHolders, NEW k \in CatKeys, mineruClaimHandler(h, k) PROVE CatBound'
  <2> DEFINE y == [NoLease EXCEPT !.op = "claim", !.paper = LookupByIdentity(k)]
  <2>1. y.id \in 0 .. MaxLeases
    BY <1>1 DEF NoLease
  <2>2. holding' = [holding EXCEPT ![h] = y] /\ leases' \in 0 .. MaxLeases /\ ingesting' = ingesting
    BY <1>7 DEF mineruClaimHandler, CatBound
  <2> HIDE DEF y
  <2> QED
    BY <1>5, <2>1, <2>2
<1>8. ASSUME NEW h \in LeaseHolders, NEW k \in CatKeys, mineruClaimReleaseHandler(h, k) PROVE CatBound'
  <2> DEFINE y == [holding[h] EXCEPT !.op = "release", !.paper = LookupByIdentity(k), !.asset = 0]
  <2>1. y.id \in 0 .. MaxLeases
    BY <1>1 DEF LeaseHeld, CatBound
  <2>2. holding' = [holding EXCEPT ![h] = y] /\ leases' \in 0 .. MaxLeases /\ ingesting' = ingesting
    BY <1>1, <1>8 DEF mineruClaimReleaseHandler, CatBound
  <2> HIDE DEF y
  <2> QED
    BY <1>5, <2>1, <2>2
<1>9. ASSUME NEW h \in LeaseHolders, Lease(h) PROVE CatBound'
  <2> DEFINE y == [op |-> "held", id |-> leases + 1, paper |-> 0,
                   asset |-> paper[holding[h].paper].default]
  <2>1. \/ Forgets(h) /\ UNCHANGED <<leases, ingesting>>
        \/ /\ leases # MaxLeases /\ leases' = leases + 1 /\ ingesting' = ingesting
           /\ holding' = [holding EXCEPT ![h] = y]
    BY <1>9 DEF Lease
  <2>2. ASSUME leases # MaxLeases PROVE y.id \in 0 .. MaxLeases /\ leases + 1 \in 0 .. MaxLeases
    BY <1>1, <2>2 DEF CatBound
  <2> HIDE DEF y
  <2> QED
    BY <1>5, <1>6, <2>1, <2>2
<1>10. ASSUME NEW h \in LeaseHolders, ReleaseLease(h) PROVE CatBound'
  BY <1>6, <1>10 DEF ReleaseLease
<1>11. ASSUME NEW id \in 1 .. MaxLeases, LeaseEnds(id) PROVE CatBound'
  <2>1. \A h \in LeaseHolders : holding'[h] \in {NoLease, holding[h]}
    BY <1>11 DEF LeaseEnds
  <2>2. leases' = leases /\ ingesting' = ingesting
    BY <1>11 DEF LeaseEnds
  <2> QED
    BY <1>1, <2>1, <2>2 DEF CatBound
<1>12. ASSUME NEW p \in Ids, Ingested(p) \/ Fail(p) \/ IngestLost PROVE CatBound'
  BY <1>12 DEF Ingested, Fail, IngestLost, CatBound
<1>13. ASSUME UNCHANGED <<leases, ingesting, holding>> PROVE CatBound'
  BY <1>13 DEF CatBound
<1>14. CASE GCExpiredLeases
  <2>1. UNCHANGED <<leases, ingesting, holding>>
    BY <1>14, Zenon DEF GCExpiredLeases
  <2> QED
    BY <1>13, <2>1
<1>15. CASE \E c \in Ids, r \in PaperRefs, op \in {"resolve", "arxiv", "published", "md"} :
               Resolves(c, r, op, 0)
  <2>1. PICK c \in Ids, r \in PaperRefs, op \in {"resolve", "arxiv", "published", "md"} :
                Resolves(c, r, op, 0)
    BY <1>15
  <2>2. r \in SUBSET CatKeys
    BY DEF PaperRefs
  <2>3. UNCHANGED <<leases, ingesting, holding>>
    BY <1>2, <2>1, <2>2
  <2> QED
    BY <1>13, <2>3
<1>16. ASSUME NEW p \in Ids, NEW c \in Ids, Process(p, c) PROVE CatBound'
  <2>1. paper[p].cols \in SUBSET CatKeys
    BY DEF CatInv, CatTyped, PaperRow
  <2> QED
    BY <1>2, <1>13, <1>16, <2>1 DEF Process
<1>17. ASSUME NEW c \in Ids, Mint(c) PROVE CatBound'
  BY <1>3, <1>17 DEF CatBound
<1>18. CASE IngestLost
  BY <1>18 DEF IngestLost, CatBound
<1>19. CASE UNCHANGED catVars
  BY <1>13, <1>19 DEF catVars
<1> QED
  BY <1>4, <1>7, <1>8, <1>9, <1>10, <1>11, <1>12, <1>13, <1>14, <1>15, <1>16, <1>17, <1>18, <1>19 DEF CatNext

\* Every row of the registry, every call and every lease keeps its type.
LEMMA CatTypesHold == CatSpec => []CatTypeOK
<1>1. CatInit => CatBound
  <2> SUFFICES ASSUME CatInit PROVE CatBound
    OBVIOUS
  <2>1. MaxLeases \in Nat /\ NoLease.id = 0 /\ Len(Seeded) \in Nat /\ Len(Seeded) <= MaxCalls /\ MaxCalls \in Nat
    BY CatalogConfig DEF NoLease
  <2>2. leases = 0 /\ ingesting = 1 .. Len(Seeded) /\ holding = [h \in LeaseHolders |-> NoLease]
    BY Zenon DEF CatInit
  <2> QED
    BY <2>1, <2>2 DEF CatBound, Ids
<1>2. CatInv /\ CatBound => CatTypeOK
  <2> SUFFICES ASSUME CatInv, CatBound PROVE CatTypeOK
    OBVIOUS
  <2>1. CatTyped /\ MaxLeases \in Nat
    BY CatalogConfig DEF CatInv
  <2>2. ident \in [CatKeys -> 0 .. MaxCalls] /\ paper \in [Ids -> PaperRow]
    BY <2>1 DEF CatTyped, IdOrNone
  <2>3. ASSUME NEW a \in Ids
        PROVE  asset[a] \in [owner : 0 .. MaxCalls, source : {"none", "arxiv", "published"},
                             md : BOOLEAN, lease : 0 .. MaxLeases, expired : BOOLEAN]
    <3>1. asset[a] \in AssetRow /\ asset[a].lease \in 0 .. leases
      BY <2>1 DEF CatInv, CatTyped, AssetInv
    <3>2. asset[a].lease \in 0 .. MaxLeases
      BY <2>1, <3>1 DEF CatBound
    <3> QED
      BY <3>1, <3>2 DEF AssetRow, IdOrNone
  <2>4. ASSUME NEW h \in LeaseHolders
        PROVE  holding[h] \in [op : {"none", "claim", "held", "release"}, id : 0 .. MaxLeases,
                               paper : 0 .. MaxCalls, asset : 0 .. MaxCalls]
    BY <2>1 DEF CatTyped, CatBound, LeaseHeld, IdOrNone
  <2>5. ASSUME NEW c \in Ids
        PROVE  /\ call[c].at \in {"unborn", "found", "moved", "raced", "attach", "mark", "done", "failed"}
               /\ call[c].op \in {"none", "resolve", "arxiv", "published", "md"}
               /\ call[c].cands \subseteq Ids /\ call[c].paper \in 0 .. MaxCalls
    BY <2>1 DEF CatTyped, CallRec, IdOrNone
  <2>6. /\ asset \in [Ids -> [owner : 0 .. MaxCalls, source : {"none", "arxiv", "published"},
                              md : BOOLEAN, lease : 0 .. MaxLeases, expired : BOOLEAN]]
        /\ holding \in [LeaseHolders -> [op : {"none", "claim", "held", "release"}, id : 0 .. MaxLeases,
                                         paper : 0 .. MaxCalls, asset : 0 .. MaxCalls]]
    BY <2>1, <2>3, <2>4 DEF CatTyped
  <2> QED
    BY <2>2, <2>5, <2>6 DEF CatTypeOK, PaperRow, IdOrNone, CatBound
<1> QED
  BY <1>1, <1>2, CatStarts, CatKept, CatBoundKept, PTL DEF CatSpec
=============================================================================
