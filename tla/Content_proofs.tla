---------------------------- MODULE Content_proofs ----------------------------
(***************************************************************************)
(* Proofs about what the server stores: the uploads, deletions and reads of  *)
(* the object store, for every number of concurrent commands, uploaders and  *)
(* readers.                                                                  *)
(***************************************************************************)
EXTENDS ObjectStore, TLAPS

-----------------------------------------------------------------------------
(* The object store: uploads, deletions and reads of one object per kind.    *)

Uploads == [at : {"idle", "put", "part", "sidecar", "stat", "poll", "written", "unchanged", "conflict",
                  "failed", "toolarge", "invalid"},
            kind : Kinds \cup {Nil}, sha : Digests \cup {Nil}, over : BOOLEAN, again : BOOLEAN]
Reads == [at : {"idle", "open", "done"}, kind : Kinds \cup {Nil}, sha : Digests \cup {Nil},
          meta : Digests \cup {Nil}]
Busy == {"put", "part", "sidecar", "stat", "poll", "written", "unchanged", "conflict"}

ObjectsTyped ==
    /\ backends \in [Kinds -> {"s3", "local", "none"}]
    /\ bytes \in [Kinds -> Digests \cup {Nil}] /\ marker \in [Kinds -> Digests \cup {Nil}]
    /\ half \subseteq Kinds /\ replaced \subseteq Kinds
    /\ up \in [Uploaders -> Uploads] /\ get \in [Getters -> Reads]
\* Metadata is of the bytes; only a local upload writes it by itself.
MarkerOK(k) == S3(k) \/ k \notin replaced => marker[k] \in {Nil, bytes[k]}
UploadOK(w) ==
    /\ w.at \in Busy => w.kind \in Kinds /\ w.sha \in Digests
    /\ w.at \in {"part", "sidecar", "poll"} => Local(w.kind)
    /\ w.at \in {"written", "unchanged", "sidecar"} /\ w.kind \notin replaced => bytes[w.kind] = w.sha
ReadOK(q) ==
    /\ q.at \in {"open", "done"} => q.kind \in Kinds /\ q.sha # Nil
    /\ q.at \in {"open", "done"} /\ q.kind \notin replaced => bytes[q.kind] = q.sha
    /\ q.at = "done" /\ q.kind \notin replaced => q.meta \in {Nil, q.sha}
ObjInv ==
    /\ ObjectsTyped
    /\ \A k \in Kinds : MarkerOK(k)
    /\ \A u \in Uploaders : UploadOK(up[u])
    /\ \A g \in Getters : ReadOK(get[g])

LEMMA ObjStarts == ObjInit => ObjInv
<1> SUFFICES ASSUME ObjInit PROVE ObjInv
  OBVIOUS
<1>1. Fresh \in Uploads /\ Unread \in Reads
  BY DEF Fresh, Unread, Uploads, Reads
<1>2. ObjectsTyped
  BY <1>1 DEF ObjInit, ObjectsTyped
<1> QED
  BY <1>2 DEF ObjInit, ObjInv, MarkerOK, UploadOK, ReadOK, Fresh, Unread, Busy

\* What a step may do to the objects: an object that is there changes only when
\* it is replaced.
Lasting ==
    /\ UNCHANGED backends /\ replaced \subseteq replaced' /\ replaced' \subseteq Kinds /\ half' \subseteq Kinds
    /\ bytes' \in [Kinds -> Digests \cup {Nil}] /\ marker' \in [Kinds -> Digests \cup {Nil}]
    /\ \A k \in Kinds : bytes'[k] = bytes[k] \/ bytes[k] = Nil \/ k \in replaced'

LEMMA OthersLast ==
  ASSUME ObjInv, Lasting
  PROVE  /\ \A u \in Uploaders : up'[u] = up[u] => UploadOK(up[u])'
         /\ \A g \in Getters : get'[g] = get[g] => ReadOK(get[g])'
<1>1. ASSUME NEW u \in Uploaders, up'[u] = up[u] PROVE UploadOK(up[u])'
  BY <1>1, StoreConfig DEF ObjInv, UploadOK, Lasting, Busy, Local
<1>2. ASSUME NEW g \in Getters, get'[g] = get[g] PROVE ReadOK(get[g])'
  BY <1>2, StoreConfig DEF ObjInv, ReadOK, Lasting
<1> QED
  BY <1>1, <1>2

\* A step of one upload.
LEMMA UploadSteps ==
  ASSUME ObjInv, Lasting, NEW u \in Uploaders, NEW w \in Uploads, up' = [up EXCEPT ![u] = w],
         UploadOK(w)', UNCHANGED get, \A k \in Kinds : MarkerOK(k)'
  PROVE  ObjInv'
<1>1. up' \in [Uploaders -> Uploads] /\ up'[u] = w /\ \A v \in Uploaders : v # u => up'[v] = up[v]
  BY DEF ObjInv, ObjectsTyped
<1>2. ASSUME NEW v \in Uploaders PROVE UploadOK(up[v])'
  BY <1>1, OthersLast
<1>3. \A g \in Getters : ReadOK(get[g])'
  BY OthersLast
<1>4. ObjectsTyped'
  BY <1>1 DEF ObjInv, ObjectsTyped, Lasting
<1> QED
  BY <1>2, <1>3, <1>4 DEF ObjInv

\* The same while the objects rest.
LEMMA UploadMoves ==
  ASSUME ObjInv, NEW u \in Uploaders, NEW w \in Uploads, up' = [up EXCEPT ![u] = w],
         UploadOK(w), UNCHANGED <<backends, bytes, marker, half, get, replaced>>
  PROVE  ObjInv'
<1>1. Lasting
  BY DEF ObjInv, ObjectsTyped, Lasting
<1>2. UploadOK(w)' /\ \A k \in Kinds : MarkerOK(k)'
  BY DEF ObjInv, UploadOK, MarkerOK, Local, S3
<1> QED
  BY <1>1, <1>2, UploadSteps

LEMMA ReceiveKeeps ==
  ASSUME ObjInv, NEW u \in Uploaders, NEW k \in Kinds, NEW sha \in Digests, NEW over \in BOOLEAN,
         NEW size, NEW right, NEW large, Receive(u, k, sha, over, size, right, large)
  PROVE  ObjInv'
<1>1. PICK st \in {"staged", "toolarge", "invalid"} :
        up' = [up EXCEPT ![u] = IF st # "staged" THEN [Fresh EXCEPT !.at = st]
                                ELSE [at |-> IF over THEN "stat" ELSE "put", kind |-> k, sha |-> sha,
                                      over |-> over, again |-> FALSE]]
  BY DEF Receive, stageToTmpFile, stageInMemory
<1> DEFINE w == IF st # "staged" THEN [Fresh EXCEPT !.at = st]
                ELSE [at |-> IF over THEN "stat" ELSE "put", kind |-> k, sha |-> sha,
                      over |-> over, again |-> FALSE]
<1>2. w \in Uploads /\ UploadOK(w)
  BY DEF Uploads, UploadOK, Fresh, Busy
<1>3. UNCHANGED <<backends, bytes, marker, half, get, replaced>>
  BY DEF Receive
<1> HIDE DEF w
<1> QED
  BY <1>1, <1>2, <1>3, UploadMoves DEF w

\* Steps of an upload that leave the objects alone.
LEMMA TurnsKeep ==
  ASSUME ObjInv, NEW u \in Uploaders,
         NoBackend(u) \/ WritePart(u) \/ PutFails(u) \/ StatObject(u) \/ Stat(u) \/ StatPolled(u) \/ Answered(u)
  PROVE  ObjInv'
<1>0. /\ UNCHANGED <<backends, bytes, marker, half, get, replaced>>
      /\ up \in [Uploaders -> Uploads] /\ up[u] \in Uploads /\ UploadOK(up[u])
  BY DEF NoBackend, WritePart, PutFails, StatObject, Stat, StatPolled, Answered, ObjInv, ObjectsTyped
<1>1. ASSUME NEW to \in {"failed", "part", "poll"}, Up(u, to), up[u].at \in {"put", "stat"},
             to \in {"part", "poll"} => Local(up[u].kind)
      PROVE  ObjInv'
  <2> DEFINE w == [up[u] EXCEPT !.at = to]
  <2>1. w \in Uploads /\ UploadOK(w) /\ up' = [up EXCEPT ![u] = w]
    BY <1>0, <1>1 DEF Uploads, UploadOK, Busy, Up
  <2> HIDE DEF w
  <2> QED
    BY <1>0, <2>1, UploadMoves
<1>2. ASSUME NEW w \in {[Fresh EXCEPT !.at = "failed"], Fresh}, up' = [up EXCEPT ![u] = w]
      PROVE  ObjInv'
  <2>1. Fresh \in Uploads /\ UploadOK(Fresh)
    BY DEF Fresh, Uploads, UploadOK, Busy
  <2>2. [Fresh EXCEPT !.at = "failed"] \in Uploads /\ UploadOK([Fresh EXCEPT !.at = "failed"])
    BY DEF Fresh, Uploads, UploadOK, Busy
  <2>3. w \in Uploads /\ UploadOK(w)
    BY <2>1, <2>2
  <2> QED
    BY <1>0, <1>2, <2>3, UploadMoves
<1>3. ASSUME NEW exists \in BOOLEAN, Classify(u, exists, marker[up[u].kind]), up[u].at \in {"stat", "poll"}
      PROVE  ObjInv'
  <2> DEFINE k == up[u].kind
             at == IF exists /\ marker[k] = up[u].sha THEN "unchanged"
                   ELSE IF exists /\ ~up[u].over THEN "conflict" ELSE "put"
             w == [up[u] EXCEPT !.again = (up[u].over = FALSE), !.at = at]
  <2>1. k \in Kinds /\ up[u].sha \in Digests /\ MarkerOK(k)
    BY <1>0, <1>3 DEF UploadOK, Busy, ObjInv
  <2>2. at \in {"unchanged", "conflict", "put"} /\ (at = "unchanged" => marker[k] = up[u].sha)
    OBVIOUS
  <2>3. w \in Uploads /\ w.at = at /\ w.kind = k /\ w.sha = up[u].sha
    BY <1>0, <2>2 DEF Uploads
  <2>4. up' = [up EXCEPT ![u] = w]
    <3>1. up' = [up EXCEPT ![u].again = up[u].over = FALSE, ![u].at = at]
      BY <1>3 DEF Classify
    <3> HIDE DEF at
    <3> QED
      BY <1>0, <3>1
  <2> HIDE DEF w, at
  <2>5. UploadOK(w)
    BY <2>1, <2>2, <2>3, StoreConfig DEF UploadOK, MarkerOK, Busy
  <2> QED
    BY <1>0, <2>3, <2>4, <2>5, UploadMoves
<1>4. CASE NoBackend(u) \/ WritePart(u)
  BY <1>1, <1>4 DEF NoBackend, WritePart
<1>5. CASE PutFails(u) \/ Answered(u)
  BY <1>2, <1>5 DEF PutFails, Answered
<1>6. CASE StatObject(u)
  BY <1>3, <1>6 DEF StatObject
<1>7. CASE Stat(u)
  BY <1>1, <1>3, <1>7 DEF Stat, readSidecar
<1>8. CASE StatPolled(u)
  BY <1>3, <1>8 DEF StatPolled, readSidecar
<1> QED
  BY <1>4, <1>5, <1>6, <1>7, <1>8

\* Steps of an upload that write.
LEMMA WritesKeep ==
  ASSUME ObjInv, NEW u \in Uploaders, S3Put(u) \/ Link(u) \/ Rename(u) \/ writeSidecar(u)
  PROVE  ObjInv'
<1> DEFINE k == up[u].kind
<1>0. /\ UNCHANGED <<backends, half, get>> /\ k \in Kinds /\ up[u].sha \in Digests
      /\ up \in [Uploaders -> Uploads] /\ up[u] \in Uploads /\ UploadOK(up[u])
      /\ bytes \in [Kinds -> Digests \cup {Nil}] /\ marker \in [Kinds -> Digests \cup {Nil}]
      /\ replaced \subseteq Kinds /\ half \subseteq Kinds /\ \A c \in Kinds : MarkerOK(c)
  <2>1. up[u].at \in Busy /\ UNCHANGED <<backends, half, get>>
    BY DEF S3Put, Link, Rename, writeSidecar, Busy
  <2> QED
    BY <2>1 DEF ObjInv, ObjectsTyped, UploadOK
<1>1. PICK to \in {"conflict", "stat", "written", "sidecar"} : Up(u, to)
  BY DEF S3Put, Link, Rename, writeSidecar, Refused412
<1>2. PICK w \in Uploads : up' = [up EXCEPT ![u] = w] /\ w.at = to /\ w.kind = k /\ w.sha = up[u].sha
  <2> DEFINE n == [up[u] EXCEPT !.at = to]
  <2>1. n \in Uploads /\ up' = [up EXCEPT ![u] = n] /\ n.at = to /\ n.kind = k /\ n.sha = up[u].sha
    BY <1>0, <1>1 DEF Up, Uploads
  <2> HIDE DEF n
  <2> QED
    BY <2>1
<1>3. CASE UNCHANGED <<bytes, marker, replaced>> /\ to \in {"conflict", "stat"}
  <2>1. UploadOK(w)
    BY <1>0, <1>2, <1>3 DEF UploadOK, Busy
  <2> QED
    BY <1>0, <1>2, <1>3, <2>1, UploadMoves
<1>4. CASE S3Put(u) /\ ~(bytes[k] # Nil /\ ~up[u].over)
  <2>1. /\ S3(k) /\ bytes' = [bytes EXCEPT ![k] = up[u].sha] /\ marker' = [marker EXCEPT ![k] = up[u].sha]
        /\ to = "written" /\ up[u].at = "put"
        /\ replaced' = IF up[u].over THEN replaced \cup {k} ELSE replaced
    <3>1. Up(u, "written")
      BY <1>4 DEF S3Put
    <3>2. up'[u].at = "written"
      BY <1>0, <3>1 DEF Up, Uploads
    <3> QED
      BY <1>0, <1>2, <1>4, <3>2 DEF S3Put
  <2> HIDE DEF k
  <2>2. Lasting
    BY <1>0, <1>4, <2>1 DEF Lasting
  <2>3. \A c \in Kinds : MarkerOK(c)'
    BY <1>0, <2>1 DEF MarkerOK, S3
  <2>4. UploadOK(w)'
    BY <1>0, <1>2, <2>1 DEF UploadOK, Busy
  <2> QED
    BY <1>0, <1>2, <2>2, <2>3, <2>4, UploadSteps
<1>5. CASE (Link(u) /\ bytes[k] = Nil) \/ Rename(u)
  <2>1. /\ Local(k) /\ bytes' = [bytes EXCEPT ![k] = up[u].sha] /\ marker' = marker
        /\ to = "sidecar" /\ (Rename(u) => replaced' = replaced \cup {k})
        /\ replaced' \in {replaced, replaced \cup {k}} /\ (bytes[k] = Nil \/ k \in replaced')
    <3>1. Up(u, "sidecar") /\ up[u].at = "part"
      BY <1>5 DEF Link, Rename
    <3>2. up'[u].at = "sidecar"
      BY <1>0, <3>1 DEF Up, Uploads
    <3>3. Local(k)
      BY <1>0, <3>1 DEF UploadOK
    <3> QED
      BY <1>0, <1>2, <1>5, <3>2, <3>3 DEF Link, Rename
  <2> HIDE DEF k
  <2>2. Lasting
    BY <1>0, <2>1 DEF Lasting
  <2>3. \A c \in Kinds : MarkerOK(c)'
    BY <1>0, <2>1 DEF MarkerOK, S3, Local
  <2>4. UploadOK(w)'
    BY <1>0, <1>2, <2>1 DEF UploadOK, Busy, Local
  <2> QED
    BY <1>0, <1>2, <2>2, <2>3, <2>4, UploadSteps
<1>6. CASE writeSidecar(u)
  <2>1. /\ Local(k) /\ marker' = [marker EXCEPT ![k] = up[u].sha] /\ UNCHANGED <<bytes, replaced>>
        /\ to = "written" /\ (k \notin replaced => bytes[k] = up[u].sha)
    <3>1. Up(u, "written") /\ up[u].at = "sidecar"
      BY <1>6 DEF writeSidecar
    <3>2. up'[u].at = "written"
      BY <1>0, <3>1 DEF Up, Uploads
    <3> QED
      BY <1>0, <1>2, <1>6, <3>1, <3>2 DEF writeSidecar, UploadOK
  <2> HIDE DEF k
  <2>2. Lasting
    BY <1>0, <2>1 DEF Lasting
  <2>3. \A c \in Kinds : MarkerOK(c)'
    BY <1>0, <2>1 DEF MarkerOK, S3, Local
  <2>4. UploadOK(w)'
    BY <1>0, <1>2, <2>1 DEF UploadOK, Busy
  <2> QED
    BY <1>0, <1>2, <2>2, <2>3, <2>4, UploadSteps
<1>7. CASE (S3Put(u) /\ bytes[k] # Nil /\ ~up[u].over) \/ (Link(u) /\ bytes[k] # Nil)
  <2>1. UNCHANGED <<bytes, marker, replaced>> /\ Up(u, Refused412(u))
    BY <1>7 DEF S3Put, Link
  <2>2. up'[u].at \in {"conflict", "stat"}
    BY <1>0, <2>1 DEF Up, Refused412, Uploads
  <2> QED
    BY <1>0, <1>2, <1>3, <2>1, <2>2
<1> QED
  BY <1>4, <1>5, <1>6, <1>7

\* Deletions: the object is replaced.
LEMMA DeletesKeep ==
  ASSUME ObjInv, NEW k \in Kinds, S3Delete(k) \/ Delete(k) \/ DeleteSidecar(k)
  PROVE  ObjInv'
<1>1. Lasting /\ UNCHANGED <<up, get>>
  BY DEF S3Delete, Delete, DeleteSidecar, Lasting, ObjInv, ObjectsTyped
<1>2. \A c \in Kinds : MarkerOK(c)'
  BY DEF S3Delete, Delete, DeleteSidecar, ObjInv, ObjectsTyped, MarkerOK, S3, Local
<1>3. ObjectsTyped'
  BY <1>1 DEF ObjInv, ObjectsTyped, Lasting
<1> QED
  BY <1>1, <1>2, <1>3, OthersLast DEF ObjInv

LEMMA ReadsKeep ==
  ASSUME ObjInv, NEW g \in Getters, GetInfo(g) \/ GetClosed(g) \/ \E k \in Kinds : Get(g, k)
  PROVE  ObjInv'
<1>1. UNCHANGED <<backends, bytes, marker, up, half, replaced>> /\ Lasting
  BY DEF GetInfo, GetClosed, Get, ObjInv, ObjectsTyped, Lasting
<1>2. PICK q \in Reads : ReadOK(q) /\ get' = [get EXCEPT ![g] = q]
  <2>1. CASE GetInfo(g)
    <3> DEFINE q == [get[g] EXCEPT !.at = "done", !.meta = marker[get[g].kind]]
    <3>1. get[g] \in Reads /\ get \in [Getters -> Reads] /\ ReadOK(get[g]) /\ get[g].at = "open"
      BY <2>1 DEF GetInfo, ObjInv, ObjectsTyped
    <3>2. get[g].kind \in Kinds
      BY <3>1 DEF ReadOK
    <3>3. MarkerOK(get[g].kind) /\ marker[get[g].kind] \in Digests \cup {Nil}
      BY <3>2 DEF ObjInv, ObjectsTyped
    <3>4. q \in Reads /\ ReadOK(q)
      BY <3>1, <3>2, <3>3 DEF Reads, ReadOK, MarkerOK
    <3>5. get' = [get EXCEPT ![g] = q]
      BY <2>1, <3>1 DEF GetInfo, readSidecar
    <3> HIDE DEF q
    <3> QED
      BY <3>4, <3>5
  <2>2. CASE GetClosed(g)
    BY <2>2 DEF GetClosed, Unread, Reads, ReadOK
  <2>3. ASSUME NEW k \in Kinds, Get(g, k)
        PROVE  \E q \in Reads : ReadOK(q) /\ get' = [get EXCEPT ![g] = q]
    <3> DEFINE q == [at |-> IF S3(k) THEN "done" ELSE "open", kind |-> k, sha |-> bytes[k],
                     meta |-> IF S3(k) THEN marker[k] ELSE Nil]
    <3>1. /\ bytes[k] # Nil /\ bytes[k] \in Digests \cup {Nil} /\ marker[k] \in Digests \cup {Nil}
          /\ MarkerOK(k)
      BY <2>3 DEF Get, ObjInv, ObjectsTyped
    <3>2. q \in Reads /\ ReadOK(q)
      BY <3>1 DEF Reads, ReadOK, MarkerOK
    <3>3. get' = [get EXCEPT ![g] = q]
      BY <2>3 DEF Get
    <3> HIDE DEF q
    <3> QED
      BY <3>2, <3>3
  <2> QED
    BY <2>1, <2>2, <2>3
<1>3. get' \in [Getters -> Reads] /\ \A d \in Getters : get'[d] = IF d = g THEN q ELSE get[d]
  BY <1>2 DEF ObjInv, ObjectsTyped
<1>4. \A d \in Getters : ReadOK(get[d])'
  BY <1>1, <1>2, <1>3 DEF ObjInv, ReadOK
<1>5. \A c \in Kinds : MarkerOK(c)'
  BY <1>1 DEF ObjInv, MarkerOK, S3
<1>6. ObjectsTyped'
  BY <1>1, <1>3 DEF ObjInv, ObjectsTyped
<1> QED
  BY <1>1, <1>4, <1>5, <1>6, OthersLast DEF ObjInv

LEMMA ObjInvNext == ObjInv /\ [ObjNext]_objVars => ObjInv'
<1> SUFFICES ASSUME ObjInv, [ObjNext]_objVars PROVE ObjInv'
  OBVIOUS
<1>1. CASE UNCHANGED objVars
  BY <1>1 DEF objVars, ObjInv, ObjectsTyped, MarkerOK, UploadOK, ReadOK, S3, Local
<1>2. CASE Killed
  <2>1. Fresh \in Uploads /\ Unread \in Reads
    BY DEF Fresh, Unread, Uploads, Reads
  <2>2. ObjectsTyped'
    BY <1>2, <2>1 DEF Killed, ObjInv, ObjectsTyped
  <2> QED
    BY <1>2, <2>2 DEF Killed, ObjInv, MarkerOK, UploadOK, ReadOK, S3, Fresh, Unread, Busy
<1> QED
  BY <1>1, <1>2, ReceiveKeeps, TurnsKeep, WritesKeep, DeletesKeep, ReadsKeep DEF ObjNext

\* The clamped window of a ranged read, and the listings of a local store.
LEMMA RangesAreRight == RangesRight
<1>1. ASSUME NEW size \in 0 .. MaxBody, NEW start \in 0 .. MaxBody, NEW end \in 0 .. MaxBody, start <= end
      PROVE  GetRange(size, start, end) = {i \in 0 .. size - 1 : start <= i /\ i <= end}
  <2>1. PICK n \in Nat, a \in Nat, b \in Nat : n = size /\ a = start /\ b = end /\ a <= b
    BY <1>1, StoreConfig
  <2>2. CASE a >= n
    BY <2>1, <2>2 DEF GetRange
  <2>3. CASE a < n /\ b >= n
    BY <2>1, <2>3 DEF GetRange
  <2>4. CASE a < n /\ b < n
    BY <2>1, <2>4 DEF GetRange
  <2> QED
    BY <2>1, <2>2, <2>3, <2>4
<1> QED
  BY <1>1 DEF RangesRight

LEMMA ListingsAreRight == ListingsRight
<1> SUFFICES ASSUME NEW p \in AskedFor, NEW slash \in BOOLEAN
             PROVE  LET matching == {key \in Shelf : p = <<>> \/ StartsWith(key, p, slash)}
                    IN  /\ ListPrefix(p, slash) \subseteq matching
                        /\ slash => matching \subseteq ListPrefix(p, slash)
                        /\ ~IsDir(p) => {key \in matching : Len(key) = Len(p)} \subseteq ListPrefix(p, slash)
                        /\ \A d \in ListDirs(p) : IsDir(d)
  BY Zenon DEF ListingsRight
<1> DEFINE matching == {key \in Shelf : p = <<>> \/ StartsWith(key, p, slash)}
<1>0. p \in Seq(Seq(STRING)) /\ Shelf \subseteq Seq(Seq(STRING))
  BY StoreConfig
<1>1. ListPrefix(p, slash) \subseteq matching
  BY DEF ListPrefix
<1>2. ASSUME slash PROVE matching \subseteq ListPrefix(p, slash)
  BY <1>2 DEF ListPrefix, StartsWith, IsDir
<1>3. ASSUME ~IsDir(p), NEW key \in matching, Len(key) = Len(p) PROVE key \in ListPrefix(p, slash)
  <2>1. CASE p = <<>>
    BY <2>1 DEF ListPrefix
  <2>2. CASE p # <<>> /\ slash
    BY <1>2, <2>2
  <2>3. CASE p # <<>> /\ ~slash
    <3>1. /\ \A i \in 1 .. Len(p) - 1 : key[i] = p[i]
          /\ IsPrefix(p[Len(p)], key[Len(p)]) /\ StartsWith(key, p, slash)
      BY <2>3 DEF StartsWith
    <3>2. PICK n \in Nat : n = Len(p) /\ n # 0
      BY <1>0, <2>3
    <3>3. SubSeq(p, 1, n - 1) = SubSeq(key, 1, n - 1)
      BY <1>0, <1>3, <3>1, <3>2
    <3>4. Front(p) = SubSeq(p, 1, n - 1) /\ Len(Front(p)) = n - 1
      BY <1>0, <3>2 DEF Front
    <3>5. SubSeq(Front(p), 1, n - 1) = SubSeq(p, 1, n - 1)
      BY <1>0, <3>2, <3>4
    <3>6. IsPrefix(Front(p), key)
      BY <1>0, <1>3, <3>2, <3>3, <3>4, <3>5 DEF IsPrefix
    <3> QED
      BY <1>3, <2>3, <3>1, <3>6 DEF ListPrefix
  <2> QED
    BY <2>1, <2>2, <2>3
<1>4. ASSUME NEW d \in ListDirs(p) PROVE IsDir(d)
  <2>1. PICK key \in Shelf : Len(key) > Len(p) + 1 /\ d = SubSeq(key, 1, Len(p) + 1)
    BY DEF ListDirs
  <2>2. PICK m \in Nat, n \in Nat : n = Len(p) + 1 /\ m = Len(key) /\ m > n /\ n > 0
    BY <1>0, <2>1
  <2>3. Len(d) = n /\ d # key /\ key \in Seq(Seq(STRING))
    BY <1>0, <2>1, <2>2
  <2>4. SubSeq(d, 1, n) = SubSeq(key, 1, n)
    BY <1>0, <2>1, <2>2
  <2> QED
    BY <2>2, <2>3, <2>4 DEF IsDir, IsStrictPrefix, IsPrefix
<1> QED
  BY <1>1, <1>2, <1>3, <1>4

\* local.go, s3.go, stagedupload.go: create-only uploads that race on a key, a
\* store that deletes and a process that stops never make "unchanged" or
\* "written" wrong about the bytes or leave metadata of other bytes.
THEOREM StoreAlwaysHonest == ObjSpec => []StoreHonest
<1>1. ObjInv => StoreHonest
  <2>1. ASSUME ObjInv, NEW u \in Uploaders,
               up[u].at \in {"written", "unchanged", "sidecar"} /\ up[u].kind \notin replaced
        PROVE  bytes[up[u].kind] = up[u].sha
    BY <2>1 DEF ObjInv, UploadOK
  <2>2. ASSUME ObjInv, NEW g \in Getters, get[g].at = "done" /\ get[g].kind \notin replaced
        PROVE  get[g].meta \in {Nil, get[g].sha}
    BY <2>2 DEF ObjInv, ReadOK
  <2>3. ASSUME ObjInv, NEW k \in Kinds, S3(k) \/ k \notin replaced PROVE marker[k] \in {Nil, bytes[k]}
    BY <2>3 DEF ObjInv, MarkerOK
  <2> QED
    BY <2>1, <2>2, <2>3, RangesAreRight, ListingsAreRight DEF StoreHonest
<1> QED
  BY <1>1, ObjStarts, ObjInvNext, PTL DEF ObjSpec
==============================================================================
