---------------------------- MODULE ObjectStore ----------------------------
(***************************************************************************)
(* The object store (internal/objstore) and the conditional upload that is  *)
(* built on it (uploadOne in routes/papers.go, staging in stagedupload.go).  *)
(* A router sends each kind of asset to its own backend: an S3 bucket, where *)
(* an object and its metadata are written together, or a local directory,    *)
(* where the bytes are published first and the metadata follows in a file of *)
(* its own.  One object per kind; uploaders, deleters and readers overlap.   *)
(***************************************************************************)
EXTENDS Integers, Sequences, SequencesExt, FiniteSets

CONSTANTS
    Kinds,           \* asset kinds
    Uploaders, Getters,
    Digests,         \* contents, by their sha256
    Nil,             \* no object, no metadata
    MaxBody,         \* upload limit, in units
    HeadPeek,        \* bytes looked at before the rest is read
    Shelf,           \* other keys of a local store: sequences of components
    AskedFor,        \* prefixes asked for
    MaxDeletes       \* bound: deletions

ASSUME StoreConfig ==
    /\ Nil \notin Digests
    /\ {MaxBody, HeadPeek, MaxDeletes} \subseteq Nat /\ HeadPeek <= MaxBody
    /\ Shelf \cup AskedFor \subseteq Seq(Seq(STRING))

VARIABLES
    backends,   \* the configuration: backend of each kind, "s3", "local" or "none"
    bytes,      \* what each kind's object holds
    marker,     \* the metadata beside it
    up,         \* the uploads
    deletes,    \* deletions begun
    half,       \* kinds whose bytes a Delete has removed but not the metadata
    get,        \* the reads
    replaced    \* ghost: kinds whose object was overwritten or deleted

objVars == <<backends, bytes, marker, up, deletes, half, get, replaced>>

Fresh == [at |-> "idle", kind |-> Nil, sha |-> Nil, over |-> FALSE, again |-> FALSE]
Unread == [at |-> "idle", kind |-> Nil, sha |-> Nil, meta |-> Nil]
Outcomes == {"written", "unchanged", "conflict", "failed", "toolarge", "invalid"}

ObjTypeOK ==
    /\ bytes \in [Kinds -> Digests \cup {Nil}] /\ marker \in [Kinds -> Digests \cup {Nil}]
    /\ \A u \in Uploaders : /\ up[u].at \in Outcomes \cup {"idle", "put", "part", "sidecar", "stat", "poll"}
                            /\ up[u].sha \in Digests \cup {Nil} /\ up[u].over \in BOOLEAN
    /\ deletes \in 0 .. MaxDeletes
    /\ half \subseteq Kinds /\ replaced \subseteq Kinds

ObjInit ==
    /\ backends \in [Kinds -> {"s3", "local", "none"}]
    /\ bytes = [k \in Kinds |-> Nil] /\ marker = [k \in Kinds |-> Nil]
    /\ up = [u \in Uploaders |-> Fresh] /\ deletes = 0 /\ half = {}
    /\ get = [g \in Getters |-> Unread] /\ replaced = {}

Local(k) == backends[k] = "local"
S3(k) == backends[k] = "s3"
Up(u, to) == up' = [up EXCEPT ![u].at = to]

-----------------------------------------------------------------------------
(* Staging: the request body is received, measured and hashed.               *)

\* One unit more than the limit is read, so that too much can be told apart.
LimitReader(size) == IF size > MaxBody + 1 THEN MaxBody + 1 ELSE size
stageToTmpFile(size, looksRight) ==
    IF ~looksRight \/ size < HeadPeek THEN "invalid"
    ELSE IF LimitReader(size) > MaxBody THEN "toolarge" ELSE "staged"
stageInMemory(size, looksRight) ==
    IF LimitReader(size) > MaxBody THEN "toolarge"
    ELSE IF size = 0 \/ ~looksRight THEN "invalid" ELSE "staged"
\* A temporary file goes again when the body is refused, and at the end.
Receive(u, k, sha, over, size, looksRight, large) ==
    LET staged == IF large THEN stageToTmpFile(size, looksRight) ELSE stageInMemory(size, looksRight)
        first == IF over THEN "stat" ELSE "put"
    IN  /\ up[u].at = "idle"
        /\ up' = [up EXCEPT ![u] =
               IF staged # "staged" THEN [Fresh EXCEPT !.at = staged]
               ELSE [at |-> first, kind |-> k, sha |-> sha, over |-> over, again |-> FALSE]]
        /\ UNCHANGED <<backends, bytes, marker, deletes, half, get, replaced>>

-----------------------------------------------------------------------------
(* PutWithOptions.                                                           *)

\* Router.split: a kind without a backend cannot be written.
NoBackend(u) ==
    /\ up[u].at = "put" /\ backends[up[u].kind] = "none" /\ Up(u, "failed")
    /\ UNCHANGED <<backends, bytes, marker, deletes, half, get, replaced>>
Refused412(u) == IF up[u].again THEN "conflict" ELSE "stat"
\* S3: object and metadata at once, or 412.
S3Put(u) ==
    LET k == up[u].kind
    IN  /\ up[u].at = "put" /\ S3(k)
        /\ IF bytes[k] # Nil /\ ~up[u].over THEN Up(u, Refused412(u)) /\ UNCHANGED <<bytes, marker>>
           ELSE /\ bytes' = [bytes EXCEPT ![k] = up[u].sha] /\ marker' = [marker EXCEPT ![k] = up[u].sha]
                /\ Up(u, "written")
        /\ replaced' = IF up[u].over THEN replaced \cup {k} ELSE replaced
        /\ UNCHANGED <<backends, deletes, half, get>>
\* Local: a part file of its own ...
WritePart(u) ==
    /\ up[u].at = "put" /\ Local(up[u].kind) /\ Up(u, "part")
    /\ UNCHANGED <<backends, bytes, marker, deletes, half, get, replaced>>
\* A variant: the part is renamed over whatever is there.
LinkRenames(u) ==
    LET k == up[u].kind
    IN  /\ up[u].at = "part" /\ ~up[u].over
        /\ bytes' = [bytes EXCEPT ![k] = up[u].sha] /\ Up(u, "sidecar")
        /\ UNCHANGED <<backends, marker, deletes, half, get, replaced>>
\* ... linked into place, which fails if the object exists ...
Link(u) ==
    LET k == up[u].kind
    IN  /\ up[u].at = "part" /\ ~up[u].over
        /\ IF bytes[k] # Nil THEN Up(u, Refused412(u)) /\ UNCHANGED bytes
           ELSE bytes' = [bytes EXCEPT ![k] = up[u].sha] /\ Up(u, "sidecar")
        /\ UNCHANGED <<backends, marker, deletes, half, get, replaced>>
\* ... or renamed over it.
Rename(u) ==
    /\ up[u].at = "part" /\ up[u].over
    /\ bytes' = [bytes EXCEPT ![up[u].kind] = up[u].sha] /\ Up(u, "sidecar")
    /\ replaced' = replaced \cup {up[u].kind}
    /\ UNCHANGED <<backends, marker, deletes, half, get>>
writeSidecar(u) ==
    /\ up[u].at = "sidecar" /\ marker' = [marker EXCEPT ![up[u].kind] = up[u].sha] /\ Up(u, "written")
    /\ UNCHANGED <<backends, bytes, deletes, half, get, replaced>>
\* A step fails: a part that was not published is removed.
PutFails(u) ==
    /\ up[u].at \in {"put", "part", "sidecar", "stat"} /\ up' = [up EXCEPT ![u] = [Fresh EXCEPT !.at = "failed"]]
    /\ UNCHANGED <<backends, bytes, marker, deletes, half, get, replaced>>
\* The process stops: what was published stays, with or without its metadata.
Killed ==
    /\ \E u \in Uploaders : up[u].at \in {"part", "sidecar", "poll"}
    /\ up' = [u \in Uploaders |-> Fresh] /\ get' = [g \in Getters |-> Unread] /\ half' = {}
    /\ UNCHANGED <<backends, bytes, marker, deletes, replaced>>

-----------------------------------------------------------------------------
(* Stat, and what uploadOne makes of it.                                     *)

readSidecar(k) == marker[k]
\* uploadOne after Stat: same digest, nothing to do; without overwrite, an
\* object that is there is a conflict and one that has gone is created again.
Classify(u, exists, meta) ==
    up' = [up EXCEPT ![u].again = up[u].over = FALSE,
                     ![u].at = IF exists /\ meta = up[u].sha THEN "unchanged"
                               ELSE IF exists /\ ~up[u].over THEN "conflict" ELSE "put"]
StatObject(u) ==
    /\ up[u].at = "stat" /\ ~Local(up[u].kind)
    /\ LET k == up[u].kind IN Classify(u, bytes[k] # Nil, marker[k])
    /\ UNCHANGED <<backends, bytes, marker, deletes, half, get, replaced>>
\* Local: metadata that is missing is waited for ...
Stat(u) ==
    LET k == up[u].kind
    IN  /\ up[u].at = "stat" /\ Local(k)
        /\ IF bytes[k] # Nil /\ readSidecar(k) = Nil THEN Up(u, "poll")
           ELSE Classify(u, bytes[k] # Nil, readSidecar(k))
        /\ UNCHANGED <<backends, bytes, marker, deletes, half, get, replaced>>
\* ... for a while.
StatPolled(u) ==
    /\ up[u].at = "poll" /\ Classify(u, TRUE, readSidecar(up[u].kind))
    /\ UNCHANGED <<backends, bytes, marker, deletes, half, get, replaced>>
Answered(u) ==
    /\ up[u].at \in Outcomes /\ up' = [up EXCEPT ![u] = Fresh]
    /\ UNCHANGED <<backends, bytes, marker, deletes, half, get, replaced>>

-----------------------------------------------------------------------------
(* Delete, Get, GetRange and the listings.                                   *)

S3Delete(k) ==
    /\ S3(k) /\ deletes < MaxDeletes /\ deletes' = deletes + 1
    /\ bytes' = [bytes EXCEPT ![k] = Nil] /\ marker' = [marker EXCEPT ![k] = Nil]
    /\ replaced' = replaced \cup {k} /\ UNCHANGED <<backends, up, half, get>>
Delete(k) ==
    /\ Local(k) /\ deletes < MaxDeletes /\ deletes' = deletes + 1 /\ k \notin half
    /\ bytes' = [bytes EXCEPT ![k] = Nil] /\ half' = half \cup {k} /\ replaced' = replaced \cup {k}
    /\ UNCHANGED <<backends, marker, up, get>>
DeleteSidecar(k) ==
    /\ k \in half /\ marker' = [marker EXCEPT ![k] = Nil] /\ half' = half \ {k}
    /\ UNCHANGED <<backends, bytes, up, deletes, get, replaced>>

\* Get: the open file keeps its bytes; the metadata is read after it was opened.
Get(g, k) ==
    /\ get[g].at = "idle" /\ bytes[k] # Nil
    /\ get' = [get EXCEPT ![g] = [at |-> IF S3(k) THEN "done" ELSE "open", kind |-> k, sha |-> bytes[k],
                                  meta |-> IF S3(k) THEN marker[k] ELSE Nil]]
    /\ UNCHANGED <<backends, bytes, marker, up, deletes, half, replaced>>
GetInfo(g) ==
    /\ get[g].at = "open" /\ get' = [get EXCEPT ![g].at = "done", ![g].meta = readSidecar(get[g].kind)]
    /\ UNCHANGED <<backends, bytes, marker, up, deletes, half, replaced>>
GetClosed(g) ==
    /\ get[g].at = "done" /\ get' = [get EXCEPT ![g] = Unread]
    /\ UNCHANGED <<backends, bytes, marker, up, deletes, half, replaced>>

\* The window, both ends inclusive and clamped to the object, as the units read.
GetRange(size, start, end) ==
    LET last == IF end >= size THEN size - 1 ELSE end
    IN  IF start >= size THEN {} ELSE start .. start + (last - start + 1) - 1
\* The walk starts at the prefix if it is a directory and otherwise at its
\* parent, where names are compared with its last component.
IsDir(p) == \E key \in Shelf : IsStrictPrefix(p, key)
StartsWith(key, p, slash) ==
    IF slash THEN IsStrictPrefix(p, key)
    ELSE /\ Len(key) >= Len(p) /\ \A i \in 1 .. Len(p) - 1 : key[i] = p[i]
         /\ IsPrefix(p[Len(p)], key[Len(p)])
ListPrefix(p, slash) ==
    IF p = <<>> THEN Shelf
    ELSE IF IsDir(p) THEN {key \in Shelf : IsStrictPrefix(p, key) /\ StartsWith(key, p, slash)}
    ELSE IF slash THEN {}
    ELSE {key \in Shelf : /\ IsPrefix(Front(p), key) /\ IsPrefix(p[Len(p)], key[Len(key)])
                          /\ StartsWith(key, p, slash)}
ListDirs(p) ==
    {SubSeq(key, 1, Len(p) + 1) : key \in {x \in Shelf : IsPrefix(p, x) /\ Len(x) > Len(p) + 1}}
ObjNext ==
    \/ Killed
    \/ \E u \in Uploaders :
          \/ NoBackend(u) \/ S3Put(u) \/ WritePart(u) \/ Link(u) \/ Rename(u) \/ writeSidecar(u) \/ PutFails(u)
          \/ StatObject(u) \/ Stat(u) \/ StatPolled(u) \/ Answered(u)
          \/ \E k \in Kinds, sha \in Digests, over \in BOOLEAN, size \in 0 .. MaxBody + 2, right, large \in BOOLEAN :
                Receive(u, k, sha, over, size, right, large)
    \/ \E k \in Kinds : S3Delete(k) \/ Delete(k) \/ DeleteSidecar(k)
    \/ \E g \in Getters : GetInfo(g) \/ GetClosed(g) \/ \E k \in Kinds : Get(g, k)

ObjSpec == ObjInit /\ [][ObjNext]_objVars

-----------------------------------------------------------------------------
(* Properties.                                                               *)

RangesRight ==
    \A size, start, end \in 0 .. MaxBody :
        start <= end => GetRange(size, start, end) = {i \in 0 .. size - 1 : start <= i /\ i <= end}
\* "ListPrefix returns every object whose key starts with prefix", but in a local
\* store names below a directory are compared with the prefix's last component
\* too, and siblings of a directory are left out.  A listing of it can be relied
\* on to return only objects whose key starts with the prefix, all of them if the
\* prefix ends in a slash, and otherwise, if it names no directory, those of its
\* last directory.
ListingsRight ==
    \A p \in AskedFor, slash \in BOOLEAN :
        LET matching == {key \in Shelf : p = <<>> \/ StartsWith(key, p, slash)}
        IN  /\ ListPrefix(p, slash) \subseteq matching
            /\ slash => matching \subseteq ListPrefix(p, slash)
            /\ ~IsDir(p) => {key \in matching : Len(key) = Len(p)} \subseteq ListPrefix(p, slash)
            /\ \A d \in ListDirs(p) : IsDir(d)
\* Create-only uploads race on one key: an upload that reports "unchanged" or
\* "written" is right about the bytes, metadata never belongs to other bytes,
\* and listings and ranged reads give what their contract says.  (In a local
\* store an object that was overwritten or deleted is excepted: two renames and
\* the two metadata writes after them may land in different orders.)
StoreHonest ==
    /\ \A k \in Kinds : S3(k) \/ k \notin replaced => marker[k] \in {Nil, bytes[k]}
    /\ \A u \in Uploaders : up[u].at \in {"written", "unchanged", "sidecar"} /\ up[u].kind \notin replaced
                            => bytes[up[u].kind] = up[u].sha
    /\ \A g \in Getters : get[g].at = "done" /\ get[g].kind \notin replaced => get[g].meta \in {Nil, get[g].sha}
    /\ RangesRight /\ ListingsRight
=============================================================================
