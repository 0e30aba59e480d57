------------------------- MODULE FileSystemListing -------------------------
(***************************************************************************)
(* A client lists a bucket of the filesystem backend page by page, through *)
(* Handler.listObjects (pkg/s3/handler.go) and FileSystemBackend.          *)
(* ListObjectsWithDelimiter (internal/storage/filesystem.go), while others *)
(* store and delete objects and upload parts.                              *)
(*                                                                         *)
(* A path is the sequence of its names.  filepath.Walk visits what it read *)
(* of each directory in the order of the names; "todo" is what it has read *)
(* and not yet visited.  The .meta files beside the objects are left out:  *)
(* the walk passes over them as it does over an object whose key ends so.  *)
(***************************************************************************)
EXTENDS KeyStrings

CONSTANTS
    Object,      \* paths of the objects clients may store
    PartFile,    \* paths of the part files of multipart uploads
    Query,       \* list requests: [prefix, delimiter (is it /?), maxKeys]
    MaxWrites    \* bound: changes of the bucket explored

ASSUME BoundAssumption == MaxWrites \in Nat

(* No object has its path below the directory of an upload. *)
ASSUME KindAssumption ==
    \A p \in PartFile : p \notin Object /\ \A o \in Object : ~IsPrefix(Front(p), o)

ASSUME QueryAssumption ==
    \A q \in Query : q.prefix \in Seq(Nat) /\ q.delimiter \in BOOLEAN /\ q.maxKeys \in Nat \ {0}

Root == <<>>

Parents(p) == {SubSeq(p, 1, n) : n \in 1 .. Len(p) - 1}

Files == Object \cup PartFile
Paths == Files \cup UNION {Parents(p) : p \in Files}

(* filepath.ToSlash of the path relative to the bucket. *)
KeyOf(p) == FoldLeft(LAMBDA s, name : IF s = <<>> THEN name ELSE s \o <<Slash>> \o name,
                     <<>>, p)

Name == Seq(Nat) \ {<<>>}

(* Names are not empty, and have no slash: keys tell files apart. *)
ASSUME PathAssumption ==
    /\ \A p \in Paths : p \in Seq(Name) \ {Root} /\ KeyOf(p) \in Name
    /\ \A p, q \in Files : KeyOf(p) = KeyOf(q) => p = q

(* The end of the name of a .meta file: a dot and a letter for the rest. *)
DotMeta == <<1, 7>>

(* A key is folded into a common prefix if it has a delimiter after the     *)
(* prefix asked for.                                                        *)
Folds(q, key) == q.delimiter /\ Delimiters(key, Len(q.prefix)) # {}

VARIABLES
    files, dirPaths,    \* paths in the bucket
    query,          \* what the client asks for, on every page
    st,             \* the client: "idle", "walking" (a request is served), "done"
    todo, count,    \* the walk
    marker,         \* the request's marker
    page,           \* keys of the page so far
    listed,         \* keys the client was given
    repeated,       \* history: those of them it was given twice
    ends,           \* history: the keys it went on from
    stuck,          \* history: did it have to stop at a truncated page?
    folders,        \* common prefixes it was given (and the page's)
    paged,          \* prefixSet: the page's own common prefixes
    kept,           \* history: objects that were there all along
    writes

bucket == <<files, dirPaths, writes>>
client == <<query, st, todo, count, marker, page, listed, repeated, ends, stuck, folders, paged>>
listingVars == <<bucket, client, kept>>

ListingInit ==
    /\ files = {} /\ dirPaths = {}
    /\ query \in Query /\ st = "idle"
    /\ todo = {} /\ count = 0
    /\ marker = <<>>
    /\ page = <<>> /\ listed = {}
    /\ repeated = {} /\ ends = {} /\ stuck = FALSE
    /\ folders = {} /\ paged = {}
    /\ kept = {}
    /\ writes = 0

---------------------------------------------------------------------------
(* The other clients. *)

(* PutObject, and UploadPart for a part file: MkdirAll and Create, which    *)
(* fail when a file is where a directory should be or the other way round.  *)
Put(p) ==
    /\ writes < MaxWrites
    /\ p \notin files \cup dirPaths
    /\ Parents(p) \cap files = {}
    /\ files' = files \cup {p}
    /\ dirPaths' = dirPaths \cup Parents(p)
    /\ writes' = writes + 1
    /\ UNCHANGED <<client, kept>>

(* DeleteObject removes the file and leaves its directories. *)
Delete(p) ==
    /\ writes < MaxWrites
    /\ p \in files \cap Object
    /\ files' = files \ {p}
    /\ kept' = kept \ {p}
    /\ writes' = writes + 1
    /\ UNCHANGED <<dirPaths, client>>

(* CompleteMultipartUpload and AbortMultipartUpload remove the files of an  *)
(* upload one by one, and then its directory.                               *)
RemoveUpload(p) ==
    /\ writes < MaxWrites
    /\ \/ /\ p \in files
          /\ files' = files \ {p}
          /\ UNCHANGED dirPaths
       \/ /\ Front(p) \in dirPaths /\ \A f \in files : Front(f) # Front(p)
          /\ dirPaths' = dirPaths \ {Front(p)}
          /\ UNCHANGED files
    /\ writes' = writes + 1
    /\ UNCHANGED <<client, kept>>

---------------------------------------------------------------------------
(* The walk. *)

(* The order of filepath.Walk: by names, a directory before what is in it.  *)
Before(p, q) ==
    \/ IsStrictPrefix(p, q)
    \/ \E n \in 1 .. Len(p) :
          /\ n <= Len(q)
          /\ SubSeq(p, 1, n - 1) = SubSeq(q, 1, n - 1)
          /\ Less(p[n], q[n])

Children(d) == {p \in files \cup dirPaths : Len(p) = Len(d) + 1 /\ IsPrefix(d, p)}

(* A client asks for its first page. *)
Start ==
    /\ st = "idle"
    /\ st' = "walking"
    /\ todo' = {Root}
    /\ kept' = files \cap Object
    /\ UNCHANGED <<bucket, query, count, marker, page, listed, repeated, ends, stuck, folders,
                   paged>>

(* Mutant: the marker's own key passes the filter. *)
FromMarker(key) == marker = <<>> \/ ~Less(key, marker)

(* The marker filter. *)
AfterMarker(key) == marker = <<>> \/ Less(marker, key)

(* What the function given to Walk returns from early: the page is full,    *)
(* the bucket itself, another prefix, a key not after the marker.           *)
Passed(p) ==
    \/ count >= query.maxKeys
    \/ p = Root
    \/ ~HasPrefix(KeyOf(p), query.prefix)
    \/ ~AfterMarker(KeyOf(p))

Fold(key) == Folds(query, key)

(* What is added to the contents: not a directory, and no .meta file, or    *)
(* what looks like one.                                                     *)
IsMeta(key) == IsSuffix(DotMeta, key)
RegularFile(p) == p \in files /\ ~IsMeta(KeyOf(p))

(* Mutant: what is passed over is skipped with filepath.SkipDir. *)
OpenedUnlessPassed(p) ==
    IF p = Root \/ (p \in dirPaths /\ ~Passed(p)) THEN Children(p) ELSE {}

(* Walk reads a directory before it calls the function on it.               *)
Opened(p) == IF p \in dirPaths \cup {Root} THEN Children(p) ELSE {}

(* One call of the function given to Walk, after the directory was read; a  *)
(* path that is gone by now is reported to it as an error.                  *)
Visit(p) ==
    /\ st = "walking"
    /\ p \in todo
    /\ \A q \in todo \ {p} : Before(p, q)
    /\ todo' = (todo \ {p}) \cup Opened(p)
    /\ LET key == KeyOf(p)
           folder == CommonPrefix(key, Len(query.prefix)) IN
       \/ /\ Passed(p) \/ p \notin files \cup dirPaths
          /\ UNCHANGED <<count, page, paged, folders>>
       \/ /\ ~Passed(p) /\ p \in files \cup dirPaths /\ Fold(key)
          /\ paged' = paged \cup {folder}
          /\ folders' = folders \cup {folder}
          /\ count' = IF folder \in paged THEN count ELSE count + 1
          /\ UNCHANGED page
       \/ /\ ~Passed(p) /\ ~Fold(key) /\ RegularFile(p)
          /\ page' = Append(page, key)
          /\ count' = count + 1
          /\ UNCHANGED <<paged, folders>>
       \/ /\ ~Passed(p) /\ ~Fold(key) /\ p \in files \cup dirPaths /\ ~RegularFile(p)
          /\ UNCHANGED <<count, page, paged, folders>>
    /\ UNCHANGED <<bucket, query, st, marker, listed, repeated, ends, stuck, kept>>

Twice(s) == {s[i] : i \in {i \in DOMAIN s : \E j \in DOMAIN s : i # j /\ s[i] = s[j]}}

(* The response.  It never has a NextMarker, so the client goes on from the *)
(* last key of a truncated page, and has to stop when there is none.        *)
EndPage ==
    /\ st = "walking"
    /\ todo = {}
    /\ listed' = listed \cup ToSet(page)
    /\ repeated' = repeated \cup Twice(page) \cup (ToSet(page) \cap listed)
    /\ page' = <<>> /\ paged' = {} /\ count' = 0
    /\ \/ /\ count >= query.maxKeys /\ page # <<>>
          /\ marker' = Last(page)
          /\ ends' = ends \cup {Last(page)}
          /\ todo' = {Root}
          /\ UNCHANGED <<st, stuck>>
       \/ /\ count < query.maxKeys \/ page = <<>>
          /\ st' = "done"
          /\ stuck' = (count >= query.maxKeys)
          /\ UNCHANGED <<marker, todo, ends>>
    /\ UNCHANGED <<bucket, query, folders, kept>>

Walk == Start \/ (\E p \in todo : Visit(p)) \/ EndPage

Changes == \/ \E p \in Object \cup PartFile : Put(p)
           \/ \E p \in files : Delete(p)
           \/ \E p \in PartFile : RemoveUpload(p)

ListingNext == Walk \/ Changes

ListingSpec == ListingInit /\ [][ListingNext]_listingVars

(* A request that is served goes on, and the client asks for the next page. *)
FairListingSpec == ListingSpec /\ WF_listingVars(Walk)

---------------------------------------------------------------------------
(* Properties. *)

(* The walk comes to p first, but the key of q is not the greater one: so   *)
(* it is with photos/a and photos-2020/a, as - is below the slash.          *)
OutOfOrder(p, q) == Before(p, q) /\ ~Less(KeyOf(p), KeyOf(q))

(* The client went on from the key of p. *)
WentOnFrom(p) == KeyOf(p) \in ends

(* A listing that is followed to its end misses no object without a cause:  *)
(* one that was there all along appears by its key or in a common prefix,   *)
(* however the listing is cut into pages and whatever others do meanwhile,  *)
(* unless its key ends in .meta; or a page ended with a file that the walk  *)
(* meets before it but whose key is greater, and the marker filter then     *)
(* passes over it; or a page was full of common prefixes, and as NextMarker *)
(* is never set there was nothing to go on from.                            *)
NothingLost ==
    st = "done" =>
        \A o \in kept : LET key == KeyOf(o) IN
            HasPrefix(key, query.prefix) =>
                \/ key \in listed
                \/ query.delimiter /\ \E f \in folders : HasPrefix(key, f)
                \/ IsMeta(key)
                \/ \E p \in Files : WentOnFrom(p) /\ OutOfOrder(p, o)
                \/ query.delimiter /\ stuck

(* No key is listed twice, on one page or on two, unless a page went on     *)
(* after it to a file with a smaller key and ended there: then the marker   *)
(* filter lets it pass again.                                               *)
ListedOnce ==
    \A key \in repeated : \E o, p \in Files :
        KeyOf(o) = key /\ WentOnFrom(p) /\ OutOfOrder(o, p)

(* A client that follows the pages comes to an end: every page's marker is  *)
(* beyond the one before.                                                   *)
ListingEnds == (st = "walking") ~> (st = "done")

=============================================================================
