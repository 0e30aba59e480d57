--------------------------- MODULE VirtualBuckets ---------------------------
(***************************************************************************)
(* The virtual buckets of S3Backend (internal/storage/s3.go): each is a    *)
(* real bucket at some endpoint, or the part of one under a prefix.  Every *)
(* operation first gets the client of its bucket (S3Clients), whose        *)
(* endpoint decides whose buckets it works on.  A client lists one virtual *)
(* bucket page by page while others store and delete objects in all, and   *)
(* under names that no virtual bucket has: nothing refuses those, and the  *)
(* name of a real bucket reaches the parts of all that share it.           *)
(*                                                                         *)
(* The S3 service is external: it keeps the real buckets of each endpoint  *)
(* and answers a list request in one step, in the order of the keys, with  *)
(* a NextMarker on truncated answers to requests with a delimiter only.    *)
(***************************************************************************)
EXTENDS KeyStrings

CONSTANTS
    Request, Lister,   \* operations of the backend; one of them lists
    Bucket,      \* names of buckets in requests
    Config,      \* bucketConfigs: name to its configuration; Unset, <<>> if not given
    Default,     \* the backend's own configuration
    Unset, None,
    Mapping,     \* bucketMapping: name to name
    Virtual,     \* the buckets whose objects clients use
    Key,         \* the keys clients use
    Query,       \* list requests: [prefix, delimiter (is it /?), maxKeys]
    MaxWrites    \* bound: changes explored

ASSUME NameAssumption == Virtual \subseteq Bucket /\ Lister \in Request
ASSUME ConfigAssumption ==
    \A v \in DOMAIN Config :
        /\ DOMAIN Config[v] = {"real", "prefix", "region", "endpoint", "creds"}
        /\ Config[v].prefix \in Seq(Nat)
ASSUME BoundAssumption == MaxWrites \in Nat
ASSUME QueryAssumption ==
    \A q \in Query : /\ q.prefix \in Seq(Nat) /\ q.delimiter \in BOOLEAN
                     /\ q.maxKeys \in Nat \ {0}

(* The router redirects paths with two slashes in a row to clean ones, so   *)
(* no key begins with a slash.                                              *)
ASSUME KeyAssumption == \A k \in Key : k \in Seq(Nat) /\ ~HasPrefix(k, <<Slash>>)

(* mapBucket *)
MapBucket(v) ==
    IF v \in DOMAIN Config /\ Config[v].real # Unset THEN Config[v].real
    ELSE IF v \in DOMAIN Mapping THEN Mapping[v] ELSE v

(* Mutant: the prefix is used as it is configured. *)
GetPrefixAsConfigured(v) == IF v \in DOMAIN Config THEN Config[v].prefix ELSE <<>>

(* getPrefixForBucket: a prefix ends in a slash. *)
GetPrefixForBucket(v) ==
    IF v \notin DOMAIN Config \/ Config[v].prefix = <<>> THEN <<>>
    ELSE IF Last(Config[v].prefix) = Slash THEN Config[v].prefix
    ELSE Append(Config[v].prefix, Slash)

(* addPrefixToKey *)
AddPrefixToKey(v, key) ==
    LET prefix == GetPrefixForBucket(v) IN
    IF prefix # <<>> /\ HasPrefix(key, <<Slash>>) THEN prefix \o Tail(key)
    ELSE prefix \o key

(* removePrefixFromKey *)
RemovePrefixFromKey(v, key) == TrimPrefix(key, GetPrefixForBucket(v))

VARIABLES
    clients, made, pc, cfg, got,   \* as in S3Clients
    bucket,      \* the bucket each operation is on
    real,        \* the keys of each endpoint's buckets
    st,          \* the listing client: "idle", "listing", "done", "failed"
    target,      \* the bucket it lists
    query,       \* and what it asks for, on every page
    marker,      \* of its next request
    listed,      \* keys it was given
    folders,     \* common prefixes it was given
    kept,        \* history: keys that were in the target all along,
    existed,     \* and at some time, by what the requests were about
    writes

Clients == INSTANCE S3Clients

(* Where a bucket is by its configuration: the endpoint, and the real       *)
(* bucket there.                                                            *)
Place == [v \in Virtual |->
    <<IF v \in DOMAIN Config /\ Config[v].endpoint # Unset THEN Config[v].endpoint
      ELSE Default.endpoint,
      MapBucket(v)>>]

Places == {Default.endpoint, Unset} \cup {Config[v].endpoint : v \in DOMAIN Config}

(* Virtual buckets that share a real one are given parts of it that do not  *)
(* nest, such as a and a/b do; that is up to the configuration.  Whether a  *)
(* prefix is written with its last slash makes no difference to it.         *)
ConfiguredPart(v) ==
    IF v \notin DOMAIN Config \/ Config[v].prefix = <<>> THEN <<>>
    ELSE IF Last(Config[v].prefix) = Slash THEN Front(Config[v].prefix)
    ELSE Config[v].prefix

ASSUME SeparateAssumption ==
    \A u, v \in Virtual :
        u # v /\ Place[u] = Place[v] =>
            /\ ConfiguredPart(u) # <<>> /\ ConfiguredPart(u) # ConfiguredPart(v)
            /\ ~IsPrefix(Append(ConfiguredPart(u), Slash), ConfiguredPart(v))

(* What is stored under another name and lies in a virtual bucket's part    *)
(* has a key there: what comes after the prefix.                            *)
ConfiguredPrefix(v) ==
    IF v \notin DOMAIN Config \/ Config[v].prefix = <<>> THEN <<>>
    ELSE Append(ConfiguredPart(v), Slash)

ASSUME OtherNameAssumption ==
    \A b \in Bucket \ Virtual, k \in Key, v \in Virtual :
        LET x == ConfiguredPrefix(b) \o k IN
        HasPrefix(x, ConfiguredPrefix(v)) => TrimPrefix(x, ConfiguredPrefix(v)) \in Key

(* A bucket without a configuration of its own is not the real bucket of    *)
(* one that has: getClientForBucket would take the endpoint of that one.    *)
ASSUME UnconfiguredAssumption ==
    \A v \in Virtual \ DOMAIN Config : Clients!ByRealName(v) = {}

(* What a client is made from. *)
ClientType ==
    [serial : Nat, endpoint : Places,
     region : {Default.region} \cup {Config[v].region : v \in DOMAIN Config},
     creds : {Default.creds} \cup {Config[v].creds : v \in DOMAIN Config}]

ASSUME NoneAssumption ==
    None \notin ClientType /\ \A v \in DOMAIN Config : Config[v] # None

client == <<st, target, query, marker, listed, folders>>
operations == <<clients, made, pc, cfg, got, bucket>>
vars == <<operations, real, client, kept, existed, writes>>

Init ==
    /\ Clients!Init
    /\ bucket = [r \in Request |-> None]
    /\ real = [p \in Places \X {MapBucket(b) : b \in Bucket} |-> {}]
    /\ st = "idle" /\ target \in Virtual /\ query \in Query
    /\ marker = <<>>
    /\ listed = {} /\ folders = {}
    /\ kept = {}
    /\ existed = [v \in Virtual |-> {}]
    /\ writes = 0

---------------------------------------------------------------------------
(* Every operation gets its client first. *)

Begin(r, v) ==
    /\ Clients!GetClientForBucket(r, v)
    /\ bucket' = [bucket EXCEPT ![r] = v]
    /\ UNCHANGED <<real, client, kept, existed>>

(* A new client is looked for and created, or cannot be. *)
FindClient(r) ==
    /\ Clients!Lookup(r) \/ Clients!CreateClient(r) \/ Clients!CreateFails(r)
    /\ UNCHANGED <<bucket, real, client, kept, existed, writes>>

End(r) ==
    /\ Clients!Finish(r)
    /\ bucket' = [bucket EXCEPT ![r] = None]

(* The real bucket the operation works on, at the client's endpoint. *)
Reached(r) == <<got[r].endpoint, MapBucket(bucket[r])>>

(* There is no client, the request fails, or the operation only reads. *)
EndWithoutEffect(r) ==
    /\ r # Lister
    /\ End(r)
    /\ UNCHANGED <<real, client, kept, existed, writes>>

---------------------------------------------------------------------------
(* PutObject and DeleteObject, as far as names go. *)

(* The keys of virtual bucket v that a request for a key is about: that key *)
(* if the request names v; and if it names no virtual bucket, what it       *)
(* reaches under the prefix of v.                                           *)
About(r, key, v) ==
    LET x == AddPrefixToKey(bucket[r], key)
        prefix == GetPrefixForBucket(v) IN
    IF bucket[r] \in Virtual THEN {k \in {key} : bucket[r] = v}
    ELSE {k \in {TrimPrefix(x, prefix)} : Reached(r) = Place[v] /\ HasPrefix(x, prefix)}

PutObject(r, key) ==
    /\ pc[r] = "got" /\ r # Lister
    /\ real' = [real EXCEPT ![Reached(r)] = @ \cup {AddPrefixToKey(bucket[r], key)}]
    /\ existed' = [v \in Virtual |-> existed[v] \cup About(r, key, v)]
    /\ End(r)
    /\ UNCHANGED <<client, kept, writes>>

DeleteObject(r, key) ==
    /\ pc[r] = "got" /\ r # Lister
    /\ real' = [real EXCEPT ![Reached(r)] = @ \ {AddPrefixToKey(bucket[r], key)}]
    /\ kept' = kept \ About(r, key, target)
    /\ End(r)
    /\ UNCHANGED <<client, existed, writes>>

---------------------------------------------------------------------------
(* The S3 service's list request: the first max-keys entries after the      *)
(* marker.  A key with a delimiter after the prefix is represented by its   *)
(* common prefix.                                                           *)

Entry(key, prefix) ==
    IF query.delimiter /\ Delimiters(key, Len(prefix)) # {}
    THEN [folder |-> TRUE, name |-> CommonPrefix(key, Len(prefix))]
    ELSE [folder |-> FALSE, name |-> key]

Entries(place, prefix, after) ==
    {e \in {Entry(key, prefix) : key \in {k \in real[place] : HasPrefix(k, prefix)}} :
        after = <<>> \/ Less(after, e.name)}

(* The entries that fit on a page. *)
PageOf(es) == {e \in es : Cardinality({f \in es : Less(f.name, e.name)}) < query.maxKeys}

LastOf(es) == CHOOSE e \in es : \A f \in es \ {e} : Less(f.name, e.name)

---------------------------------------------------------------------------
(* ListObjectsWithDelimiter *)

(* Mutant: the marker is passed on without the bucket's prefix. *)
RealMarkerUnprefixed(v) == marker


RealMarker(v) == IF marker = <<>> THEN <<>> ELSE AddPrefixToKey(v, marker)

(* Keys that end in a slash are left out if there is a delimiter.           *)
Placeholder(key) == query.delimiter /\ key # <<>> /\ Last(key) = Slash

ActualPrefix(v) == GetPrefixForBucket(v) \o query.prefix

StartListing ==
    /\ st = "idle"
    /\ st' = "listing"
    /\ kept' = {k \in Key : AddPrefixToKey(target, k) \in real[Place[target]]}
    /\ UNCHANGED <<operations, real, target, query, marker, listed, folders, existed, writes>>

(* One page: ListObjectsWithDelimiter's answer, and the client's next       *)
(* request: from NextMarker, or without one from the page's last key.       *)
ListPage ==
    /\ pc[Lister] = "got"
    /\ LET es == Entries(Reached(Lister), ActualPrefix(target), RealMarker(target))
           page == PageOf(es)
           names(folder) == {RemovePrefixFromKey(target, e.name) :
               e \in {f \in page : f.folder = folder
                                   /\ HasPrefix(f.name, GetPrefixForBucket(target))}}
           keys == {k \in names(FALSE) : ~Placeholder(k)}
           truncated == page # es IN
       /\ listed' = listed \cup keys
       /\ folders' = folders \cup names(TRUE)
       /\ \/ /\ truncated
             /\ marker' = RemovePrefixFromKey(target, LastOf(page).name)
             /\ UNCHANGED st
          \/ /\ ~truncated
             /\ st' = "done"
             /\ UNCHANGED marker
    /\ End(Lister)
    /\ UNCHANGED <<real, target, query, kept, existed, writes>>

AskForPage == st = "listing" /\ Begin(Lister, target) /\ UNCHANGED writes

(* Without a client there is no answer, and the listing is given up. *)
GiveUp ==
    /\ pc[Lister] = "failed"
    /\ st' = "failed"
    /\ End(Lister)
    /\ UNCHANGED <<real, target, query, marker, listed, folders, kept, existed, writes>>

List == StartListing \/ AskForPage \/ FindClient(Lister) \/ ListPage \/ GiveUp

(* The others; writes bounds how many. *)
Operate(r) ==
    \/ /\ writes < MaxWrites
       /\ writes' = writes + 1
       /\ \E v \in Bucket : Begin(r, v)
    \/ FindClient(r) \/ EndWithoutEffect(r)
    \/ \E k \in Key : PutObject(r, k) \/ DeleteObject(r, k)

Next == List \/ \E r \in Request \ {Lister} : Operate(r)

Spec == Init /\ [][Next]_vars

(* The client asks for page after page. *)
FairSpec == Spec /\ WF_vars(List)

---------------------------------------------------------------------------
(* Properties. *)

(* The virtual buckets in the real bucket of a name, at whatever endpoint.  *)
Sharing == [b \in Bucket |-> {v \in Virtual : MapBucket(v) = MapBucket(b)}]

(* docs/BUCKET-REGION-MAPPING.md: prefixes provide "isolation between       *)
(* virtual buckets sharing the same real bucket".  Each virtual bucket is a *)
(* set of keys; a request that names a virtual bucket changes only that     *)
(* one, and one that names none changes at most one key, of a bucket whose  *)
(* real bucket the name stands for: there is no isolation from those.       *)
Abstract == INSTANCE Buckets WITH
    Behind <- Sharing, named <- bucket,
    objects <- [v \in Virtual |->
        LET prefix == GetPrefixForBucket(v) IN
        {TrimPrefix(k, prefix) : k \in {r \in real[Place[v]] : HasPrefix(r, prefix)}}]

Isolation == Abstract!Spec

(* The same of a listing: it shows keys that were stored in the bucket it   *)
(* is of, without the prefix, by requests that name it or name no virtual   *)
(* bucket and reach its part of the real one; it shows none of another's.   *)
ListedIsOwn ==
    /\ \A k \in listed : k \in existed[target]
    /\ \A f \in folders : \E k \in existed[target] : HasPrefix(k, f)

(* A key that was there all along is listed, by itself or under a common    *)
(* prefix, on whatever page the markers make it fall; keys that end in a    *)
(* slash are placeholders.                                                  *)
NothingLost ==
    st = "done" => \A k \in kept : HasPrefix(k, query.prefix) =>
        k \in listed \/ Placeholder(k) \/ \E f \in folders : HasPrefix(k, f)

(* The pages come to an end. *)
ListingEnds == (st = "listing") ~> (st \in {"done", "failed"})

(* Operations that find no client for their buckets at once still end up    *)
(* with one client per key of the map; and whichever bucket it was created  *)
(* for, it talks to the endpoint and the region of the bucket it is used    *)
(* for.                                                                     *)
ClientsAreShared == Clients!OneClientPerKey /\ Clients!ClientReachesBucket

=============================================================================
