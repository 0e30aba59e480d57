---------------------------- MODULE ObjectCache ----------------------------
(***************************************************************************)
(* The caching layer of the proxy: cache.CachingBackend over               *)
(* cache.ObjectCache (internal/cache/cache.go), wired in by NewServer when *)
(* ENABLE_OBJECT_CACHE=true.  Concurrent HTTP requests run the methods of  *)
(* CachingBackend; every access to a 2Q cache is one critical section of   *)
(* that cache, so one step here, and everything between two accesses       *)
(* interleaves.                                                            *)
(*                                                                         *)
(* An object is the number of the backend write that produced it and its   *)
(* size class.  Two fields are history, never read by an action's guard:   *)
(* "tainted" marks a cache entry, or a fill in progress, that a write has  *)
(* outdated without an invalidation to come, and "floor" is the newest     *)
(* acknowledged write of the key when a read began.                        *)
(***************************************************************************)
EXTENDS Integers, FiniteSets

CONSTANTS
    Key,                \* object keys, all buckets together
    Bucket,             \* bucket names
    BucketOf,           \* the bucket of each key
    Request,            \* concurrent HTTP requests
    PutSize,            \* size classes a client uploads
    HotCap, MetaCap,    \* capacity of hotCache and metaCache
    MaxVer,             \* bound: number of backend writes explored
    FailedWritesApply,  \* may a backend write fail after changing the object?
    Multipart,          \* do clients complete multipart uploads?
    None                \* "no entry" / "no key"

Size == {"absent", "zero", "small", "large"}
Object == [ver : Nat, size : Size]
Entry == [obj : Object, fresh : BOOLEAN, tainted : BOOLEAN]

ReadPc == {"expired", "fetch", "fill", "fill_meta", "refetch",
           "head_fetch", "head_fill", "replied"}
WritePc == {"inval_hot", "inval_meta",
            "snap_hot", "drop_hot", "snap_meta", "drop_meta"}
Pc == {"idle"} \cup ReadPc \cup WritePc

ASSUME KeyAssumption == BucketOf \in [Key -> Bucket]
ASSUME NoneAssumption == None \notin Key /\ None \notin Entry
ASSUME SizeAssumption == PutSize \subseteq Size \ {"absent"}
ASSUME CapAssumption == HotCap \in Nat \ {0} /\ MetaCap \in Nat \ {0}
ASSUME BoundAssumption == MaxVer \in Nat

VARIABLES
    store,   \* what the wrapped Backend holds for each key
    clock,   \* number of backend writes so far
    hot,     \* ObjectCache.hotCache
    meta,    \* ObjectCache.metaCache
    pc,      \* where each request is in its CachingBackend method
    req,     \* the locals of that method
    acked    \* history: newest acknowledged write of each key

vars == <<store, clock, hot, meta, pc, req, acked>>

NoObject == [ver |-> 0, size |-> "absent"]

Local(k, o, f, t, ks) ==
    [key |-> k, obj |-> o, floor |-> f, tainted |-> t, todo |-> ks]

NoLocal == Local(None, NoObject, 0, FALSE, {})

Init ==
    /\ store = [k \in Key |-> NoObject]
    /\ clock = 0
    /\ hot = [k \in Key |-> None]
    /\ meta = [k \in Key |-> None]
    /\ pc = [r \in Request |-> "idle"]
    /\ req = [r \in Request |-> NoLocal]
    /\ acked = [k \in Key |-> 0]

---------------------------------------------------------------------------
(* The 2Q caches of hashicorp/golang-lru: Add replaces the key's entry and, *)
(* when a new key finds the cache full, evicts one other.                   *)

Present(c) == {k \in Key : c[k] # None}

Adds(c, cap, k, e) ==
    IF c[k] = None /\ Cardinality(Present(c)) >= cap
    THEN {[c EXCEPT ![v] = None, ![k] = e] : v \in Present(c)}
    ELSE {[c EXCEPT ![k] = e]}

Remove(c, k) == [c EXCEPT ![k] = None]

(* Mutant of NewEntry: The expiry is forgotten. *)
NewEntryWithoutExpiry(o, t) == [obj |-> o, tainted |-> t]

NewEntry(o, t) == [obj |-> o, fresh |-> TRUE, tainted |-> t]

Reply(r, k, o, t) ==
    /\ pc' = [pc EXCEPT ![r] = "replied"]
    /\ req' = [req EXCEPT ![r].key = k, ![r].obj = o, ![r].tainted = t]

Goto(r, l) == pc' = [pc EXCEPT ![r] = l]

---------------------------------------------------------------------------
(* GetObject. *)

(* ObjectCache.GetObject: a fresh hot entry is the answer; an expired one   *)
(* is to be removed; otherwise a miss.                                      *)
GetLookup(r, k) ==
    /\ pc[r] = "idle"
    /\ \/ /\ hot[k] # None
          /\ hot[k].fresh
          /\ Goto(r, "replied")
          /\ req' = [req EXCEPT ![r] =
                        Local(k, hot[k].obj, acked[k], hot[k].tainted, {})]
       \/ /\ hot[k] # None
          /\ ~hot[k].fresh
          /\ Goto(r, "expired")
          /\ req' = [req EXCEPT ![r] = Local(k, NoObject, acked[k], FALSE, {})]
       \/ /\ hot[k] = None
          /\ Goto(r, "fetch")
          /\ req' = [req EXCEPT ![r] = Local(k, NoObject, acked[k], FALSE, {})]
    /\ UNCHANGED <<store, clock, hot, meta, acked>>

(* The expired entry is removed in a second critical section: by now it may *)
(* be another request's fresh one.                                          *)
GetExpire(r) ==
    /\ pc[r] = "expired"
    /\ hot' = Remove(hot, req[r].key)
    /\ Goto(r, "fetch")
    /\ UNCHANGED <<store, clock, meta, req, acked>>

(* Backend.GetObject: an error or an object that is not cached is returned  *)
(* as it is; a small one is first read in full.                             *)
GetFetch(r) ==
    /\ pc[r] = "fetch"
    /\ LET k == req[r].key IN
       \/ /\ store[k].size # "small"
          /\ Reply(r, k, store[k], FALSE)
       \/ /\ store[k].size = "small"
          /\ Goto(r, "fill")
          /\ req' = [req EXCEPT ![r].obj = store[k]]
    /\ UNCHANGED <<store, clock, hot, meta, acked>>

(* io.ReadFull succeeded: ObjectCache.PutObject adds to the hot cache...    *)
GetFill(r) ==
    /\ pc[r] = "fill"
    /\ hot' \in Adds(hot, HotCap, req[r].key, NewEntry(req[r].obj, req[r].tainted))
    /\ Goto(r, "fill_meta")
    /\ UNCHANGED <<store, clock, meta, req, acked>>

(* ... and then, separately, to the metadata cache; the data just read is   *)
(* the answer.                                                              *)
GetFillMeta(r) ==
    /\ pc[r] = "fill_meta"
    /\ meta' \in Adds(meta, MetaCap, req[r].key, NewEntry(req[r].obj, req[r].tainted))
    /\ Reply(r, req[r].key, req[r].obj, FALSE)
    /\ UNCHANGED <<store, clock, hot, acked>>

(* io.ReadFull failed: nothing is cached and the backend is asked again.    *)
GetReadFails(r) ==
    /\ pc[r] = "fill"
    /\ Goto(r, "refetch")
    /\ req' = [req EXCEPT ![r].obj = NoObject, ![r].tainted = FALSE]
    /\ UNCHANGED <<store, clock, hot, meta, acked>>

GetRefetch(r) ==
    /\ pc[r] = "refetch"
    /\ Reply(r, req[r].key, store[req[r].key], FALSE)
    /\ UNCHANGED <<store, clock, hot, meta, acked>>

---------------------------------------------------------------------------
(* HeadObject. *)

(* ObjectCache.GetMetadata: any entry is the answer, whatever its age.      *)
HeadLookup(r, k) ==
    /\ pc[r] = "idle"
    /\ \/ /\ meta[k] # None
          /\ Goto(r, "replied")
          /\ req' = [req EXCEPT ![r] =
                        Local(k, meta[k].obj, acked[k], meta[k].tainted, {})]
       \/ /\ meta[k] = None
          /\ Goto(r, "head_fetch")
          /\ req' = [req EXCEPT ![r] = Local(k, NoObject, acked[k], FALSE, {})]
    /\ UNCHANGED <<store, clock, hot, meta, acked>>

HeadFetch(r) ==
    /\ pc[r] = "head_fetch"
    /\ LET k == req[r].key IN
       \/ /\ store[k].size = "absent"
          /\ Reply(r, k, store[k], FALSE)
       \/ /\ store[k].size # "absent"
          /\ Goto(r, "head_fill")
          /\ req' = [req EXCEPT ![r].obj = store[k]]
    /\ UNCHANGED <<store, clock, hot, meta, acked>>

HeadFill(r) ==
    /\ pc[r] = "head_fill"
    /\ meta' \in Adds(meta, MetaCap, req[r].key, NewEntry(req[r].obj, req[r].tainted))
    /\ Reply(r, req[r].key, req[r].obj, FALSE)
    /\ UNCHANGED <<store, clock, hot, acked>>

(* The answer of a read has reached the client. *)
Finish(r) ==
    /\ pc[r] = "replied"
    /\ Goto(r, "idle")
    /\ req' = [req EXCEPT ![r] = NoLocal]
    /\ UNCHANGED <<store, clock, hot, meta, acked>>

(* Backend.GetObject or Backend.HeadObject fails for a reason of its own.   *)
FetchFails(r) ==
    /\ pc[r] \in {"fetch", "refetch", "head_fetch"}
    /\ Goto(r, "idle")
    /\ req' = [req EXCEPT ![r] = NoLocal]
    /\ UNCHANGED <<store, clock, hot, meta, acked>>

---------------------------------------------------------------------------
(* Writes. *)

(* The requests that have read one of the keys ks and will cache it.        *)
Filling(ks) == {q \in Request : /\ pc[q] \in {"fill", "fill_meta", "head_fill"}
                                /\ req[q].key \in ks}

TaintFills(ks) == [q \in Request |-> IF q \in Filling(ks)
                                     THEN [req[q] EXCEPT !.tainted = TRUE]
                                     ELSE req[q]]

TaintEntries(c, ks) == [k \in Key |-> IF k \in ks /\ c[k] # None
                                      THEN [c[k] EXCEPT !.tainted = TRUE]
                                      ELSE c[k]]

(* The backend's keys ks become objects of size class sz.                   *)
BackendWrite(ks, sz) ==
    /\ clock < MaxVer
    /\ clock' = clock + 1
    /\ store' = [k \in Key |-> IF k \in ks THEN [ver |-> clock + 1, size |-> sz]
                               ELSE store[k]]

(* PutObject and DeleteObject: Backend first, then Invalidate.  DeleteObject *)
(* is the write of size "absent".                                           *)
Write(r, k, sz) ==
    /\ pc[r] = "idle"
    /\ BackendWrite({k}, sz)
    /\ req' = [TaintFills({k}) EXCEPT ![r] =
                  Local(k, [ver |-> clock + 1, size |-> sz], 0, FALSE, {})]
    /\ Goto(r, "inval_hot")
    /\ UNCHANGED <<hot, meta, acked>>

PutObject(r, k) == \E sz \in PutSize : Write(r, k, sz)

DeleteObject(r, k) == Write(r, k, "absent")

(* The Backend reports an error although the object has changed (a partial  *)
(* upload, a lost answer): the early return skips Invalidate.               *)
WriteFails(k) ==
    /\ FailedWritesApply
    /\ \E sz \in PutSize \cup {"absent"} : BackendWrite({k}, sz)
    /\ req' = TaintFills({k})
    /\ hot' = TaintEntries(hot, {k})
    /\ meta' = TaintEntries(meta, {k})
    /\ UNCHANGED <<pc, acked>>

(* CachingBackend has no CompleteMultipartUpload: the embedded Backend's    *)
(* method runs, and the caches are not touched.                             *)
CompleteMultipartUpload(k) ==
    /\ Multipart
    /\ \E sz \in PutSize : BackendWrite({k}, sz)
    /\ acked' = [acked EXCEPT ![k] = clock + 1]
    /\ req' = TaintFills({k})
    /\ hot' = TaintEntries(hot, {k})
    /\ meta' = TaintEntries(meta, {k})
    /\ UNCHANGED pc

(* Invalidate: hotCache.Remove, then metaCache.Remove. *)
InvalidateHot(r) ==
    /\ pc[r] = "inval_hot"
    /\ hot' = Remove(hot, req[r].key)
    /\ Goto(r, "inval_meta")
    /\ UNCHANGED <<store, clock, meta, req, acked>>

Acknowledge(ks, v) ==
    acked' = [k \in Key |-> IF k \in ks /\ acked[k] < v THEN v ELSE acked[k]]

(* Mutant of InvalidateMeta: Invalidate leaves the metadata cache alone. *)
InvalidateMetaSkipped(r) ==
    /\ pc[r] = "inval_meta"
    /\ Acknowledge({req[r].key}, req[r].obj.ver)
    /\ Goto(r, "idle")
    /\ req' = [req EXCEPT ![r] = NoLocal]
    /\ UNCHANGED <<store, clock, hot, meta>>

InvalidateMeta(r) ==
    /\ pc[r] = "inval_meta"
    /\ meta' = Remove(meta, req[r].key)
    /\ Acknowledge({req[r].key}, req[r].obj.ver)
    /\ Goto(r, "idle")
    /\ req' = [req EXCEPT ![r] = NoLocal]
    /\ UNCHANGED <<store, clock, hot>>

(* DeleteBucket: the backend's bucket goes, then InvalidateBucket walks a   *)
(* snapshot of each cache's keys.                                           *)
KeysOf(b) == {k \in Key : BucketOf[k] = b}

DeleteBucket(r, k) ==
    /\ pc[r] = "idle"
    /\ BackendWrite(KeysOf(BucketOf[k]), "absent")
    /\ req' = [TaintFills(KeysOf(BucketOf[k])) EXCEPT ![r] =
                  Local(k, [ver |-> clock + 1, size |-> "absent"], 0, FALSE, {})]
    /\ Goto(r, "snap_hot")
    /\ UNCHANGED <<hot, meta, acked>>

BucketKeys(r) == KeysOf(BucketOf[req[r].key])

SnapshotHot(r) ==
    /\ pc[r] = "snap_hot"
    /\ req' = [req EXCEPT ![r].todo = BucketKeys(r) \cap Present(hot)]
    /\ Goto(r, "drop_hot")
    /\ UNCHANGED <<store, clock, hot, meta, acked>>

DropHot(r) ==
    /\ pc[r] = "drop_hot"
    /\ \/ \E k \in req[r].todo :
             /\ hot' = Remove(hot, k)
             /\ req' = [req EXCEPT ![r].todo = @ \ {k}]
             /\ UNCHANGED pc
       \/ /\ req[r].todo = {}
          /\ Goto(r, "snap_meta")
          /\ UNCHANGED <<hot, req>>
    /\ UNCHANGED <<store, clock, meta, acked>>

(* Mutant of SnapshotMeta: it walks the hot cache's keys again. *)
SnapshotMetaOfHot(r) ==
    /\ pc[r] = "snap_meta"
    /\ req' = [req EXCEPT ![r].todo = BucketKeys(r) \cap Present(hot)]
    /\ Goto(r, "drop_meta")
    /\ UNCHANGED <<store, clock, hot, meta, acked>>

SnapshotMeta(r) ==
    /\ pc[r] = "snap_meta"
    /\ req' = [req EXCEPT ![r].todo = BucketKeys(r) \cap Present(meta)]
    /\ Goto(r, "drop_meta")
    /\ UNCHANGED <<store, clock, hot, meta, acked>>

DropMeta(r) ==
    /\ pc[r] = "drop_meta"
    /\ \/ \E k \in req[r].todo :
             /\ meta' = Remove(meta, k)
             /\ req' = [req EXCEPT ![r].todo = @ \ {k}]
             /\ UNCHANGED <<pc, acked>>
       \/ /\ req[r].todo = {}
          /\ Acknowledge(BucketKeys(r), req[r].obj.ver)
          /\ Goto(r, "idle")
          /\ req' = [req EXCEPT ![r] = NoLocal]
          /\ UNCHANGED meta
    /\ UNCHANGED <<store, clock, hot>>

(* The TTL of a cached entry runs out.  Only GetLookup looks at it.         *)
TTLElapses(k) ==
    /\ \/ /\ hot[k] # None /\ hot[k].fresh
          /\ hot' = [hot EXCEPT ![k].fresh = FALSE]
          /\ UNCHANGED meta
       \/ /\ meta[k] # None /\ meta[k].fresh
          /\ meta' = [meta EXCEPT ![k].fresh = FALSE]
          /\ UNCHANGED hot
    /\ UNCHANGED <<store, clock, pc, req, acked>>

---------------------------------------------------------------------------
Get(r) == \/ \E k \in Key : GetLookup(r, k)
          \/ GetExpire(r) \/ GetFetch(r) \/ GetFill(r) \/ GetFillMeta(r)
          \/ GetReadFails(r) \/ GetRefetch(r)

Head(r) == \/ \E k \in Key : HeadLookup(r, k)
           \/ HeadFetch(r) \/ HeadFill(r)

Update(r) == \/ \E k \in Key : PutObject(r, k) \/ DeleteObject(r, k) \/ DeleteBucket(r, k)
             \/ InvalidateHot(r) \/ InvalidateMeta(r)
             \/ SnapshotHot(r) \/ DropHot(r) \/ SnapshotMeta(r) \/ DropMeta(r)

Next ==
    \/ \E r \in Request : Get(r) \/ Head(r) \/ Update(r) \/ Finish(r) \/ FetchFails(r)
    \/ \E k \in Key : WriteFails(k) \/ CompleteMultipartUpload(k) \/ TTLElapses(k)

Spec == Init /\ [][Next]_vars

---------------------------------------------------------------------------
(* Properties. *)

(* The type invariant of the two caches, the backend and the requests.      *)
TypeOK ==
    /\ store \in [Key -> Object]
    /\ clock \in Nat
    /\ hot \in [Key -> Entry \cup {None}]
    /\ meta \in [Key -> Entry \cup {None}]
    /\ pc \in [Request -> Pc]
    /\ req \in [Request -> [key : Key \cup {None}, obj : Object, floor : Nat,
                            tainted : BOOLEAN, todo : SUBSET Key]]
    /\ acked \in [Key -> Nat]

(* A GET or HEAD answers with a version at least as new as every write of   *)
(* the key that was acknowledged before it began, except when it is served  *)
(* from an entry that a write outdated with no invalidation to follow: a    *)
(* fill that had read the backend before the write, a write reported as     *)
(* failed, or a multipart completion.  These are the only stale answers.    *)
ReadsSeeAcknowledgedWrites ==
    \A r \in Request :
        pc[r] = "replied" => req[r].obj.ver >= req[r].floor \/ req[r].tainted

(* An invalidation of k's entry in a cache is still to come.                *)
Pending(k, single, snap, drop) ==
    \E r \in Request : \/ pc[r] \in single /\ req[r].key = k
                       \/ pc[r] \in snap /\ k \in BucketKeys(r)
                       \/ pc[r] = drop /\ k \in req[r].todo

PendingHot(k) == Pending(k, {"inval_hot"}, {"snap_hot"}, "drop_hot")

PendingMeta(k) == Pending(k, {"inval_hot", "inval_meta"},
                          {"snap_hot", "drop_hot", "snap_meta"}, "drop_meta")

(* A cached entry differs from the backend's object only while the writer   *)
(* that outdated it still has its Invalidate (or InvalidateBucket) to do,   *)
(* or if it is tainted in the sense above: no other order of fills, writes, *)
(* evictions and expiries leaves a wrong entry behind.                      *)
StaleHasCause ==
    \A k \in Key :
        /\ (hot[k] # None /\ hot[k].obj # store[k]) => hot[k].tainted \/ PendingHot(k)
        /\ (meta[k] # None /\ meta[k].obj # store[k]) => meta[k].tainted \/ PendingMeta(k)

=============================================================================
