------------------------- MODULE ObjectCacheProofs -------------------------
(***************************************************************************)
(* Proofs about ObjectCache, for any keys, buckets, requests, sizes and    *)
(* capacities: type correctness, that only tainted entries give stale      *)
(* answers (ReadsSeeAcknowledgedWrites), and that an entry differs from    *)
(* the backend only if it is tainted or about to be removed                *)
(* (StaleHasCause).                                                        *)
(*                                                                         *)
(* The inductive invariant follows a write through its two invalidations.  *)
(* From the moment a writer has cleaned a cache of a key, every untainted  *)
(* entry there is at least as new as its write (HotFloor, MetaFloor), so   *)
(* the acknowledgement, which comes later, finds no older one.  A fill can *)
(* only add the object the backend still holds, or it is tainted           *)
(* (RequestOK).  With that, StaleHasCause is inductive too: a writer stops *)
(* being a cause for a key only by removing the key's entry, or by finding *)
(* that there is none.                                                     *)
(***************************************************************************)
EXTENDS ObjectCache, TLAPS

(* The keys the write of request r changed. *)
Targets(r) ==
    IF pc[r] \in {"inval_hot", "inval_meta"} THEN {req[r].key} ELSE BucketKeys(r)

(* Request r has removed, or found absent, the entry of k in the hot cache. *)
CleanedHot(r, k) ==
    \/ pc[r] = "inval_meta" /\ k = req[r].key
    \/ pc[r] = "drop_hot" /\ k \in BucketKeys(r) \ req[r].todo
    \/ pc[r] \in {"snap_meta", "drop_meta"} /\ k \in BucketKeys(r)

CleanedMeta(r, k) == pc[r] = "drop_meta" /\ k \in BucketKeys(r) \ req[r].todo

(* Request r has the entry of k in the hot, or the metadata, cache before   *)
(* it: the parts of PendingHot and PendingMeta.                             *)
ToCleanHot(r, k) ==
    \/ pc[r] = "inval_hot" /\ req[r].key = k
    \/ pc[r] = "snap_hot" /\ k \in BucketKeys(r)
    \/ pc[r] = "drop_hot" /\ k \in req[r].todo

ToCleanMeta(r, k) ==
    \/ pc[r] \in {"inval_hot", "inval_meta"} /\ req[r].key = k
    \/ pc[r] \in {"snap_hot", "drop_hot", "snap_meta"} /\ k \in BucketKeys(r)
    \/ pc[r] = "drop_meta" /\ k \in req[r].todo

Untainted(c, k) == c[k] # None /\ ~c[k].tainted

Versions == \A k \in Key : acked[k] <= store[k].ver /\ store[k].ver <= clock

FillPc == {"fill", "fill_meta", "head_fill"}
FetchPc == {"expired", "fetch", "refetch", "head_fetch"} \cup FillPc

(* What request r's locals mean at the step it has reached: what a writer   *)
(* wrote is not newer than what the backend holds, what a reader read is    *)
(* not older than what was acknowledged when it began, and the object of an *)
(* untainted fill is the backend's.                                         *)
RequestOK(r) ==
    /\ pc[r] # "idle" => req[r].key \in Key
    /\ pc[r] \in WritePc => \A k \in Key : k \in Targets(r) => req[r].obj.ver <= store[k].ver
    /\ pc[r] \in FetchPc => req[r].floor <= acked[req[r].key]
    /\ pc[r] \in FillPc => /\ req[r].floor <= req[r].obj.ver
                           /\ ~req[r].tainted => req[r].obj = store[req[r].key]
    /\ pc[r] = "replied" => req[r].obj.ver >= req[r].floor \/ req[r].tainted

HotFloor ==
    \A k \in Key : Untainted(hot, k) =>
        /\ hot[k].obj.ver >= acked[k]
        /\ \A r \in Request : CleanedHot(r, k) => hot[k].obj.ver >= req[r].obj.ver

MetaFloor ==
    \A k \in Key : Untainted(meta, k) =>
        /\ meta[k].obj.ver >= acked[k]
        /\ \A r \in Request : CleanedMeta(r, k) => meta[k].obj.ver >= req[r].obj.ver

IInv ==
    /\ TypeOK /\ Versions /\ HotFloor /\ MetaFloor /\ StaleHasCause
    /\ \A r \in Request : RequestOK(r)

---------------------------------------------------------------------------
(* Helpers. *)

LocalType == [key : Key \cup {None}, obj : Object, floor : Nat,
              tainted : BOOLEAN, todo : SUBSET Key]

(* Removing an entry, as lru's Remove does, empties that slot and no other. *)
LEMMA RemoveLemma ==
    ASSUME NEW c \in [Key -> Entry \cup {None}], NEW k
    PROVE  /\ Remove(c, k) \in [Key -> Entry \cup {None}]
           /\ \A j \in Key : Remove(c, k)[j] = IF j = k THEN None ELSE c[j]
BY DEF Remove

(* What NewEntry builds from an object is an entry of the cache.            *)
LEMMA EntryType ==
    ASSUME NEW o \in Object, NEW t \in BOOLEAN
    PROVE  NewEntry(o, t) \in Entry
BY DEF NewEntry, Entry

(* Marking entries or fills as tainted changes nothing else.                *)
LEMMA TaintEntriesLemma ==
    ASSUME NEW c \in [Key -> Entry \cup {None}], NEW ks
    PROVE  /\ TaintEntries(c, ks) \in [Key -> Entry \cup {None}]
           /\ \A j \in Key : Untainted(TaintEntries(c, ks), j) =>
                 j \notin ks /\ TaintEntries(c, ks)[j] = c[j] /\ Untainted(c, j)
BY NoneAssumption DEF TaintEntries, Entry, Untainted

(* A backend write only marks the fills under way: their key, object and    *)
(* snapshot stay, and each one of the keys written is marked.               *)
LEMMA TaintFillsLemma ==
    ASSUME TypeOK, NEW ks
    PROVE  /\ TaintFills(ks) \in [Request -> LocalType]
           /\ \A q \in Request :
                 /\ TaintFills(ks)[q].key = req[q].key
                 /\ TaintFills(ks)[q].obj = req[q].obj
                 /\ TaintFills(ks)[q].floor = req[q].floor
                 /\ TaintFills(ks)[q].todo = req[q].todo
                 /\ q \in Filling(ks) => TaintFills(ks)[q].tainted = TRUE
                 /\ q \notin Filling(ks) => TaintFills(ks)[q] = req[q]
BY DEF TaintFills, TypeOK, LocalType

---------------------------------------------------------------------------
(* What a step has to respect, cache by cache and request by request.       *)

(* Every untainted entry of the changed cache d is the backend's object, or *)
(* was in c already.                                                        *)
Kept(c, d) ==
    \A k \in Key : Untainted(d, k) =>
        d[k].obj = store[k] \/ (Untainted(c, k) /\ d[k].obj = c[k].obj)

(* HotFloor survives a step that adds to the hot cache only what the        *)
(* backend holds, provided that what is acknowledged was written by a       *)
(* request that has cleaned the hot cache.                                  *)
LEMMA HotFloorStep ==
    ASSUME IInv, TypeOK', Kept(hot, hot'),
           \A k \in Key : Untainted(hot', k) =>
              /\ \/ acked'[k] = acked[k]
                 \/ \E q \in Request : CleanedHot(q, k) /\ acked'[k] = req[q].obj.ver
              /\ \A q \in Request : CleanedHot(q, k)' =>
                    CleanedHot(q, k) /\ req'[q].obj = req[q].obj
    PROVE  HotFloor'
<1>1. \A k \in Key : acked[k] \in Nat /\ store[k].ver \in Nat
  BY DEF IInv, TypeOK, Object
<1>2. \A q \in Request : req[q].obj.ver \in Nat
  BY DEF IInv, TypeOK, Object
<1>3. \A k \in Key, q \in Request : CleanedHot(q, k) => req[q].obj.ver <= store[k].ver
  BY DEF IInv, RequestOK, CleanedHot, Targets, WritePc
<1>4. \A k \in Key : /\ Untainted(hot, k) => hot[k].obj.ver \in Nat
                     /\ Untainted(hot', k) => hot'[k].obj.ver \in Nat
  BY DEF IInv, TypeOK, Entry, Object, Untainted
<1>5. \A k \in Key : acked[k] <= store[k].ver
  BY DEF IInv, Versions
<1> SUFFICES ASSUME NEW k \in Key, Untainted(hot', k)
             PROVE  /\ hot'[k].obj.ver >= acked'[k]
                    /\ \A q \in Request : CleanedHot(q, k)' => hot'[k].obj.ver >= req'[q].obj.ver
  BY DEF HotFloor, Untainted
<1>6. /\ hot'[k].obj.ver >= acked[k]
      /\ \A q \in Request : CleanedHot(q, k) => hot'[k].obj.ver >= req[q].obj.ver
  BY <1>1, <1>2, <1>3, <1>4, <1>5 DEF IInv, HotFloor, Kept
<1> QED BY <1>6

(* The same for the metadata cache.                                         *)
LEMMA MetaFloorStep ==
    ASSUME IInv, TypeOK', Kept(meta, meta'),
           \A k \in Key : Untainted(meta', k) =>
              /\ \/ acked'[k] = acked[k]
                 \/ \E q \in Request : CleanedMeta(q, k) /\ acked'[k] = req[q].obj.ver
              /\ \A q \in Request : CleanedMeta(q, k)' =>
                    CleanedMeta(q, k) /\ req'[q].obj = req[q].obj
    PROVE  MetaFloor'
<1>1. \A k \in Key : acked[k] \in Nat /\ store[k].ver \in Nat
  BY DEF IInv, TypeOK, Object
<1>2. \A q \in Request : req[q].obj.ver \in Nat
  BY DEF IInv, TypeOK, Object
<1>3. \A k \in Key, q \in Request : CleanedMeta(q, k) => req[q].obj.ver <= store[k].ver
  BY DEF IInv, RequestOK, CleanedMeta, Targets, WritePc
<1>4. \A k \in Key : /\ Untainted(meta, k) => meta[k].obj.ver \in Nat
                     /\ Untainted(meta', k) => meta'[k].obj.ver \in Nat
  BY DEF IInv, TypeOK, Entry, Object, Untainted
<1>5. \A k \in Key : acked[k] <= store[k].ver
  BY DEF IInv, Versions
<1> SUFFICES ASSUME NEW k \in Key, Untainted(meta', k)
             PROVE  /\ meta'[k].obj.ver >= acked'[k]
                    /\ \A q \in Request : CleanedMeta(q, k)' => meta'[k].obj.ver >= req'[q].obj.ver
  BY DEF MetaFloor, Untainted
<1>6. /\ meta'[k].obj.ver >= acked[k]
      /\ \A q \in Request : CleanedMeta(q, k) => meta'[k].obj.ver >= req[q].obj.ver
  BY <1>1, <1>2, <1>3, <1>4, <1>5 DEF IInv, MetaFloor, Kept
<1> QED BY <1>6

(* A request with an entry to remove is what PendingHot and PendingMeta     *)
(* ask for.                                                                 *)
LEMMA PendingLemma ==
    ASSUME NEW k
    PROVE  /\ PendingHot(k) <=> \E q \in Request : ToCleanHot(q, k)
           /\ PendingMeta(k) <=> \E q \in Request : ToCleanMeta(q, k)
BY DEF PendingHot, PendingMeta, Pending, ToCleanHot, ToCleanMeta

(* StaleHasCause survives a step that adds only what the backend holds, if  *)
(* whoever changes the backend taints the entry or has it still to remove,  *)
(* and whoever gives up being a cause leaves no entry, or a tainted one.    *)
LEMMA CauseStep ==
    ASSUME IInv, Kept(hot, hot'), Kept(meta, meta'),
           \A k \in Key : store'[k] # store[k] =>
              /\ Untainted(hot', k) => \E q \in Request : ToCleanHot(q, k)'
              /\ Untainted(meta', k) => \E q \in Request : ToCleanMeta(q, k)',
           \A k \in Key, q \in Request :
              /\ ToCleanHot(q, k) /\ Untainted(hot', k) => ToCleanHot(q, k)'
              /\ ToCleanMeta(q, k) /\ Untainted(meta', k) => ToCleanMeta(q, k)'
    PROVE  StaleHasCause'
<1> SUFFICES ASSUME NEW k \in Key
             PROVE  /\ Untainted(hot', k) /\ hot'[k].obj # store'[k] => PendingHot(k)'
                    /\ Untainted(meta', k) /\ meta'[k].obj # store'[k] => PendingMeta(k)'
  BY DEF StaleHasCause, Untainted
<1>1. /\ PendingHot(k)' <=> \E q \in Request : ToCleanHot(q, k)'
      /\ PendingMeta(k)' <=> \E q \in Request : ToCleanMeta(q, k)'
  BY PendingLemma DEF PendingHot, PendingMeta, Pending, ToCleanHot, ToCleanMeta, BucketKeys
<1>2. ASSUME Untainted(hot', k), hot'[k].obj # store'[k], store'[k] = store[k]
      PROVE  \E q \in Request : ToCleanHot(q, k)'
  <2>1. Untainted(hot, k) /\ hot[k].obj # store[k]
    BY <1>2 DEF Kept
  <2>2. \E q \in Request : ToCleanHot(q, k)
    BY <2>1, PendingLemma DEF IInv, StaleHasCause, Untainted
  <2> QED BY <1>2, <2>2
<1>3. ASSUME Untainted(meta', k), meta'[k].obj # store'[k], store'[k] = store[k]
      PROVE  \E q \in Request : ToCleanMeta(q, k)'
  <2>1. Untainted(meta, k) /\ meta[k].obj # store[k]
    BY <1>3 DEF Kept
  <2>2. \E q \in Request : ToCleanMeta(q, k)
    BY <2>1, PendingLemma DEF IInv, StaleHasCause, Untainted
  <2> QED BY <1>3, <2>2
<1> QED BY <1>1, <1>2, <1>3

(* A request that does not move keeps its meaning while versions only grow  *)
(* and a write taints the fills it outdates.                                *)
LEMMA Undisturbed ==
    ASSUME IInv, TypeOK', NEW q \in Request,
           pc'[q] = pc[q], req'[q].key = req[q].key, req'[q].obj = req[q].obj,
           req'[q].floor = req[q].floor,
           pc[q] = "replied" => req'[q].tainted = req[q].tainted,
           pc[q] \in FillPc /\ ~req'[q].tainted =>
               ~req[q].tainted /\ store'[req[q].key] = store[req[q].key],
           \A k \in Key : store[k].ver <= store'[k].ver /\ acked[k] <= acked'[k]
    PROVE  RequestOK(q)'
<1>1. /\ req[q].obj.ver \in Nat /\ req[q].floor \in Nat
      /\ \A k \in Key : /\ acked[k] \in Nat /\ acked'[k] \in Nat
                        /\ store[k].ver \in Nat /\ store'[k].ver \in Nat
  BY DEF IInv, TypeOK, Object
<1>2. Targets(q)' = Targets(q)
  BY DEF Targets, BucketKeys
<1>3. RequestOK(q)
  BY DEF IInv
<1>4. pc[q] \in FetchPc => pc[q] # "idle"
  BY DEF FetchPc, FillPc
<1>5. pc[q] \in WritePc => \A k \in Key : k \in Targets(q)' => req'[q].obj.ver <= store'[k].ver
  BY <1>1, <1>2, <1>3 DEF RequestOK
<1>6. pc[q] \in FetchPc => req'[q].floor <= acked'[req'[q].key]
  BY <1>1, <1>3, <1>4 DEF RequestOK
<1>7. pc[q] \in FillPc => (~req'[q].tainted => req'[q].obj = store'[req'[q].key])
  BY <1>3 DEF RequestOK
<1> QED BY <1>3, <1>5, <1>6, <1>7 DEF RequestOK

(* Request r alone moves. *)
Only(r) == \A q \in Request : q # r => pc'[q] = pc[q] /\ req'[q] = req[q]

(* A step of a read: the backend and the acknowledgements stay.             *)
LEMMA ReadStep ==
    ASSUME IInv, TypeOK', NEW r \in Request, Only(r), UNCHANGED <<store, clock, acked>>,
           pc[r] \notin WritePc, pc'[r] \notin WritePc,
           RequestOK(r)', Kept(hot, hot'), Kept(meta, meta')
    PROVE  IInv'
<1>0. \A k \in Key : acked[k] \in Nat /\ store[k].ver \in Nat
  BY DEF IInv, TypeOK, Object
<1>1. \A q \in Request : RequestOK(q)'
  BY <1>0, Undisturbed DEF Only
<1>2. \A q \in Request, k \in Key :
         /\ CleanedHot(q, k)' => CleanedHot(q, k) /\ req'[q].obj = req[q].obj
         /\ CleanedMeta(q, k)' => CleanedMeta(q, k) /\ req'[q].obj = req[q].obj
  BY DEF Only, CleanedHot, CleanedMeta, BucketKeys, WritePc
<1>3. HotFloor'
  BY <1>2, HotFloorStep
<1>4. MetaFloor'
  BY <1>2, MetaFloorStep
<1>5. Versions'
  BY DEF IInv, Versions
<1>6. \A q \in Request, k \in Key : /\ ToCleanHot(q, k) => ToCleanHot(q, k)'
                                    /\ ToCleanMeta(q, k) => ToCleanMeta(q, k)'
  BY DEF Only, ToCleanHot, ToCleanMeta, BucketKeys, WritePc
<1>7. StaleHasCause'
  BY <1>6, CauseStep
<1> QED BY <1>1, <1>3, <1>4, <1>5, <1>7 DEF IInv

---------------------------------------------------------------------------
(* The actions of a read. *)

(* Unchanged and shrunk caches are kept. *)
LEMMA KeptSame == \A c : Kept(c, c)
BY DEF Kept

(* A cache from which an entry is removed gains nothing stale.              *)
LEMMA KeptRemove ==
    ASSUME NEW c \in [Key -> Entry \cup {None}], NEW k
    PROVE  Kept(c, Remove(c, k))
BY RemoveLemma DEF Kept, Untainted

(* So is a cache to which a fill is added. *)
LEMMA KeptAdds ==
    ASSUME IInv, NEW r \in Request, pc[r] \in FillPc, NEW cap,
           NEW c \in [Key -> Entry \cup {None}],
           NEW d \in Adds(c, cap, req[r].key, NewEntry(req[r].obj, req[r].tainted))
    PROVE  Kept(c, d) /\ d \in [Key -> Entry \cup {None}]
<1> DEFINE e == NewEntry(req[r].obj, req[r].tainted)
<1>1. req[r] \in LocalType /\ RequestOK(r) /\ store \in [Key -> Object]
  BY DEF IInv, TypeOK, LocalType
<1>2. e \in Entry /\ e.obj = req[r].obj /\ e.tainted = req[r].tainted
  BY <1>1, EntryType DEF LocalType, NewEntry
<1>3. req[r].key \in Key
  BY <1>1 DEF RequestOK, FillPc
<1>4. /\ d \in [Key -> Entry \cup {None}]
      /\ d[req[r].key] = e
      /\ \A j \in Key : j # req[r].key => d[j] = c[j] \/ d[j] = None
  BY <1>2, <1>3, NoneAssumption DEF Adds, Present
<1>5. ~e.tainted => e.obj = store[req[r].key]
  BY <1>1, <1>2 DEF RequestOK
<1>6. store[req[r].key].ver \in Nat
  BY <1>1, <1>3 DEF Object
<1>7. ASSUME NEW k \in Key, Untainted(d, k)
      PROVE  d[k].obj = store[k] \/ (Untainted(c, k) /\ d[k].obj = c[k].obj)
  <2>1. CASE k = req[r].key
    BY <1>4, <1>5, <1>6, <1>7, <2>1 DEF Untainted
  <2>2. CASE k # req[r].key
    BY <1>4, <1>7, <2>2 DEF Untainted
  <2> QED BY <2>1, <2>2
<1> QED BY <1>4, <1>7 DEF Kept

(* How the common tails of the methods change the request. *)
LEMMA ReplyLemma ==
    ASSUME TypeOK, NEW r \in Request, NEW k \in Key, NEW o \in Object,
           Reply(r, k, o, FALSE)
    PROVE  /\ pc' \in [Request -> Pc] /\ req' \in [Request -> LocalType] /\ Only(r)
           /\ pc'[r] = "replied" /\ req'[r].key = k /\ req'[r].obj = o
           /\ req'[r].floor = req[r].floor
BY DEF TypeOK, Reply, LocalType, Only, Pc, ReadPc

(* A step that moves one request on leaves the locals of the others alone.  *)
LEMMA LocalLemma ==
    ASSUME TypeOK, NEW r \in Request, NEW l \in Pc, NEW x \in LocalType,
           Goto(r, l), req' = [req EXCEPT ![r] = x]
    PROVE  /\ pc' \in [Request -> Pc] /\ req' \in [Request -> LocalType] /\ Only(r)
           /\ pc'[r] = l /\ req'[r] = x
BY DEF TypeOK, Goto, LocalType, Only

(* The records that requests keep as locals have their type.                *)
LEMMA LocalTypes ==
    /\ NoObject \in Object /\ NoLocal \in LocalType
    /\ \A k \in Key, o \in Object, f \in Nat, t \in BOOLEAN : Local(k, o, f, t, {}) \in LocalType
BY DEF NoObject, NoLocal, Local, LocalType, Object, Size

(* CachingBackend.GetObject's look into the cache preserves the invariant.  *)
LEMMA GetLookupStep ==
    ASSUME IInv, NEW r \in Request, NEW k \in Key, GetLookup(r, k)
    PROVE  IInv'
<1>1. /\ TypeOK /\ acked[k] \in Nat /\ NoObject \in Object
      /\ hot[k] # None => hot[k] \in Entry
  BY LocalTypes DEF IInv, TypeOK
<1>2. CASE hot[k] # None /\ hot[k].fresh
  <2> DEFINE x == Local(k, hot[k].obj, acked[k], hot[k].tainted, {})
  <2>1. x \in LocalType /\ Goto(r, "replied") /\ req' = [req EXCEPT ![r] = x]
    BY <1>1, <1>2, LocalTypes DEF GetLookup, Entry
  <2>2. /\ pc' \in [Request -> Pc] /\ req' \in [Request -> LocalType] /\ Only(r)
        /\ pc'[r] = "replied" /\ req'[r] = x
    BY <1>1, <2>1, LocalLemma DEF Pc, ReadPc
  <2>3. ~hot[k].tainted => hot[k].obj.ver >= acked[k]
    BY <1>2 DEF IInv, HotFloor, Untainted
  <2>4. RequestOK(r)'
    BY <2>2, <2>3 DEF RequestOK, Local, WritePc, FetchPc, FillPc
  <2>5. TypeOK'
    BY <1>1, <2>2 DEF GetLookup, TypeOK, LocalType
  <2> QED BY <2>2, <2>4, <2>5, ReadStep, KeptSame DEF GetLookup, WritePc
<1>3. CASE ~(hot[k] # None /\ hot[k].fresh)
  <2> DEFINE x == Local(k, NoObject, acked[k], FALSE, {})
  <2>1. PICK l \in {"expired", "fetch"} : Goto(r, l) /\ req' = [req EXCEPT ![r] = x]
    BY <1>3 DEF GetLookup
  <2>2. /\ pc' \in [Request -> Pc] /\ req' \in [Request -> LocalType] /\ Only(r)
        /\ pc'[r] = l /\ req'[r] = x
    BY <1>1, <2>1, LocalLemma, LocalTypes DEF Pc, ReadPc
  <2>3. RequestOK(r)'
    BY <1>1, <2>2 DEF RequestOK, Local, WritePc, FetchPc, FillPc, GetLookup
  <2>4. TypeOK'
    BY <1>1, <2>2 DEF GetLookup, TypeOK, LocalType
  <2> QED BY <2>2, <2>3, <2>4, ReadStep, KeptSame DEF GetLookup, WritePc
<1> QED BY <1>2, <1>3

(* Removing an expired entry preserves the invariant.                       *)
LEMMA GetExpireStep ==
    ASSUME IInv, NEW r \in Request, GetExpire(r)
    PROVE  IInv'
<1>1. TypeOK' /\ Only(r) /\ pc'[r] = "fetch" /\ req' = req
  BY RemoveLemma DEF IInv, TypeOK, GetExpire, Goto, Only, Pc, ReadPc
<1>2. RequestOK(r)'
  BY <1>1 DEF IInv, RequestOK, GetExpire, WritePc, FetchPc, FillPc
<1>3. Kept(hot, hot')
  BY KeptRemove DEF IInv, TypeOK, GetExpire
<1> QED BY <1>1, <1>2, <1>3, ReadStep, KeptSame DEF GetExpire, WritePc

(* Fetching from the backend preserves it: the object is not older than     *)
(* what was acknowledged when the GET began.                                *)
LEMMA GetFetchStep ==
    ASSUME IInv, NEW r \in Request, GetFetch(r)
    PROVE  IInv'
<1> DEFINE k == req[r].key
<1>1. /\ TypeOK /\ k \in Key /\ store[k] \in Object /\ req[r].floor \in Nat
      /\ acked[k] \in Nat /\ req[r].floor <= acked[k] /\ acked[k] <= store[k].ver
  BY DEF IInv, TypeOK, RequestOK, Versions, GetFetch, FetchPc
<1>2. store[k].ver \in Nat /\ req[r].floor <= store[k].ver
  BY <1>1 DEF Object
<1>3. CASE store[k].size # "small"
  <2>1. Reply(r, k, store[k], FALSE)
    BY <1>3 DEF GetFetch
  <2>2. /\ pc' \in [Request -> Pc] /\ req' \in [Request -> LocalType] /\ Only(r)
        /\ pc'[r] = "replied" /\ req'[r].key = k /\ req'[r].obj = store[k]
        /\ req'[r].floor = req[r].floor
    BY <1>1, <2>1, ReplyLemma
  <2>3. RequestOK(r)'
    BY <1>1, <1>2, <2>2 DEF RequestOK, WritePc, FetchPc, FillPc
  <2>4. TypeOK'
    BY <1>1, <2>2 DEF GetFetch, TypeOK, LocalType
  <2> QED BY <2>2, <2>3, <2>4, ReadStep, KeptSame DEF GetFetch, WritePc
<1>4. CASE store[k].size = "small"
  <2>1. /\ pc' \in [Request -> Pc] /\ req' \in [Request -> LocalType] /\ Only(r)
        /\ pc'[r] = "fill" /\ req'[r].key = k /\ req'[r].obj = store[k]
        /\ req'[r].floor = req[r].floor
    <3>1. pc' = [pc EXCEPT ![r] = "fill"] /\ req' = [req EXCEPT ![r].obj = store[k]]
      BY <1>4 DEF GetFetch, Goto
    <3>2. req' \in [Request -> LocalType]
      BY <1>1, <3>1 DEF TypeOK, LocalType
    <3> QED BY <1>1, <3>1, <3>2 DEF TypeOK, LocalType, Only, Pc, ReadPc
  <2>2. RequestOK(r)'
    BY <1>1, <1>2, <2>1 DEF RequestOK, WritePc, FetchPc, FillPc, GetFetch
  <2>3. TypeOK'
    BY <1>1, <2>1 DEF GetFetch, TypeOK, LocalType
  <2> QED BY <2>1, <2>2, <2>3, ReadStep, KeptSame DEF GetFetch, WritePc
<1> QED BY <1>3, <1>4

(* Filling the hot cache preserves the invariant.                           *)
LEMMA GetFillStep ==
    ASSUME IInv, NEW r \in Request, GetFill(r)
    PROVE  IInv'
<1>1. pc[r] \in FillPc /\ hot \in [Key -> Entry \cup {None}]
  BY DEF GetFill, FillPc, IInv, TypeOK
<1>2. Kept(hot, hot') /\ hot' \in [Key -> Entry \cup {None}]
  BY <1>1, KeptAdds DEF GetFill
<1>3. TypeOK' /\ Only(r) /\ pc'[r] = "fill_meta" /\ req' = req
  BY <1>2 DEF IInv, TypeOK, GetFill, Goto, Only, Pc, ReadPc
<1>4. RequestOK(r)'
  BY <1>3 DEF IInv, RequestOK, GetFill, WritePc, FetchPc, FillPc
<1> QED BY <1>2, <1>3, <1>4, ReadStep, KeptSame DEF GetFill, WritePc

(* GetFillMeta and HeadFill do the same: add to the metadata cache, answer. *)
LEMMA FillMetaStep ==
    ASSUME IInv, NEW r \in Request, GetFillMeta(r) \/ HeadFill(r)
    PROVE  IInv'
<1>1. /\ pc[r] \in FillPc /\ pc[r] \notin WritePc /\ UNCHANGED <<store, clock, hot, acked>>
      /\ meta' \in Adds(meta, MetaCap, req[r].key, NewEntry(req[r].obj, req[r].tainted))
      /\ Reply(r, req[r].key, req[r].obj, FALSE)
  BY DEF GetFillMeta, HeadFill, FillPc, WritePc
<1>2. /\ TypeOK /\ meta \in [Key -> Entry \cup {None}]
      /\ req[r].key \in Key /\ req[r].obj \in Object /\ req[r].floor \in Nat
      /\ req[r].floor <= req[r].obj.ver
  BY <1>1 DEF IInv, TypeOK, RequestOK, FillPc
<1>3. Kept(meta, meta') /\ meta' \in [Key -> Entry \cup {None}]
  BY <1>1, <1>2, KeptAdds
<1>4. /\ pc' \in [Request -> Pc] /\ req' \in [Request -> LocalType] /\ Only(r)
      /\ pc'[r] = "replied" /\ req'[r].key = req[r].key /\ req'[r].obj = req[r].obj
      /\ req'[r].floor = req[r].floor
  BY <1>1, <1>2, ReplyLemma
<1>5. RequestOK(r)'
  BY <1>2, <1>4 DEF RequestOK, WritePc, FetchPc, FillPc, Object
<1>6. TypeOK'
  BY <1>1, <1>2, <1>3, <1>4 DEF TypeOK, LocalType
<1> QED BY <1>1, <1>3, <1>4, <1>5, <1>6, ReadStep, KeptSame DEF WritePc

(* A body that cannot be read fills nothing.                                *)
LEMMA GetReadFailsStep ==
    ASSUME IInv, NEW r \in Request, GetReadFails(r)
    PROVE  IInv'
<1>1. /\ pc' \in [Request -> Pc] /\ req' \in [Request -> LocalType] /\ Only(r)
      /\ pc'[r] = "refetch" /\ req'[r].key = req[r].key /\ req'[r].floor = req[r].floor
  BY LocalTypes DEF GetReadFails, Goto, IInv, TypeOK, LocalType, Only, Pc, ReadPc
<1>2. RequestOK(r)'
  BY <1>1 DEF IInv, RequestOK, WritePc, FetchPc, FillPc, GetReadFails
<1>3. TypeOK'
  BY <1>1 DEF IInv, GetReadFails, TypeOK, LocalType
<1> QED BY <1>1, <1>2, <1>3, ReadStep, KeptSame DEF GetReadFails, WritePc

(* The second fetch, for a body that could not be buffered, preserves the   *)
(* invariant.                                                               *)
LEMMA GetRefetchStep ==
    ASSUME IInv, NEW r \in Request, GetRefetch(r)
    PROVE  IInv'
<1> DEFINE k == req[r].key
<1>1. /\ TypeOK /\ k \in Key /\ store[k] \in Object /\ req[r].floor \in Nat
      /\ acked[k] \in Nat /\ req[r].floor <= acked[k] /\ acked[k] <= store[k].ver
  BY DEF IInv, TypeOK, RequestOK, Versions, GetRefetch, FetchPc
<1>2. store[k].ver \in Nat /\ req[r].floor <= store[k].ver
  BY <1>1 DEF Object
<1>3. /\ pc' \in [Request -> Pc] /\ req' \in [Request -> LocalType] /\ Only(r)
      /\ pc'[r] = "replied" /\ req'[r].key = k /\ req'[r].obj = store[k]
      /\ req'[r].floor = req[r].floor
  BY <1>1, ReplyLemma DEF GetRefetch
<1>4. RequestOK(r)'
  BY <1>1, <1>2, <1>3 DEF RequestOK, WritePc, FetchPc, FillPc
<1>5. TypeOK'
  BY <1>1, <1>3 DEF GetRefetch, TypeOK, LocalType
<1> QED BY <1>3, <1>4, <1>5, ReadStep, KeptSame DEF GetRefetch, WritePc

(* HeadObject's look into the metadata cache preserves the invariant.       *)
LEMMA HeadLookupStep ==
    ASSUME IInv, NEW r \in Request, NEW k \in Key, HeadLookup(r, k)
    PROVE  IInv'
<1>1. /\ TypeOK /\ acked[k] \in Nat /\ NoObject \in Object
      /\ meta[k] # None => meta[k] \in Entry
  BY LocalTypes DEF IInv, TypeOK
<1>2. CASE meta[k] # None
  <2> DEFINE x == Local(k, meta[k].obj, acked[k], meta[k].tainted, {})
  <2>1. x \in LocalType /\ Goto(r, "replied") /\ req' = [req EXCEPT ![r] = x]
    BY <1>1, <1>2, LocalTypes DEF HeadLookup, Entry
  <2>2. /\ pc' \in [Request -> Pc] /\ req' \in [Request -> LocalType] /\ Only(r)
        /\ pc'[r] = "replied" /\ req'[r] = x
    BY <1>1, <2>1, LocalLemma DEF Pc, ReadPc
  <2>3. ~meta[k].tainted => meta[k].obj.ver >= acked[k]
    BY <1>2 DEF IInv, MetaFloor, Untainted
  <2>4. RequestOK(r)'
    BY <2>2, <2>3 DEF RequestOK, Local, WritePc, FetchPc, FillPc
  <2>5. TypeOK'
    BY <1>1, <2>2 DEF HeadLookup, TypeOK, LocalType
  <2> QED BY <2>2, <2>4, <2>5, ReadStep, KeptSame DEF HeadLookup, WritePc
<1>3. CASE meta[k] = None
  <2> DEFINE x == Local(k, NoObject, acked[k], FALSE, {})
  <2>1. /\ pc' \in [Request -> Pc] /\ req' \in [Request -> LocalType] /\ Only(r)
        /\ pc'[r] = "head_fetch" /\ req'[r] = x
    BY <1>1, <1>3, LocalLemma, LocalTypes DEF Pc, ReadPc, HeadLookup
  <2>2. RequestOK(r)'
    BY <1>1, <2>1 DEF RequestOK, Local, WritePc, FetchPc, FillPc, HeadLookup
  <2>3. TypeOK'
    BY <1>1, <2>1 DEF HeadLookup, TypeOK, LocalType
  <2> QED BY <2>1, <2>2, <2>3, ReadStep, KeptSame DEF HeadLookup, WritePc
<1> QED BY <1>2, <1>3

(* HeadObject's call of the backend preserves the invariant.                *)
LEMMA HeadFetchStep ==
    ASSUME IInv, NEW r \in Request, HeadFetch(r)
    PROVE  IInv'
<1> DEFINE k == req[r].key
<1>1. /\ TypeOK /\ k \in Key /\ store[k] \in Object /\ req[r].floor \in Nat
      /\ acked[k] \in Nat /\ req[r].floor <= acked[k] /\ acked[k] <= store[k].ver
  BY DEF IInv, TypeOK, RequestOK, Versions, HeadFetch, FetchPc
<1>2. store[k].ver \in Nat /\ req[r].floor <= store[k].ver
  BY <1>1 DEF Object
<1>3. CASE store[k].size = "absent"
  <2>1. Reply(r, k, store[k], FALSE)
    BY <1>3 DEF HeadFetch
  <2>2. /\ pc' \in [Request -> Pc] /\ req' \in [Request -> LocalType] /\ Only(r)
        /\ pc'[r] = "replied" /\ req'[r].key = k /\ req'[r].obj = store[k]
        /\ req'[r].floor = req[r].floor
    BY <1>1, <2>1, ReplyLemma
  <2>3. RequestOK(r)'
    BY <1>1, <1>2, <2>2 DEF RequestOK, WritePc, FetchPc, FillPc
  <2>4. TypeOK'
    BY <1>1, <2>2 DEF HeadFetch, TypeOK, LocalType
  <2> QED BY <2>2, <2>3, <2>4, ReadStep, KeptSame DEF HeadFetch, WritePc
<1>4. CASE store[k].size # "absent"
  <2>1. /\ pc' \in [Request -> Pc] /\ req' \in [Request -> LocalType] /\ Only(r)
        /\ pc'[r] = "head_fill" /\ req'[r].key = k /\ req'[r].obj = store[k]
        /\ req'[r].floor = req[r].floor
    <3>1. pc' = [pc EXCEPT ![r] = "head_fill"] /\ req' = [req EXCEPT ![r].obj = store[k]]
      BY <1>4 DEF HeadFetch, Goto
    <3>2. req' \in [Request -> LocalType]
      BY <1>1, <3>1 DEF TypeOK, LocalType
    <3> QED BY <1>1, <3>1, <3>2 DEF TypeOK, LocalType, Only, Pc, ReadPc
  <2>2. RequestOK(r)'
    BY <1>1, <1>2, <2>1 DEF RequestOK, WritePc, FetchPc, FillPc, HeadFetch
  <2>3. TypeOK'
    BY <1>1, <2>1 DEF HeadFetch, TypeOK, LocalType
  <2> QED BY <2>1, <2>2, <2>3, ReadStep, KeptSame DEF HeadFetch, WritePc
<1> QED BY <1>3, <1>4

(* Finish and FetchFails: the request is over. *)
LEMMA EndStep ==
    ASSUME IInv, NEW r \in Request, Finish(r) \/ FetchFails(r)
    PROVE  IInv'
<1>1. /\ pc[r] \notin WritePc /\ Goto(r, "idle") /\ req' = [req EXCEPT ![r] = NoLocal]
      /\ UNCHANGED <<store, clock, hot, meta, acked>>
  BY DEF Finish, FetchFails, WritePc
<1>2. /\ pc' \in [Request -> Pc] /\ req' \in [Request -> LocalType] /\ Only(r)
      /\ pc'[r] = "idle"
  BY <1>1, LocalLemma, LocalTypes DEF IInv, Pc
<1>3. RequestOK(r)'
  BY <1>2 DEF RequestOK, WritePc, FetchPc, FillPc
<1>4. TypeOK'
  BY <1>1, <1>2 DEF IInv, TypeOK, LocalType
<1> QED BY <1>1, <1>2, <1>3, <1>4, ReadStep, KeptSame DEF WritePc

---------------------------------------------------------------------------
(* Backend writes. *)

(* A write gives the keys it changes the newest version and leaves the      *)
(* versions of the others.                                                  *)
LEMMA BackendWriteLemma ==
    ASSUME IInv, NEW ks, NEW sz \in Size, BackendWrite(ks, sz)
    PROVE  /\ store' \in [Key -> Object] /\ clock' \in Nat /\ clock' = clock + 1
           /\ [ver |-> clock + 1, size |-> sz] \in Object
           /\ \A k \in Key : /\ store[k].ver <= store'[k].ver
                             /\ store'[k].ver <= clock'
                             /\ acked[k] <= store'[k].ver
                             /\ (k \in ks => store'[k].ver = clock + 1)
                             /\ (k \notin ks => store'[k] = store[k])
<1>1. clock \in Nat /\ \A k \in Key : acked[k] \in Nat /\ store[k] \in Object /\ store[k].ver \in Nat
  BY DEF IInv, TypeOK, Object
<1>2. \A k \in Key : acked[k] <= store[k].ver /\ store[k].ver <= clock
  BY DEF IInv, Versions
<1>3. [ver |-> clock + 1, size |-> sz] \in Object
  BY <1>1 DEF Object
<1>4. /\ clock' = clock + 1
      /\ store' = [k \in Key |-> IF k \in ks THEN [ver |-> clock + 1, size |-> sz] ELSE store[k]]
  BY DEF BackendWrite
<1> QED BY <1>1, <1>2, <1>3, <1>4

(* What tainting the fills of ks leaves to the other requests.              *)
LEMMA TaintedUndisturbed ==
    ASSUME IInv, TypeOK', NEW ks, NEW q \in Request,
           pc'[q] = pc[q], req'[q] = TaintFills(ks)[q],
           \A k \in Key : /\ store[k].ver <= store'[k].ver /\ acked[k] <= acked'[k]
                          /\ (k \notin ks => store'[k] = store[k])
    PROVE  RequestOK(q)'
<1>1. /\ req'[q].key = req[q].key /\ req'[q].obj = req[q].obj
      /\ req'[q].floor = req[q].floor /\ req'[q].todo = req[q].todo
      /\ (q \in Filling(ks) => req'[q].tainted = TRUE)
      /\ (q \notin Filling(ks) => req'[q] = req[q])
  <2>1. req[q] \in LocalType
    BY DEF IInv, TypeOK, LocalType
  <2>2. req'[q] = IF q \in Filling(ks) THEN [req[q] EXCEPT !.tainted = TRUE] ELSE req[q]
    BY DEF TaintFills
  <2> QED BY <2>1, <2>2 DEF LocalType
<1>2. pc[q] = "replied" => req'[q].tainted = req[q].tainted
  BY <1>1 DEF Filling
<1>3. pc[q] \in FillPc => req[q].key \in Key
  BY DEF IInv, RequestOK, FillPc
<1>4. pc[q] \in FillPc /\ ~req'[q].tainted =>
          ~req[q].tainted /\ store'[req[q].key] = store[req[q].key]
  <2> SUFFICES ASSUME pc[q] \in FillPc, ~req'[q].tainted
               PROVE  ~req[q].tainted /\ store'[req[q].key] = store[req[q].key]
    OBVIOUS
  <2>1. q \notin Filling(ks)
    BY <1>1
  <2>2. req[q].key \notin ks
    BY <2>1 DEF Filling, FillPc
  <2>3. store'[req[q].key] = store[req[q].key]
    BY <1>3, <2>2
  <2>4. req'[q] = req[q]
    BY <1>1, <2>1
  <2> QED BY <2>3, <2>4
<1>5. \A k \in Key : store[k].ver <= store'[k].ver /\ acked[k] <= acked'[k]
  OBVIOUS
<1> QED BY <1>1, <1>2, <1>4, <1>5, Undisturbed

(* PutObject, DeleteObject and DeleteBucket have changed the backend and    *)
(* have all of the invalidation before them.                                *)
LEMMA WriterStarts ==
    ASSUME IInv, NEW r \in Request, pc[r] = "idle", NEW k \in Key, NEW ks \in SUBSET Key, NEW sz \in Size,
           NEW l \in {"inval_hot", "snap_hot"},
           l = "inval_hot" => ks = {k}, l = "snap_hot" => ks = KeysOf(BucketOf[k]),
           BackendWrite(ks, sz), Goto(r, l),
           req' = [TaintFills(ks) EXCEPT ![r] =
                      Local(k, [ver |-> clock + 1, size |-> sz], 0, FALSE, {})],
           UNCHANGED <<hot, meta, acked>>
    PROVE  IInv'
<1> DEFINE o == [ver |-> clock + 1, size |-> sz]
<1>1. /\ store' \in [Key -> Object] /\ clock' \in Nat /\ clock' = clock + 1 /\ o \in Object
      /\ \A j \in Key : /\ store[j].ver <= store'[j].ver /\ store'[j].ver <= clock'
                        /\ acked[j] <= store'[j].ver
                        /\ (j \in ks => store'[j].ver = clock + 1)
                        /\ (j \notin ks => store'[j] = store[j])
  BY BackendWriteLemma
<1>2. /\ TaintFills(ks) \in [Request -> LocalType]
      /\ \A q \in Request : /\ TaintFills(ks)[q].key = req[q].key
                            /\ TaintFills(ks)[q].obj = req[q].obj
                            /\ TaintFills(ks)[q].todo = req[q].todo
  BY TaintFillsLemma DEF IInv
<1>3. Local(k, o, 0, FALSE, {}) \in LocalType
  BY <1>1, LocalTypes
<1>4. /\ req' \in [Request -> LocalType] /\ req'[r] = Local(k, o, 0, FALSE, {})
      /\ \A q \in Request : q # r => req'[q] = TaintFills(ks)[q]
  BY <1>2, <1>3
<1>5. /\ pc' \in [Request -> Pc] /\ pc'[r] = l
      /\ \A q \in Request : q # r => pc'[q] = pc[q]
  BY DEF IInv, TypeOK, Goto, Pc, WritePc
<1>6. TypeOK'
  BY <1>1, <1>4, <1>5 DEF IInv, TypeOK, LocalType
<1>7. Versions'
  BY <1>1 DEF Versions
<1>8. RequestOK(r)'
  <2>1. req'[r].key = k /\ req'[r].obj.ver = clock + 1
    BY <1>4 DEF Local
  <2>2. \A j \in Key : j \in Targets(r)' => store'[j].ver = clock + 1
    BY <1>1, <1>5, <2>1 DEF Targets, BucketKeys
  <2>3. clock \in Nat /\ clock + 1 <= clock + 1
    BY DEF IInv, TypeOK
  <2>4. \A j \in Key : j \in Targets(r)' => req'[r].obj.ver <= store'[j].ver
    BY <2>1, <2>2, <2>3
  <2>5. pc'[r] # "replied" /\ pc'[r] \notin FetchPc /\ pc'[r] \notin FillPc
    BY <1>5 DEF FetchPc, FillPc
  <2> QED BY <2>1, <2>4, <2>5 DEF RequestOK
<1>9. ASSUME NEW q \in Request, q # r PROVE RequestOK(q)'
  <2>1. \A j \in Key : acked[j] <= acked'[j]
    BY DEF IInv, TypeOK
  <2>2. \A j \in Key : /\ store[j].ver <= store'[j].ver /\ acked[j] <= acked'[j]
                      /\ (j \notin ks => store'[j] = store[j])
    BY <1>1, <2>1
  <2>3. pc'[q] = pc[q] /\ req'[q] = TaintFills(ks)[q]
    BY <1>4, <1>5, <1>9
  <2> QED BY <1>6, <2>2, <2>3, TaintedUndisturbed
<1>10. \A q \in Request, j \in Key :
          /\ CleanedHot(q, j)' => CleanedHot(q, j) /\ req'[q].obj = req[q].obj
          /\ CleanedMeta(q, j)' => CleanedMeta(q, j) /\ req'[q].obj = req[q].obj
  <2> SUFFICES ASSUME NEW q \in Request, NEW j \in Key
               PROVE  /\ CleanedHot(q, j)' => CleanedHot(q, j) /\ req'[q].obj = req[q].obj
                      /\ CleanedMeta(q, j)' => CleanedMeta(q, j) /\ req'[q].obj = req[q].obj
    OBVIOUS
  <2>1. CASE q = r
    BY <1>5, <2>1 DEF CleanedHot, CleanedMeta
  <2>2. CASE q # r
    BY <1>2, <1>4, <1>5, <2>2 DEF CleanedHot, CleanedMeta, BucketKeys
  <2> QED BY <2>1, <2>2
<1>11. HotFloor'
  BY <1>6, <1>10, HotFloorStep, KeptSame
<1>12. MetaFloor'
  BY <1>6, <1>10, MetaFloorStep, KeptSame
<1>13. \A j \in Key : j \in ks => ToCleanHot(r, j)' /\ ToCleanMeta(r, j)'
  <2>1. req'[r].key = k
    BY <1>4 DEF Local
  <2> QED BY <1>5, <2>1 DEF ToCleanHot, ToCleanMeta, BucketKeys
<1>14. \A q \in Request, j \in Key : /\ ToCleanHot(q, j) => ToCleanHot(q, j)'
                                     /\ ToCleanMeta(q, j) => ToCleanMeta(q, j)'
  <2> SUFFICES ASSUME NEW q \in Request, NEW j \in Key
               PROVE  /\ ToCleanHot(q, j) => ToCleanHot(q, j)'
                      /\ ToCleanMeta(q, j) => ToCleanMeta(q, j)'
    OBVIOUS
  <2>1. CASE q = r
    BY <2>1 DEF ToCleanHot, ToCleanMeta
  <2>2. CASE q # r
    BY <1>2, <1>4, <1>5, <2>2 DEF ToCleanHot, ToCleanMeta, BucketKeys
  <2> QED BY <2>1, <2>2
<1>15. StaleHasCause'
  BY <1>1, <1>13, <1>14, CauseStep, KeptSame
<1> QED BY <1>6, <1>7, <1>8, <1>9, <1>11, <1>12, <1>15 DEF IInv

(* WriteFails and CompleteMultipartUpload change the backend and leave the  *)
(* caches as they are: every entry and every fill of the key is tainted.    *)
LEMMA TaintingStep ==
    ASSUME IInv, NEW k \in Key, NEW sz \in Size, BackendWrite({k}, sz),
           req' = TaintFills({k}), UNCHANGED pc,
           hot' = TaintEntries(hot, {k}), meta' = TaintEntries(meta, {k}),
           acked' = acked \/ acked' = [acked EXCEPT ![k] = clock + 1]
    PROVE  IInv'
<1>1. /\ store' \in [Key -> Object] /\ clock' \in Nat /\ clock' = clock + 1
      /\ \A j \in Key : /\ store[j].ver <= store'[j].ver /\ store'[j].ver <= clock'
                        /\ acked[j] <= store'[j].ver
                        /\ (j \in {k} => store'[j].ver = clock + 1)
                        /\ (j \notin {k} => store'[j] = store[j])
  BY BackendWriteLemma
<1>2. /\ req' \in [Request -> LocalType]
      /\ \A q \in Request : /\ req'[q].key = req[q].key
                            /\ req'[q].obj = req[q].obj
                            /\ req'[q].todo = req[q].todo
  BY TaintFillsLemma DEF IInv
<1>3. /\ clock \in Nat /\ hot \in [Key -> Entry \cup {None}]
      /\ meta \in [Key -> Entry \cup {None}] /\ acked \in [Key -> Nat]
      /\ store \in [Key -> Object]
  BY DEF IInv, TypeOK
<1>4. /\ hot' \in [Key -> Entry \cup {None}]
      /\ \A j \in Key : Untainted(hot', j) => j # k /\ hot'[j] = hot[j] /\ Untainted(hot, j)
  BY <1>3, TaintEntriesLemma
<1>5. /\ meta' \in [Key -> Entry \cup {None}]
      /\ \A j \in Key : Untainted(meta', j) => j # k /\ meta'[j] = meta[j] /\ Untainted(meta, j)
  BY <1>3, TaintEntriesLemma
<1>6. /\ acked' \in [Key -> Nat]
      /\ \A j \in Key : /\ j # k => acked'[j] = acked[j]
                        /\ acked'[j] <= store'[j].ver
  BY <1>1, <1>3
<1>7. \A j \in Key : acked[j] <= acked'[j]
  BY <1>1, <1>3, <1>6 DEF IInv, Versions, Object
<1>8. TypeOK'
  BY <1>1, <1>2, <1>4, <1>5, <1>6 DEF IInv, TypeOK, LocalType
<1>9. Versions'
  BY <1>1, <1>6 DEF Versions
<1>10. \A q \in Request : RequestOK(q)'
  BY <1>1, <1>7, <1>8, TaintedUndisturbed
<1>11. \A q \in Request, j \in Key :
          /\ CleanedHot(q, j)' => CleanedHot(q, j) /\ req'[q].obj = req[q].obj
          /\ CleanedMeta(q, j)' => CleanedMeta(q, j) /\ req'[q].obj = req[q].obj
  BY <1>2 DEF CleanedHot, CleanedMeta, BucketKeys
<1>12. HotFloor'
  BY <1>4, <1>6, <1>8, <1>11, HotFloorStep DEF Kept
<1>13. MetaFloor'
  BY <1>5, <1>6, <1>8, <1>11, MetaFloorStep DEF Kept
<1>14. Kept(hot, hot') /\ Kept(meta, meta')
  BY <1>4, <1>5 DEF Kept
<1>15. \A q \in Request, j \in Key : /\ ToCleanHot(q, j) => ToCleanHot(q, j)'
                                     /\ ToCleanMeta(q, j) => ToCleanMeta(q, j)'
  BY <1>2 DEF ToCleanHot, ToCleanMeta, BucketKeys
<1>16. StaleHasCause'
  BY <1>1, <1>4, <1>5, <1>14, <1>15, CauseStep
<1> QED BY <1>8, <1>9, <1>10, <1>12, <1>13, <1>16 DEF IInv

---------------------------------------------------------------------------
(* The steps of Invalidate and InvalidateBucket. *)

(* A writer moves on, its write and target keys the same, or finishes: the  *)
(* other requests are not concerned.                                        *)
LEMMA WriterMoves ==
    ASSUME IInv, TypeOK', NEW r \in Request, Only(r), UNCHANGED <<store, clock>>,
           pc[r] \in WritePc,
           \/ pc'[r] = "idle"
           \/ /\ pc'[r] \in WritePc
              /\ Targets(r)' = Targets(r)
              /\ req'[r].key = req[r].key /\ req'[r].obj = req[r].obj,
           \A k \in Key : acked[k] <= acked'[k] /\ acked'[k] <= store[k].ver
    PROVE  Versions' /\ \A q \in Request : RequestOK(q)'
<1>1. Versions'
  BY DEF IInv, Versions
<1>2. RequestOK(r)'
  <2>1. RequestOK(r)
    BY DEF IInv
  <2>2. pc[r] # "idle" /\ pc'[r] \notin FetchPc /\ pc'[r] \notin FillPc /\ pc'[r] # "replied"
    BY DEF WritePc, FetchPc, FillPc
  <2>3. CASE pc'[r] = "idle"
    BY <2>2, <2>3 DEF RequestOK, WritePc
  <2>4. CASE pc'[r] \in WritePc /\ Targets(r)' = Targets(r)
               /\ req'[r].key = req[r].key /\ req'[r].obj = req[r].obj
    BY <2>1, <2>2, <2>4 DEF RequestOK
  <2> QED BY <2>3, <2>4
<1>3. ASSUME NEW q \in Request, q # r PROVE RequestOK(q)'
  <2>1. \A k \in Key : store[k].ver <= store'[k].ver /\ acked[k] <= acked'[k]
    BY DEF IInv, TypeOK, Object
  <2>2. pc'[q] = pc[q] /\ req'[q] = req[q]
    BY <1>3 DEF Only
  <2> QED BY <2>1, <2>2, Undisturbed
<1> QED BY <1>1, <1>2, <1>3

(* What is acknowledged has been written.                                   *)
LEMMA AckedSame == IInv => \A k \in Key : acked[k] <= acked[k] /\ acked[k] <= store[k].ver
BY DEF IInv, TypeOK, Versions

(* What Acknowledge raises is covered by what the writer wrote.             *)
LEMMA AcknowledgeLemma ==
    ASSUME IInv, NEW r \in Request, pc[r] \in WritePc, NEW ks,
           \A k \in Key : k \in ks => k \in Targets(r),
           Acknowledge(ks, req[r].obj.ver)
    PROVE  /\ acked' \in [Key -> Nat]
           /\ \A k \in Key : acked[k] <= acked'[k] /\ acked'[k] <= store[k].ver
           /\ \A k \in Key : acked'[k] = acked[k] \/ (k \in ks /\ acked'[k] = req[r].obj.ver)
<1>1. req[r].obj.ver \in Nat /\ \A k \in Key : acked[k] \in Nat /\ store[k].ver \in Nat
  BY DEF IInv, TypeOK, Object
<1>2. \A k \in Key : k \in ks => req[r].obj.ver <= store[k].ver
  BY DEF IInv, RequestOK
<1>3. \A k \in Key : acked[k] <= store[k].ver
  BY DEF IInv, Versions
<1>4. acked' = [k \in Key |-> IF k \in ks /\ acked[k] < req[r].obj.ver
                             THEN req[r].obj.ver ELSE acked[k]]
  BY DEF Acknowledge
<1> QED BY <1>1, <1>2, <1>3, <1>4

(* Invalidate's first Remove: from here on the writer counts as having      *)
(* cleaned the hot cache.                                                   *)
LEMMA InvalidateHotStep ==
    ASSUME IInv, NEW r \in Request, InvalidateHot(r)
    PROVE  IInv'
<1>1. /\ TypeOK' /\ Only(r) /\ pc[r] = "inval_hot" /\ pc'[r] = "inval_meta" /\ req' = req
      /\ UNCHANGED <<store, clock, meta, acked>>
      /\ \A j \in Key : hot'[j] = IF j = req[r].key THEN None ELSE hot[j]
  BY RemoveLemma DEF IInv, TypeOK, InvalidateHot, Goto, Only, Pc, WritePc
<1>2. Kept(hot, hot') /\ Kept(meta, meta')
  BY <1>1, KeptRemove, KeptSame DEF InvalidateHot, IInv, TypeOK
<1>3. Versions' /\ \A q \in Request : RequestOK(q)'
  BY <1>1, WriterMoves, AckedSame DEF Targets, WritePc
<1>4. \A q \in Request, j \in Key : Untainted(hot', j) /\ CleanedHot(q, j)' => CleanedHot(q, j)
  BY <1>1 DEF CleanedHot, Untainted, Only, BucketKeys
<1>5. HotFloor'
  BY <1>1, <1>2, <1>4, HotFloorStep
<1>6. \A q \in Request, j \in Key : CleanedMeta(q, j)' => CleanedMeta(q, j)
  BY <1>1 DEF CleanedMeta, Only, BucketKeys
<1>7. MetaFloor'
  BY <1>1, <1>2, <1>6, MetaFloorStep
<1>8. \A q \in Request, j \in Key :
         /\ ToCleanHot(q, j) /\ Untainted(hot', j) => ToCleanHot(q, j)'
         /\ ToCleanMeta(q, j) => ToCleanMeta(q, j)'
  BY <1>1 DEF ToCleanHot, ToCleanMeta, Untainted, Only, BucketKeys
<1>9. StaleHasCause'
  BY <1>1, <1>2, <1>8, CauseStep
<1> QED BY <1>1, <1>3, <1>5, <1>7, <1>9 DEF IInv

(* Invalidate's second Remove, after which the write is acknowledged.       *)
LEMMA InvalidateMetaStep ==
    ASSUME IInv, NEW r \in Request, InvalidateMeta(r)
    PROVE  IInv'
<1> DEFINE k == req[r].key
<1>1. /\ pc[r] = "inval_meta" /\ pc[r] \in WritePc /\ Targets(r) = {k}
      /\ Acknowledge({k}, req[r].obj.ver)
      /\ UNCHANGED <<store, clock, hot>>
  BY DEF InvalidateMeta, WritePc, Targets
<1>2. /\ acked' \in [Key -> Nat]
      /\ \A j \in Key : acked[j] <= acked'[j] /\ acked'[j] <= store[j].ver
      /\ \A j \in Key : acked'[j] = acked[j] \/ (j \in {k} /\ acked'[j] = req[r].obj.ver)
  BY <1>1, AcknowledgeLemma
<1>3. /\ pc' \in [Request -> Pc] /\ req' \in [Request -> LocalType] /\ Only(r)
      /\ pc'[r] = "idle"
  BY LocalLemma, LocalTypes DEF IInv, Pc, InvalidateMeta
<1>4. /\ meta' \in [Key -> Entry \cup {None}]
      /\ \A j \in Key : meta'[j] = IF j = k THEN None ELSE meta[j]
      /\ Kept(meta, meta')
  BY RemoveLemma, KeptRemove DEF IInv, TypeOK, InvalidateMeta
<1>5. TypeOK'
  BY <1>1, <1>2, <1>3, <1>4 DEF IInv, TypeOK, LocalType
<1>6. Versions' /\ \A q \in Request : RequestOK(q)'
  BY <1>1, <1>2, <1>3, <1>5, WriterMoves
<1>7. \A q \in Request, j \in Key :
         /\ CleanedHot(q, j)' => CleanedHot(q, j) /\ req'[q].obj = req[q].obj
         /\ CleanedMeta(q, j)' => CleanedMeta(q, j) /\ req'[q].obj = req[q].obj
  BY <1>3 DEF CleanedHot, CleanedMeta, Only, BucketKeys
<1>8. \A j \in Key : \/ acked'[j] = acked[j]
                     \/ \E q \in Request : CleanedHot(q, j) /\ acked'[j] = req[q].obj.ver
  BY <1>1, <1>2 DEF CleanedHot
<1>9. HotFloor'
  BY <1>1, <1>5, <1>7, <1>8, HotFloorStep, KeptSame
<1>10. \A j \in Key : Untainted(meta', j) => acked'[j] = acked[j]
  BY <1>2, <1>4 DEF Untainted
<1>11. MetaFloor'
  BY <1>4, <1>5, <1>7, <1>10, MetaFloorStep
<1>12. \A q \in Request, j \in Key :
         /\ ToCleanHot(q, j) => ToCleanHot(q, j)'
         /\ ToCleanMeta(q, j) /\ Untainted(meta', j) => ToCleanMeta(q, j)'
  BY <1>1, <1>3, <1>4 DEF ToCleanHot, ToCleanMeta, Untainted, Only, BucketKeys
<1>13. StaleHasCause'
  BY <1>1, <1>4, <1>12, CauseStep, KeptSame
<1> QED BY <1>5, <1>6, <1>9, <1>11, <1>13 DEF IInv

(* InvalidateBucket takes the keys of the hot cache: a key it does not list *)
(* has no entry.                                                            *)
LEMMA SnapshotHotStep ==
    ASSUME IInv, NEW r \in Request, SnapshotHot(r)
    PROVE  IInv'
<1>1. /\ pc[r] = "snap_hot" /\ pc' = [pc EXCEPT ![r] = "drop_hot"]
      /\ req' = [req EXCEPT ![r].todo = BucketKeys(r) \cap Present(hot)]
      /\ UNCHANGED <<store, clock, hot, meta, acked>>
  BY DEF SnapshotHot, Goto
<1>2. /\ req' \in [Request -> LocalType] /\ Only(r) /\ pc'[r] = "drop_hot"
      /\ req'[r].key = req[r].key /\ req'[r].obj = req[r].obj
      /\ req'[r].todo = BucketKeys(r) \cap Present(hot)
  BY <1>1 DEF IInv, TypeOK, LocalType, Only, Present
<1>3. TypeOK'
  BY <1>1, <1>2 DEF IInv, TypeOK, LocalType, Pc, WritePc
<1>4. Versions' /\ \A q \in Request : RequestOK(q)'
  <2>1. pc[r] \in WritePc /\ pc'[r] \in WritePc /\ Targets(r)' = Targets(r)
    BY <1>1, <1>2 DEF Targets, BucketKeys, WritePc
  <2>2. \A k \in Key : acked[k] <= acked'[k] /\ acked'[k] <= store[k].ver
    BY <1>1, AckedSame
  <2> QED BY <1>1, <1>2, <1>3, <2>1, <2>2, WriterMoves
<1>5. \A q \in Request, j \in Key :
         /\ Untainted(hot', j) /\ CleanedHot(q, j)' =>
               CleanedHot(q, j) /\ req'[q].obj = req[q].obj
         /\ CleanedMeta(q, j)' => CleanedMeta(q, j) /\ req'[q].obj = req[q].obj
  BY <1>1, <1>2 DEF CleanedHot, CleanedMeta, Only, BucketKeys, Untainted, Present
<1>6. HotFloor' /\ MetaFloor'
  BY <1>1, <1>3, <1>5, HotFloorStep, MetaFloorStep, KeptSame
<1>7. \A q \in Request, j \in Key :
         /\ ToCleanHot(q, j) /\ Untainted(hot', j) => ToCleanHot(q, j)'
         /\ ToCleanMeta(q, j) => ToCleanMeta(q, j)'
  BY <1>1, <1>2 DEF ToCleanHot, ToCleanMeta, Only, BucketKeys, Untainted, Present
<1>8. StaleHasCause'
  BY <1>1, <1>7, CauseStep, KeptSame
<1> QED BY <1>3, <1>4, <1>6, <1>8 DEF IInv

(* InvalidateBucket takes the keys of the metadata cache.                   *)
LEMMA SnapshotMetaStep ==
    ASSUME IInv, NEW r \in Request, SnapshotMeta(r)
    PROVE  IInv'
<1>1. /\ pc[r] = "snap_meta" /\ pc' = [pc EXCEPT ![r] = "drop_meta"]
      /\ req' = [req EXCEPT ![r].todo = BucketKeys(r) \cap Present(meta)]
      /\ UNCHANGED <<store, clock, hot, meta, acked>>
  BY DEF SnapshotMeta, Goto
<1>2. /\ req' \in [Request -> LocalType] /\ Only(r) /\ pc'[r] = "drop_meta"
      /\ req'[r].key = req[r].key /\ req'[r].obj = req[r].obj
      /\ req'[r].todo = BucketKeys(r) \cap Present(meta)
  BY <1>1 DEF IInv, TypeOK, LocalType, Only, Present
<1>3. TypeOK'
  BY <1>1, <1>2 DEF IInv, TypeOK, LocalType, Pc, WritePc
<1>4. Versions' /\ \A q \in Request : RequestOK(q)'
  <2>1. pc[r] \in WritePc /\ pc'[r] \in WritePc /\ Targets(r)' = Targets(r)
    BY <1>1, <1>2 DEF Targets, BucketKeys, WritePc
  <2>2. \A k \in Key : acked[k] <= acked'[k] /\ acked'[k] <= store[k].ver
    BY <1>1, AckedSame
  <2> QED BY <1>1, <1>2, <1>3, <2>1, <2>2, WriterMoves
<1>5. \A q \in Request, j \in Key :
         /\ CleanedHot(q, j)' => CleanedHot(q, j) /\ req'[q].obj = req[q].obj
         /\ Untainted(meta', j) /\ CleanedMeta(q, j)' =>
               CleanedMeta(q, j) /\ req'[q].obj = req[q].obj
  BY <1>1, <1>2 DEF CleanedHot, CleanedMeta, Only, BucketKeys, Untainted, Present
<1>6. HotFloor' /\ MetaFloor'
  BY <1>1, <1>3, <1>5, HotFloorStep, MetaFloorStep, KeptSame
<1>7. \A q \in Request, j \in Key :
         /\ ToCleanHot(q, j) => ToCleanHot(q, j)'
         /\ ToCleanMeta(q, j) /\ Untainted(meta', j) => ToCleanMeta(q, j)'
  BY <1>1, <1>2 DEF ToCleanHot, ToCleanMeta, Only, BucketKeys, Untainted, Present
<1>8. StaleHasCause'
  BY <1>1, <1>7, CauseStep, KeptSame
<1> QED BY <1>3, <1>4, <1>6, <1>8 DEF IInv

(* InvalidateBucket removes one key of its list from the hot cache.         *)
LEMMA DropHotStep ==
    ASSUME IInv, NEW r \in Request, DropHot(r)
    PROVE  IInv'
<1>1. pc[r] = "drop_hot" /\ UNCHANGED <<store, clock, meta, acked>>
  BY DEF DropHot
<1>2. \A k \in Key : acked[k] <= acked'[k] /\ acked'[k] <= store[k].ver
  BY <1>1, AckedSame
<1>3. ASSUME NEW k \in req[r].todo, hot' = Remove(hot, k),
             req' = [req EXCEPT ![r].todo = @ \ {k}], UNCHANGED pc
      PROVE  IInv'
  <2>1. /\ req' \in [Request -> LocalType] /\ Only(r) /\ pc'[r] = "drop_hot"
        /\ req'[r].key = req[r].key /\ req'[r].obj = req[r].obj
        /\ req'[r].todo = req[r].todo \ {k}
    BY <1>1, <1>3 DEF IInv, TypeOK, LocalType, Only
  <2>2. /\ hot' \in [Key -> Entry \cup {None}] /\ Kept(hot, hot')
        /\ \A j \in Key : hot'[j] = IF j = k THEN None ELSE hot[j]
    BY <1>3, RemoveLemma, KeptRemove DEF IInv, TypeOK
  <2>3. TypeOK'
    BY <1>1, <1>3, <2>1, <2>2 DEF IInv, TypeOK, LocalType
  <2>4. pc[r] \in WritePc /\ pc'[r] \in WritePc /\ Targets(r)' = Targets(r)
    BY <1>1, <2>1 DEF Targets, BucketKeys, WritePc
  <2>5. Versions' /\ \A q \in Request : RequestOK(q)'
    BY <1>1, <1>2, <2>1, <2>3, <2>4, WriterMoves
  <2>6. \A q \in Request, j \in Key :
           /\ Untainted(hot', j) /\ CleanedHot(q, j)' =>
                 CleanedHot(q, j) /\ req'[q].obj = req[q].obj
           /\ CleanedMeta(q, j)' => CleanedMeta(q, j) /\ req'[q].obj = req[q].obj
    BY <1>1, <2>1, <2>2 DEF CleanedHot, CleanedMeta, Only, BucketKeys, Untainted
  <2>7. HotFloor' /\ MetaFloor'
    BY <1>1, <2>2, <2>3, <2>6, HotFloorStep, MetaFloorStep, KeptSame
  <2>8. \A q \in Request, j \in Key :
           /\ ToCleanHot(q, j) /\ Untainted(hot', j) => ToCleanHot(q, j)'
           /\ ToCleanMeta(q, j) => ToCleanMeta(q, j)'
    BY <1>1, <2>1, <2>2 DEF ToCleanHot, ToCleanMeta, Only, BucketKeys, Untainted
  <2>9. StaleHasCause'
    BY <1>1, <2>2, <2>8, CauseStep, KeptSame
  <2> QED BY <2>3, <2>5, <2>7, <2>9 DEF IInv
<1>4. ASSUME req[r].todo = {}, Goto(r, "snap_meta"), UNCHANGED <<hot, req>>
      PROVE  IInv'
  <2>1. TypeOK' /\ Only(r) /\ pc'[r] = "snap_meta"
    BY <1>1, <1>4 DEF IInv, TypeOK, Goto, Only, Pc, WritePc
  <2>2. pc[r] \in WritePc /\ pc'[r] \in WritePc /\ Targets(r)' = Targets(r)
    BY <1>1, <1>4, <2>1 DEF Targets, BucketKeys, WritePc
  <2>3. Versions' /\ \A q \in Request : RequestOK(q)'
    BY <1>1, <1>2, <1>4, <2>1, <2>2, WriterMoves
  <2>4. \A q \in Request, j \in Key :
           /\ CleanedHot(q, j)' => CleanedHot(q, j) /\ req'[q].obj = req[q].obj
           /\ CleanedMeta(q, j)' => CleanedMeta(q, j) /\ req'[q].obj = req[q].obj
    BY <1>1, <1>4, <2>1 DEF CleanedHot, CleanedMeta, Only, BucketKeys
  <2>5. HotFloor' /\ MetaFloor'
    BY <1>1, <1>4, <2>1, <2>4, HotFloorStep, MetaFloorStep, KeptSame
  <2>6. \A q \in Request, j \in Key :
           /\ ToCleanHot(q, j) => ToCleanHot(q, j)'
           /\ ToCleanMeta(q, j) => ToCleanMeta(q, j)'
    BY <1>1, <1>4, <2>1 DEF ToCleanHot, ToCleanMeta, Only, BucketKeys
  <2>7. StaleHasCause'
    BY <1>1, <1>4, <2>6, CauseStep, KeptSame
  <2> QED BY <2>1, <2>3, <2>5, <2>7 DEF IInv
<1> QED BY <1>3, <1>4 DEF DropHot

(* InvalidateBucket removes one key from the metadata cache, and after the  *)
(* last the deletion is acknowledged.                                       *)
LEMMA DropMetaStep ==
    ASSUME IInv, NEW r \in Request, DropMeta(r)
    PROVE  IInv'
<1>1. pc[r] = "drop_meta" /\ pc[r] \in WritePc /\ UNCHANGED <<store, clock, hot>>
  BY DEF DropMeta, WritePc
<1>2. ASSUME NEW k \in req[r].todo, meta' = Remove(meta, k),
             req' = [req EXCEPT ![r].todo = @ \ {k}], UNCHANGED <<pc, acked>>
      PROVE  IInv'
  <2>1. /\ req' \in [Request -> LocalType] /\ Only(r) /\ pc'[r] = "drop_meta"
        /\ req'[r].key = req[r].key /\ req'[r].obj = req[r].obj
        /\ req'[r].todo = req[r].todo \ {k}
    BY <1>1, <1>2 DEF IInv, TypeOK, LocalType, Only
  <2>2. /\ meta' \in [Key -> Entry \cup {None}] /\ Kept(meta, meta')
        /\ \A j \in Key : meta'[j] = IF j = k THEN None ELSE meta[j]
    BY <1>2, RemoveLemma, KeptRemove DEF IInv, TypeOK
  <2>3. TypeOK'
    BY <1>1, <1>2, <2>1, <2>2 DEF IInv, TypeOK, LocalType
  <2>4. /\ pc'[r] \in WritePc /\ Targets(r)' = Targets(r)
        /\ \A j \in Key : acked[j] <= acked'[j] /\ acked'[j] <= store[j].ver
    BY <1>1, <1>2, <2>1, AckedSame DEF Targets, BucketKeys, WritePc
  <2>5. Versions' /\ \A q \in Request : RequestOK(q)'
    BY <1>1, <2>1, <2>3, <2>4, WriterMoves
  <2>6. \A q \in Request, j \in Key :
           /\ CleanedHot(q, j)' => CleanedHot(q, j) /\ req'[q].obj = req[q].obj
           /\ Untainted(meta', j) /\ CleanedMeta(q, j)' =>
                 CleanedMeta(q, j) /\ req'[q].obj = req[q].obj
    BY <1>1, <2>1, <2>2 DEF CleanedHot, CleanedMeta, Only, BucketKeys, Untainted
  <2>7. HotFloor' /\ MetaFloor'
    BY <1>1, <1>2, <2>2, <2>3, <2>6, HotFloorStep, MetaFloorStep, KeptSame
  <2>8. \A q \in Request, j \in Key :
           /\ ToCleanHot(q, j) => ToCleanHot(q, j)'
           /\ ToCleanMeta(q, j) /\ Untainted(meta', j) => ToCleanMeta(q, j)'
    BY <1>1, <2>1, <2>2 DEF ToCleanHot, ToCleanMeta, Only, BucketKeys, Untainted
  <2>9. StaleHasCause'
    BY <1>1, <2>2, <2>8, CauseStep, KeptSame
  <2> QED BY <2>3, <2>5, <2>7, <2>9 DEF IInv
<1>3. ASSUME req[r].todo = {}, Acknowledge(BucketKeys(r), req[r].obj.ver),
             Goto(r, "idle"), req' = [req EXCEPT ![r] = NoLocal], UNCHANGED meta
      PROVE  IInv'
  <2>1. Targets(r) = BucketKeys(r)
    BY <1>1 DEF Targets
  <2>2. /\ acked' \in [Key -> Nat]
        /\ \A j \in Key : acked[j] <= acked'[j] /\ acked'[j] <= store[j].ver
        /\ \A j \in Key : \/ acked'[j] = acked[j]
                          \/ j \in BucketKeys(r) /\ acked'[j] = req[r].obj.ver
    BY <1>1, <1>3, <2>1, AcknowledgeLemma
  <2>3. /\ pc' \in [Request -> Pc] /\ req' \in [Request -> LocalType] /\ Only(r)
        /\ pc'[r] = "idle"
    BY <1>3, LocalLemma, LocalTypes DEF IInv, Pc
  <2>4. TypeOK'
    BY <1>1, <1>3, <2>2, <2>3 DEF IInv, TypeOK, LocalType
  <2>5. Versions' /\ \A q \in Request : RequestOK(q)'
    BY <1>1, <2>2, <2>3, <2>4, WriterMoves
  <2>6. \A q \in Request, j \in Key :
           /\ CleanedHot(q, j)' => CleanedHot(q, j) /\ req'[q].obj = req[q].obj
           /\ CleanedMeta(q, j)' => CleanedMeta(q, j) /\ req'[q].obj = req[q].obj
    BY <2>3 DEF CleanedHot, CleanedMeta, Only, BucketKeys
  <2>7. \A j \in Key : j \in BucketKeys(r) => CleanedHot(r, j) /\ CleanedMeta(r, j)
    BY <1>1, <1>3 DEF CleanedHot, CleanedMeta
  <2>8. HotFloor' /\ MetaFloor'
    BY <1>1, <1>3, <2>2, <2>4, <2>6, <2>7, HotFloorStep, MetaFloorStep, KeptSame
  <2>9. \A q \in Request, j \in Key :
           /\ ToCleanHot(q, j) => ToCleanHot(q, j)'
           /\ ToCleanMeta(q, j) => ToCleanMeta(q, j)'
    BY <1>1, <1>3, <2>3 DEF ToCleanHot, ToCleanMeta, Only, BucketKeys
  <2>10. StaleHasCause'
    BY <1>1, <1>3, <2>9, CauseStep, KeptSame
  <2> QED BY <2>4, <2>5, <2>8, <2>10 DEF IInv
<1> QED BY <1>2, <1>3 DEF DropMeta

(* An entry that expires keeps its object.                                  *)
LEMMA ExpiryLemma ==
    ASSUME NEW c \in [Key -> Entry \cup {None}], NEW k \in Key, NEW d,
           d = c \/ (c[k] # None /\ d = [c EXCEPT ![k].fresh = FALSE])
    PROVE  /\ d \in [Key -> Entry \cup {None}]
           /\ \A j \in Key : Untainted(d, j) => Untainted(c, j) /\ d[j].obj = c[j].obj
<1>1. CASE d = c
  BY <1>1
<1>2. CASE c[k] # None /\ d = [c EXCEPT ![k].fresh = FALSE]
  <2>1. c[k] \in Entry
    BY <1>2
  <2>2. d = [c EXCEPT ![k] = [c[k] EXCEPT !.fresh = FALSE]]
    BY <1>2
  <2>3. /\ [c[k] EXCEPT !.fresh = FALSE] \in Entry
        /\ [c[k] EXCEPT !.fresh = FALSE].obj = c[k].obj
        /\ [c[k] EXCEPT !.fresh = FALSE].tainted = c[k].tainted
    BY <2>1 DEF Entry
  <2>4. d[k] = [c[k] EXCEPT !.fresh = FALSE] /\ \A j \in Key : j # k => d[j] = c[j]
    BY <2>2
  <2>5. d \in [Key -> Entry \cup {None}]
    BY <2>2, <2>3
  <2> QED BY <1>2, <2>3, <2>4, <2>5 DEF Untainted
<1> QED BY <1>1, <1>2

(* Time passing preserves the invariant.                                    *)
LEMMA TTLElapsesStep ==
    ASSUME IInv, NEW k \in Key, TTLElapses(k)
    PROVE  IInv'
<1>1. UNCHANGED <<store, clock, pc, req, acked>>
  BY DEF TTLElapses
<1>2. /\ hot' \in [Key -> Entry \cup {None}]
      /\ \A j \in Key : Untainted(hot', j) => Untainted(hot, j) /\ hot'[j].obj = hot[j].obj
  BY ExpiryLemma DEF IInv, TypeOK, TTLElapses
<1>3. /\ meta' \in [Key -> Entry \cup {None}]
      /\ \A j \in Key : Untainted(meta', j) => Untainted(meta, j) /\ meta'[j].obj = meta[j].obj
  BY ExpiryLemma DEF IInv, TypeOK, TTLElapses
<1>4. TypeOK'
  BY <1>1, <1>2, <1>3 DEF IInv, TypeOK
<1>5. Versions' /\ \A q \in Request : RequestOK(q)'
  BY <1>1 DEF IInv, Versions, RequestOK, Targets, BucketKeys
<1>6. \A q \in Request, j \in Key :
         /\ CleanedHot(q, j)' => CleanedHot(q, j) /\ req'[q].obj = req[q].obj
         /\ CleanedMeta(q, j)' => CleanedMeta(q, j) /\ req'[q].obj = req[q].obj
  BY <1>1 DEF CleanedHot, CleanedMeta, BucketKeys
<1>7. Kept(hot, hot') /\ Kept(meta, meta')
  BY <1>2, <1>3 DEF Kept
<1>8. HotFloor' /\ MetaFloor'
  BY <1>1, <1>4, <1>6, <1>7, HotFloorStep, MetaFloorStep
<1>9. \A q \in Request, j \in Key : /\ ToCleanHot(q, j) => ToCleanHot(q, j)'
                                    /\ ToCleanMeta(q, j) => ToCleanMeta(q, j)'
  BY <1>1 DEF ToCleanHot, ToCleanMeta, BucketKeys
<1>10. StaleHasCause'
  BY <1>1, <1>7, <1>9, CauseStep
<1> QED BY <1>4, <1>5, <1>8, <1>10 DEF IInv

---------------------------------------------------------------------------
(* The invariant and what follows from it. *)

(* The invariant holds when the proxy starts, with empty caches.            *)
LEMMA InitIInv == Init => IInv
<1> SUFFICES ASSUME Init PROVE IInv
  OBVIOUS
<1>1. TypeOK
  BY LocalTypes DEF Init, TypeOK, LocalType, Pc
<1>2. Versions
  BY DEF Init, Versions, NoObject
<1>3. HotFloor /\ MetaFloor
  BY DEF Init, HotFloor, MetaFloor, Untainted
<1>4. \A r \in Request : RequestOK(r)
  BY DEF Init, RequestOK, WritePc, FetchPc, FillPc
<1>5. StaleHasCause
  BY DEF Init, StaleHasCause
<1> QED BY <1>1, <1>2, <1>3, <1>4, <1>5 DEF IInv

(* Every step preserves the invariant, one lemma per action.                *)
LEMMA NextIInv == IInv /\ [Next]_vars => IInv'
<1> SUFFICES ASSUME IInv, [Next]_vars PROVE IInv'
  OBVIOUS
<1>1. ASSUME NEW r \in Request, Get(r) PROVE IInv'
  BY <1>1, GetLookupStep, GetExpireStep, GetFetchStep, GetFillStep, FillMetaStep,
     GetReadFailsStep, GetRefetchStep DEF Get
<1>2. ASSUME NEW r \in Request, Head(r) PROVE IInv'
  BY <1>2, HeadLookupStep, HeadFetchStep, FillMetaStep DEF Head
<1>3. ASSUME NEW r \in Request, NEW k \in Key, PutObject(r, k) PROVE IInv'
  <2>1. PICK sz \in PutSize : Write(r, k, sz)
    BY <1>3 DEF PutObject
  <2> QED BY <2>1, SizeAssumption, WriterStarts DEF Write
<1>4. ASSUME NEW r \in Request, NEW k \in Key, DeleteObject(r, k) PROVE IInv'
  BY <1>4, WriterStarts DEF DeleteObject, Write, Size
<1>5. ASSUME NEW r \in Request, NEW k \in Key, DeleteBucket(r, k) PROVE IInv'
  <2>1. KeysOf(BucketOf[k]) \in SUBSET Key /\ "absent" \in Size
    BY DEF KeysOf, Size
  <2> QED BY <1>5, <2>1, WriterStarts DEF DeleteBucket
<1>6. ASSUME NEW r \in Request, Update(r) PROVE IInv'
  BY <1>3, <1>4, <1>5, <1>6, InvalidateHotStep, InvalidateMetaStep, SnapshotHotStep,
     DropHotStep, SnapshotMetaStep, DropMetaStep DEF Update
<1>7. ASSUME NEW k \in Key, WriteFails(k) PROVE IInv'
  <2>1. PICK sz \in PutSize \cup {"absent"} : BackendWrite({k}, sz)
    BY <1>7 DEF WriteFails
  <2>2. sz \in Size
    BY SizeAssumption DEF Size
  <2> QED BY <1>7, <2>1, <2>2, TaintingStep DEF WriteFails
<1>8. ASSUME NEW k \in Key, CompleteMultipartUpload(k) PROVE IInv'
  <2>1. PICK sz \in PutSize : BackendWrite({k}, sz)
    BY <1>8 DEF CompleteMultipartUpload
  <2> QED BY <1>8, <2>1, SizeAssumption, TaintingStep DEF CompleteMultipartUpload
<1>9. CASE UNCHANGED vars
  BY <1>9 DEF vars, IInv, TypeOK, Versions, HotFloor, MetaFloor, StaleHasCause, RequestOK,
     Targets, CleanedHot, CleanedMeta, PendingHot, PendingMeta, Pending, BucketKeys, Untainted
<1> QED BY <1>1, <1>2, <1>6, <1>7, <1>8, <1>9, EndStep, TTLElapsesStep DEF Next

(* The inductive invariant holds in every reachable state.                  *)
THEOREM Invariance == Spec => []IInv
BY InitIInv, NextIInv, PTL DEF Spec

(* The state of the caching layer stays within its types: in particular a   *)
(* fill only ever adds a well-formed entry under a key.                     *)
THEOREM TypeCorrect == Spec => []TypeOK
BY Invariance, PTL DEF IInv

(* For any number of keys, buckets, concurrent requests and backend writes, *)
(* and any cache capacity: no GET or HEAD answers with a version older than *)
(* a write acknowledged before it began, unless from a tainted entry.       *)
THEOREM NoUnexplainedStaleRead == Spec => []ReadsSeeAcknowledgedWrites
<1>1. IInv => ReadsSeeAcknowledgedWrites
  BY DEF IInv, RequestOK, ReadsSeeAcknowledgedWrites
<1> QED BY <1>1, Invariance, PTL

(* For any number of keys, buckets and concurrent requests and any cache    *)
(* capacity: an entry that differs from the backend's object is tainted, or *)
(* the Invalidate or InvalidateBucket that will remove it is under way.     *)
THEOREM WrongEntriesAreExplained == Spec => []StaleHasCause
BY Invariance, PTL DEF IInv

=============================================================================
