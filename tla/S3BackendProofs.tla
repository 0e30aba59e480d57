-------------------------- MODULE S3BackendProofs --------------------------
(***************************************************************************)
(* Proofs about S3Backend, for any names, objects, requests, uploads, part *)
(* size and body lengths: only tainted entries of metadataCache give stale *)
(* answers (ReadsSeeAcknowledgedWrites), a wrong entry is tainted or about *)
(* to be evicted (StaleHasCause), a streamed PUT stores its whole body     *)
(* (WholeBodyIsStored) and no upload is forgotten                          *)
(* (UploadsAreAccountedFor).                                               *)
(*                                                                         *)
(* The inductive invariant has two parts.  For the cache: an untainted     *)
(* entry is as new as every acknowledged write of its object, and as every *)
(* write under another name that is about to be acknowledged, because that *)
(* write tainted what it found (CacheFloor); a fill holds the service's    *)
(* object or is tainted (RequestOK).  For the uploads: a request that      *)
(* streams has an upload of its own, which holds the bytes read so far,    *)
(* and all of them once the loop has ended (StreamOK, OwnUploads).         *)
(***************************************************************************)
EXTENDS S3Backend, TLAPS

Untainted(n) == cache[n] # None /\ ~cache[n].tainted

Streaming(r) == pc[r] \in {"part", "complete"}

Versions == \A x \in Real : acked[x] <= store[x].ver /\ store[x].ver <= clock

(* What request r's locals mean to the cache at the step it has reached. *)
RequestOK(r) ==
    /\ pc[r] \in {"head", "set", "evict", "part", "complete"} => req[r].name \in Name
    /\ pc[r] \in {"head", "set"} => req[r].floor <= acked[RealOf[req[r].name]]
    /\ pc[r] = "set" => /\ req[r].floor <= req[r].obj.ver
                        /\ ~req[r].tainted => req[r].obj = store[RealOf[req[r].name]]
    /\ pc[r] = "evict" => /\ req[r].obj.ver <= store[RealOf[req[r].name]].ver
                          /\ req[r].obj.len = req[r].len \/ req[r].cut
    /\ pc[r] = "replied" => req[r].obj.ver >= req[r].floor \/ req[r].tainted

(* Request r is about to acknowledge a write of n's object that it made     *)
(* under another name, and so without evicting n's entry.                   *)
WroteOther(r, n) ==
    pc[r] = "evict" /\ req[r].name # n /\ RealOf[req[r].name] = RealOf[n]

CacheFloor ==
    \A n \in Name : Untainted(n) =>
        /\ cache[n].obj.ver >= acked[RealOf[n]]
        /\ \A r \in Request : WroteOther(r, n) => cache[n].obj.ver >= req[r].obj.ver

(* What they mean to the uploads. *)
StreamOK(r) ==
    /\ Streaming(r) <=> req[r].up # None
    /\ Streaming(r) => /\ uploads[req[r].up] # None
                       /\ uploads[req[r].up].by = "proxy"
                       /\ req[r].len \in Nat
                       /\ uploads[req[r].up].size <= req[r].len
    /\ pc[r] = "complete" => uploads[req[r].up].size = req[r].len \/ req[r].cut

OwnUploads ==
    \A q, r \in Request : (Streaming(q) /\ Streaming(r) /\ req[q].up = req[r].up) => q = r

CacheInv == Versions /\ CacheFloor /\ StaleHasCause /\ \A r \in Request : RequestOK(r)

UploadInv == OwnUploads /\ UploadsAreAccountedFor /\ \A r \in Request : StreamOK(r)

IInv == TypeOK /\ CacheInv /\ UploadInv

---------------------------------------------------------------------------
(* Helpers. *)

PcType == {"idle", "head", "set", "replied", "evict", "part", "complete"}

(* Versions, lengths and the empty records are what their types say.        *)
LEMMA BasicTypes ==
    /\ MaxVer \in Nat /\ 0 \in 0 .. MaxVer /\ Gone \in Int
    /\ NoObject \in Object /\ NoLocal \in Local
    /\ NoLocal.up = None
<1>1. MaxVer \in Nat /\ 0 \in 0 .. MaxVer /\ Gone \in Int
  BY LenAssumption DEF Gone
<1>2. NoObject \in Object
  BY <1>1 DEF NoObject, Object
<1> QED BY <1>1, <1>2 DEF NoLocal, Local

(* The numbers of the state, as numbers. *)
LEMMA NumberTypes ==
    ASSUME TypeOK
    PROVE  /\ clock \in Nat
           /\ \A x \in Real : store[x] \in Object /\ store[x].ver \in Nat /\ acked[x] \in Nat
           /\ \A r \in Request : /\ req[r] \in Local /\ req[r].obj \in Object
                                 /\ req[r].obj.ver \in Nat /\ req[r].floor \in Nat
           /\ \A n \in Name : cache[n] # None => /\ cache[n] \in Entry /\ cache[n].obj \in Object
                                                 /\ cache[n].obj.ver \in Nat
           /\ \A n \in Name : RealOf[n] \in Real
<1>1. 0 .. MaxVer \subseteq Nat
  BY LenAssumption
<1>2. \A o \in Object : o.ver \in Nat
  BY <1>1 DEF Object
<1>3. /\ \A x \in Real : store[x] \in Object /\ acked[x] \in Nat
      /\ clock \in Nat
      /\ \A n \in Name : RealOf[n] \in Real
  BY <1>1, NameAssumption DEF TypeOK
<1>4. \A r \in Request : req[r] \in Local /\ req[r].obj \in Object /\ req[r].floor \in Nat
  BY <1>1 DEF TypeOK, Local
<1>5. \A n \in Name : cache[n] # None => cache[n] \in Entry /\ cache[n].obj \in Object
  BY DEF TypeOK, Entry
<1> QED BY <1>2, <1>3, <1>4, <1>5

(* Request r alone moves. *)
Only(r) == \A q \in Request : q # r => pc'[q] = pc[q] /\ req'[q] = req[q]

(* A step that sends request r to l with locals x. *)
LEMMA LocalLemma ==
    ASSUME TypeOK, NEW r \in Request, NEW l \in PcType, NEW x \in Local,
           Goto(r, l), req' = [req EXCEPT ![r] = x]
    PROVE  /\ pc' \in [Request -> PcType] /\ req' \in [Request -> Local] /\ Only(r)
           /\ pc'[r] = l /\ req'[r] = x
BY DEF TypeOK, Goto, PcType, Only

(* Tainting fills changes nothing else of a request. *)
LEMMA TaintReq ==
    ASSUME TypeOK, NEW x
    PROVE  /\ Taint(req, Filling(x)) \in [Request -> Local]
           /\ \A q \in Request :
                 /\ Taint(req, Filling(x))[q].name = req[q].name
                 /\ Taint(req, Filling(x))[q].obj = req[q].obj
                 /\ Taint(req, Filling(x))[q].floor = req[q].floor
                 /\ Taint(req, Filling(x))[q].up = req[q].up
                 /\ Taint(req, Filling(x))[q].len = req[q].len
                 /\ Taint(req, Filling(x))[q].cut = req[q].cut
                 /\ q \in Filling(x) => Taint(req, Filling(x))[q].tainted
                 /\ q \notin Filling(x) => Taint(req, Filling(x))[q] = req[q]
BY DEF TypeOK, Taint, Local

(* What a write does to the service and to the cache. *)
LEMMA ServiceWriteLemma ==
    ASSUME TypeOK, NEW x \in Real, NEW len \in Nat \cup {Gone}, NEW ev, ServiceWrite(x, len, ev)
    PROVE  /\ store' \in [Real -> Object] /\ clock' \in 0 .. MaxVer /\ clock' = clock + 1
           /\ [ver |-> clock + 1, len |-> len] \in Object
           /\ store'[x] = [ver |-> clock + 1, len |-> len]
           /\ \A y \in Real : y # x => store'[y] = store[y]
           /\ cache' \in [Name -> Entry \cup {None}]
           /\ \A n \in Name : cache'[n] # None /\ ~cache'[n].tainted =>
                 cache'[n] = cache[n] /\ Untainted(n) /\ (RealOf[n] # x \/ n \in ev)
<1>1. clock + 1 \in 0 .. MaxVer /\ clock' = clock + 1
  BY LenAssumption DEF TypeOK, ServiceWrite
<1>2. [ver |-> clock + 1, len |-> len] \in Object
  BY <1>1 DEF Object
<1>3. store' = [store EXCEPT ![x] = [ver |-> clock + 1, len |-> len]]
  BY DEF ServiceWrite
<1>4. cache' = [n \in Name |-> IF n \in {m \in Name \ ev : RealOf[m] = x /\ cache[m] # None}
                              THEN [cache[n] EXCEPT !.tainted = TRUE] ELSE cache[n]]
  BY DEF ServiceWrite, Taint, TypeOK
<1>5. \A n \in Name : cache[n] # None =>
         /\ [cache[n] EXCEPT !.tainted = TRUE] \in Entry
         /\ [cache[n] EXCEPT !.tainted = TRUE].tainted = TRUE
  BY DEF TypeOK, Entry
<1>6. cache' \in [Name -> Entry \cup {None}]
  BY <1>4, <1>5 DEF TypeOK
<1>7. ASSUME NEW n \in Name, cache'[n] # None, ~cache'[n].tainted
      PROVE  cache'[n] = cache[n] /\ Untainted(n) /\ (RealOf[n] # x \/ n \in ev)
  <2>1. CASE n \in {m \in Name \ ev : RealOf[m] = x /\ cache[m] # None}
    BY <1>4, <1>5, <1>7, <2>1
  <2>2. CASE n \notin {m \in Name \ ev : RealOf[m] = x /\ cache[m] # None}
    BY <1>4, <1>7, <2>2 DEF Untainted
  <2> QED BY <2>1, <2>2
<1> QED BY <1>1, <1>2, <1>3, <1>6, <1>7 DEF TypeOK

---------------------------------------------------------------------------
(* The cache's part of the invariant. *)

(* Every untainted entry of the next state is the service's object, or was  *)
(* there.                                                                   *)
Kept == \A n \in Name : Untainted(n)' =>
            cache'[n].obj = store[RealOf[n]] \/ (Untainted(n) /\ cache'[n].obj = cache[n].obj)

(* A step of a request that neither writes nor evicts. *)
LEMMA ReadStep ==
    ASSUME TypeOK, CacheInv, TypeOK', NEW r \in Request, Only(r),
           UNCHANGED <<store, clock, acked>>, Kept,
           pc[r] # "evict", pc'[r] # "evict", RequestOK(r)'
    PROVE  CacheInv'
<1>1. Versions' /\ \A q \in Request : RequestOK(q)'
  BY DEF CacheInv, Versions, RequestOK, Only
<1>2. \A q \in Request, n \in Name : WroteOther(q, n)' => WroteOther(q, n) /\ req'[q] = req[q]
  BY DEF WroteOther, Only
<1>3. CacheFloor'
  <2> SUFFICES ASSUME NEW n \in Name, Untainted(n)'
               PROVE  /\ cache'[n].obj.ver >= acked'[RealOf[n]]
                      /\ \A q \in Request : WroteOther(q, n)' => cache'[n].obj.ver >= req'[q].obj.ver
    BY DEF CacheFloor
  <2>1. CASE cache'[n].obj = store[RealOf[n]]
    <3>1. /\ RealOf[n] \in Real /\ store[RealOf[n]].ver \in Nat /\ acked[RealOf[n]] \in Nat
          /\ \A q \in Request : req[q].obj.ver \in Nat
      BY NumberTypes
    <3>2. acked[RealOf[n]] <= store[RealOf[n]].ver
      BY <3>1 DEF CacheInv, Versions
    <3>3. \A q \in Request : WroteOther(q, n) => req[q].obj.ver <= store[RealOf[n]].ver
      BY DEF CacheInv, RequestOK, WroteOther
    <3> QED BY <1>2, <2>1, <3>1, <3>2, <3>3
  <2>2. CASE Untainted(n) /\ cache'[n].obj = cache[n].obj
    BY <1>2, <2>2 DEF CacheInv, CacheFloor
  <2> QED BY <2>1, <2>2 DEF Kept
<1>4. StaleHasCause'
  <2> SUFFICES ASSUME NEW n \in Name, Untainted(n)', cache'[n].obj # store[RealOf[n]]
               PROVE  \E q \in Request : pc'[q] = "evict" /\ req'[q].name = n
    BY DEF StaleHasCause, Untainted
  <2>1. Untainted(n) /\ cache[n].obj # store[RealOf[n]]
    BY DEF Kept
  <2>2. PICK q \in Request : pc[q] = "evict" /\ req[q].name = n
    BY <2>1 DEF CacheInv, StaleHasCause, Untainted
  <2> QED BY <2>2 DEF Only
<1> QED BY <1>1, <1>3, <1>4 DEF CacheInv

(* A write of object x that evicts the names ev, at most one: a request     *)
(* either stays as it is, tainted if it is a fill of x, or is the writer    *)
(* that is now to evict the name.  A write that evicts nothing may be       *)
(* acknowledged at once.                                                    *)
LEMMA WriteStep ==
    ASSUME TypeOK, CacheInv, TypeOK', NEW x \in Real, NEW len \in Nat \cup {Gone},
           NEW ev \in SUBSET Name, ServiceWrite(x, len, ev),
           \A m, n \in ev : m = n,
           \A q \in Request :
              \/ pc'[q] = pc[q] /\ req'[q] = Taint(req, Filling(x))[q]
              \/ /\ pc[q] # "evict" /\ pc'[q] = "evict"
                 /\ req'[q].name \in ev /\ RealOf[req'[q].name] = x
                 /\ req'[q].obj = [ver |-> clock + 1, len |-> len]
                 /\ req'[q].len = len \/ req'[q].cut,
           \A n \in ev : \E q \in Request : pc'[q] = "evict" /\ req'[q].name = n,
           acked' = acked \/ (ev = {} /\ acked' = [acked EXCEPT ![x] = clock + 1])
    PROVE  CacheInv'
<1>1. /\ store' \in [Real -> Object] /\ clock' \in 0 .. MaxVer /\ clock' = clock + 1
      /\ store'[x] = [ver |-> clock + 1, len |-> len]
      /\ \A y \in Real : y # x => store'[y] = store[y]
      /\ \A n \in Name : cache'[n] # None /\ ~cache'[n].tainted =>
            cache'[n] = cache[n] /\ Untainted(n) /\ (RealOf[n] # x \/ n \in ev)
  BY ServiceWriteLemma
<1>2. /\ clock \in Nat
      /\ \A y \in Real : store[y] \in Object /\ store[y].ver \in Nat /\ acked[y] \in Nat
      /\ \A r \in Request : req[r].obj.ver \in Nat /\ req[r].floor \in Nat
      /\ \A n \in Name : RealOf[n] \in Real
  BY NumberTypes
<1>3. store'[x].ver = clock + 1
  BY <1>1
<1>4. \A y \in Real : acked[y] <= store[y].ver /\ store[y].ver <= clock
  BY DEF CacheInv, Versions
<1>5. \A y \in Real : /\ store[y].ver <= store'[y].ver /\ acked[y] <= acked'[y]
                      /\ acked'[y] <= store'[y].ver /\ store'[y].ver <= clock'
  <2> SUFFICES ASSUME NEW y \in Real
               PROVE  /\ store[y].ver <= store'[y].ver /\ acked[y] <= acked'[y]
                      /\ acked'[y] <= store'[y].ver /\ store'[y].ver <= clock'
    OBVIOUS
  <2>1. acked'[y] = acked[y] \/ (y = x /\ acked'[y] = clock + 1)
    BY DEF TypeOK
  <2>2. CASE y = x
    BY <1>1, <1>2, <1>3, <1>4, <2>1, <2>2
  <2>3. CASE y # x
    BY <1>1, <1>2, <1>4, <2>1, <2>3
  <2> QED BY <2>2, <2>3
<1>6. Versions'
  BY <1>5 DEF Versions
<1>7. ASSUME NEW q \in Request, pc'[q] = pc[q], req'[q] = Taint(req, Filling(x))[q]
      PROVE  /\ req'[q].name = req[q].name /\ req'[q].obj = req[q].obj
             /\ req'[q].floor = req[q].floor /\ req'[q].len = req[q].len
             /\ req'[q].cut = req[q].cut
             /\ q \in Filling(x) => req'[q].tainted
             /\ q \notin Filling(x) => req'[q] = req[q]
  BY <1>7, TaintReq
<1>8. ASSUME NEW q \in Request PROVE RequestOK(q)'
  <2>1. CASE pc'[q] = pc[q] /\ req'[q] = Taint(req, Filling(x))[q]
    <3>1. RequestOK(q)
      BY DEF CacheInv
    <3>2. pc[q] \in {"head", "set", "evict"} => RealOf[req[q].name] \in Real
      BY <1>2, <3>1 DEF RequestOK
    <3>3. pc[q] = "set" /\ ~req'[q].tainted =>
             ~req[q].tainted /\ store'[RealOf[req[q].name]] = store[RealOf[req[q].name]]
      BY <1>1, <1>7, <2>1, <3>2 DEF Filling
    <3>4. pc[q] = "replied" => req'[q] = req[q]
      BY <1>7, <2>1 DEF Filling
    <3>5. pc[q] \in {"head", "set"} => req'[q].floor <= acked'[RealOf[req'[q].name]]
      <4> SUFFICES ASSUME pc[q] \in {"head", "set"}
                   PROVE  req[q].floor <= acked'[RealOf[req[q].name]]
        BY <1>7, <2>1
      <4>1. req[q].floor <= acked[RealOf[req[q].name]]
        BY <3>1 DEF RequestOK
      <4>2. acked[RealOf[req[q].name]] <= acked'[RealOf[req[q].name]]
        BY <1>5, <3>2
      <4>3. acked'[RealOf[req[q].name]] \in Nat
        BY <3>2, NumberTypes DEF TypeOK, Object
      <4> QED BY <1>2, <3>2, <4>1, <4>2, <4>3
    <3>6. pc[q] = "evict" => req'[q].obj.ver <= store'[RealOf[req'[q].name]].ver
      <4> SUFFICES ASSUME pc[q] = "evict"
                   PROVE  req[q].obj.ver <= store'[RealOf[req[q].name]].ver
        BY <1>7, <2>1
      <4>1. req[q].obj.ver <= store[RealOf[req[q].name]].ver
        BY <3>1 DEF RequestOK
      <4>2. store[RealOf[req[q].name]].ver <= store'[RealOf[req[q].name]].ver
        BY <1>5, <3>2
      <4>3. store'[RealOf[req[q].name]].ver \in Nat
        BY <1>1, <1>2, <1>3, <3>2
      <4> QED BY <1>2, <3>2, <4>1, <4>2, <4>3
    <3> QED BY <1>7, <2>1, <3>1, <3>3, <3>4, <3>5, <3>6 DEF RequestOK
  <2>2. CASE /\ pc'[q] = "evict" /\ req'[q].name \in ev /\ RealOf[req'[q].name] = x
             /\ req'[q].obj = [ver |-> clock + 1, len |-> len]
             /\ req'[q].len = len \/ req'[q].cut
    <3>1. req'[q].obj.ver = clock + 1 /\ req'[q].obj.len = len /\ clock + 1 <= clock + 1
      BY <1>2, <2>2
    <3> QED BY <1>3, <2>2, <3>1 DEF RequestOK
  <2> QED BY <2>1, <2>2
<1>9. \A q \in Request, n \in Name : Untainted(n)' /\ WroteOther(q, n)' =>
         WroteOther(q, n) /\ req'[q].obj = req[q].obj
  <2> SUFFICES ASSUME NEW q \in Request, NEW n \in Name, Untainted(n)', WroteOther(q, n)'
               PROVE  WroteOther(q, n) /\ req'[q].obj = req[q].obj
    OBVIOUS
  <2>1. CASE pc'[q] = pc[q] /\ req'[q] = Taint(req, Filling(x))[q]
    BY <1>7, <2>1 DEF WroteOther
  <2>2. CASE req'[q].name \in ev /\ RealOf[req'[q].name] = x
    <3>1. req'[q].name # n /\ RealOf[n] = x
      BY <2>2 DEF WroteOther
    <3>2. n \in ev
      BY <1>1, <3>1 DEF Untainted
    <3> QED BY <2>2, <3>1, <3>2
  <2> QED BY <2>1, <2>2
<1>10. CacheFloor'
  <2> SUFFICES ASSUME NEW n \in Name, Untainted(n)'
               PROVE  /\ cache'[n].obj.ver >= acked'[RealOf[n]]
                      /\ \A q \in Request : WroteOther(q, n)' => cache'[n].obj.ver >= req'[q].obj.ver
    BY DEF CacheFloor
  <2>1. cache'[n] = cache[n] /\ Untainted(n) /\ (RealOf[n] # x \/ n \in ev)
    BY <1>1 DEF Untainted
  <2>2. acked'[RealOf[n]] = acked[RealOf[n]]
    BY <1>2, <2>1 DEF TypeOK
  <2> QED BY <1>9, <2>1, <2>2 DEF CacheInv, CacheFloor
<1>11. StaleHasCause'
  <2> SUFFICES ASSUME NEW n \in Name, Untainted(n)', cache'[n].obj # store'[RealOf[n]]
               PROVE  \E q \in Request : pc'[q] = "evict" /\ req'[q].name = n
    BY DEF StaleHasCause, Untainted
  <2>1. cache'[n] = cache[n] /\ Untainted(n) /\ (RealOf[n] # x \/ n \in ev)
    BY <1>1 DEF Untainted
  <2>2. CASE n \in ev
    BY <2>2
  <2>3. CASE RealOf[n] # x
    <3>1. PICK q \in Request : pc[q] = "evict" /\ req[q].name = n
      BY <1>1, <1>2, <2>1, <2>3 DEF CacheInv, StaleHasCause, Untainted
    <3> QED BY <1>7, <3>1
  <2> QED BY <2>1, <2>2, <2>3
<1> QED BY <1>6, <1>8, <1>10, <1>11 DEF CacheInv

(* metadataCache.Delete and the acknowledgement: the entry of the writer's  *)
(* own name goes, and those of other names are as new as the write.         *)
LEMMA EvictStep ==
    ASSUME TypeOK, CacheInv, NEW r \in Request, Evict(r)
    PROVE  TypeOK' /\ CacheInv' /\ Only(r) /\ pc'[r] = "idle" /\ req'[r] = NoLocal
<1> DEFINE n == req[r].name
           x == RealOf[n]
           v == req[r].obj.ver
<1>1. /\ pc[r] = "evict" /\ n \in Name /\ RequestOK(r) /\ v <= store[x].ver
      /\ cache' = [cache EXCEPT ![n] = None]
      /\ acked' = [acked EXCEPT ![x] = IF @ < v THEN v ELSE @]
      /\ UNCHANGED <<store, uploads, clock, owed>>
      /\ Goto(r, "idle") /\ req' = [req EXCEPT ![r] = NoLocal]
  BY DEF CacheInv, RequestOK, Evict, Idle
<1>2. /\ clock \in Nat /\ x \in Real /\ v \in Nat /\ v \in 0 .. MaxVer
      /\ \A y \in Real : store[y].ver \in Nat /\ acked[y] \in Nat
      /\ \A q \in Request : req[q].obj.ver \in Nat /\ req[q].floor \in Nat
      /\ \A m \in Name : RealOf[m] \in Real
  BY <1>1, NumberTypes DEF Object
<1>3. /\ pc' \in [Request -> PcType] /\ req' \in [Request -> Local] /\ Only(r)
      /\ pc'[r] = "idle" /\ req'[r] = NoLocal
  BY <1>1, LocalLemma, BasicTypes DEF PcType
<1>4. /\ acked' \in [Real -> 0 .. MaxVer]
      /\ \A y \in Real : y # x => acked'[y] = acked[y]
      /\ acked'[x] \in {acked[x], v} /\ acked[x] <= acked'[x]
  BY <1>1, <1>2 DEF TypeOK
<1>5. /\ cache' \in [Name -> Entry \cup {None}]
      /\ cache'[n] = None /\ \A m \in Name : m # n => cache'[m] = cache[m]
  BY <1>1 DEF TypeOK
<1>6. TypeOK'
  BY <1>1, <1>3, <1>4, <1>5 DEF TypeOK, PcType
<1> HIDE DEF n, x, v
<1>7. Versions'
  BY <1>1, <1>2, <1>4 DEF CacheInv, Versions
<1>8. ASSUME NEW q \in Request PROVE RequestOK(q)'
  <2>1. CASE q = r
    BY <1>3, <2>1 DEF RequestOK
  <2>2. CASE q # r
    <3>1. pc'[q] = pc[q] /\ req'[q] = req[q] /\ RequestOK(q)
      BY <1>3, <2>2 DEF Only, CacheInv
    <3>2. pc[q] \in {"head", "set"} => req[q].floor <= acked'[RealOf[req[q].name]]
      <4> SUFFICES ASSUME pc[q] \in {"head", "set"}
                   PROVE  req[q].floor <= acked'[RealOf[req[q].name]]
        OBVIOUS
      <4>1. RealOf[req[q].name] \in Real /\ req[q].floor <= acked[RealOf[req[q].name]]
        BY <1>2, <3>1 DEF RequestOK
      <4> QED BY <1>2, <1>4, <4>1
    <3> QED BY <1>1, <3>1, <3>2 DEF RequestOK
  <2> QED BY <2>1, <2>2
<1>9. CacheFloor'
  <2> SUFFICES ASSUME NEW m \in Name, Untainted(m)'
               PROVE  /\ cache'[m].obj.ver >= acked'[RealOf[m]]
                      /\ \A q \in Request : WroteOther(q, m)' => cache'[m].obj.ver >= req'[q].obj.ver
    BY DEF CacheFloor
  <2>1. m # n /\ cache'[m] = cache[m] /\ Untainted(m)
    BY <1>5 DEF Untainted
  <2>2. /\ cache[m].obj.ver >= acked[RealOf[m]]
        /\ \A q \in Request : WroteOther(q, m) => cache[m].obj.ver >= req[q].obj.ver
    BY <2>1 DEF CacheInv, CacheFloor
  <2>3. RealOf[m] = x => cache[m].obj.ver >= v
    BY <1>1, <2>1, <2>2 DEF WroteOther, n, x, v
  <2>4. cache[m].obj.ver >= acked'[RealOf[m]]
    BY <1>2, <1>4, <2>2, <2>3
  <2>5. \A q \in Request : WroteOther(q, m)' => WroteOther(q, m) /\ req'[q] = req[q]
    BY <1>3 DEF WroteOther, Only
  <2> QED BY <2>1, <2>2, <2>4, <2>5
<1>10. StaleHasCause'
  <2> SUFFICES ASSUME NEW m \in Name, Untainted(m)', cache'[m].obj # store'[RealOf[m]]
               PROVE  \E q \in Request : pc'[q] = "evict" /\ req'[q].name = m
    BY DEF StaleHasCause, Untainted
  <2>1. m # n /\ cache'[m] = cache[m] /\ Untainted(m)
    BY <1>5 DEF Untainted
  <2>2. PICK q \in Request : pc[q] = "evict" /\ req[q].name = m
    BY <1>1, <2>1 DEF CacheInv, StaleHasCause, Untainted
  <2>3. q # r
    BY <2>1, <2>2 DEF n
  <2> QED BY <1>3, <2>2, <2>3 DEF Only
<1> QED BY <1>3, <1>6, <1>7, <1>8, <1>9, <1>10 DEF CacheInv

---------------------------------------------------------------------------
(* The uploads' part of the invariant. *)

(* A step that leaves the uploads and the requests that stream as they are. *)
LEMMA UploadsStay ==
    ASSUME UploadInv, UNCHANGED uploads, owed \subseteq owed',
           \A q \in Request : /\ req'[q].up = req[q].up
                              /\ Streaming(q) \/ Streaming(q)' => pc'[q] = pc[q] /\ req'[q].len = req[q].len /\ req'[q].cut = req[q].cut
    PROVE  UploadInv'
<1>1. \A q \in Request : (Streaming(q)' <=> Streaming(q)) /\ (Streaming(q) => pc'[q] = pc[q])
  BY DEF Streaming
<1>2. \A q \in Request : StreamOK(q)'
  BY <1>1 DEF UploadInv, StreamOK, Streaming
<1>3. OwnUploads' /\ UploadsAreAccountedFor'
  BY <1>1 DEF UploadInv, OwnUploads, UploadsAreAccountedFor
<1> QED BY <1>2, <1>3 DEF UploadInv

(* A step of one upload u, which request r owns or takes, or nobody does: r *)
(* goes on with it, or lets go of it, and then it is gone from the service  *)
(* or owed.                                                                 *)
LEMMA UploadMoves ==
    ASSUME UploadInv, NEW u \in Upload, NEW r, None \notin Upload, owed \subseteq owed',
           \A v \in Upload : v # u => uploads'[v] = uploads[v],
           \A q \in Request :
              \/ /\ req'[q].up = req[q].up /\ req[q].up # u
                 /\ (Streaming(q)' <=> Streaming(q))
                 /\ Streaming(q) => pc'[q] = pc[q] /\ req'[q].len = req[q].len /\ req'[q].cut = req[q].cut
                 /\ req[q].up \in Upload \cup {None}
              \/ /\ q = r /\ StreamOK(q)' /\ req'[q].up \in {u, None}
                 /\ Streaming(q) => req[q].up = u,
           \/ uploads'[u] = None \/ uploads'[u].by # "proxy" \/ u \in owed'
           \/ \E q \in Request : req'[q].up = u
    PROVE  UploadInv'
<1>1. ASSUME NEW q \in Request PROVE StreamOK(q)'
  <2>1. CASE /\ req'[q].up = req[q].up /\ req[q].up # u
             /\ (Streaming(q)' <=> Streaming(q))
             /\ Streaming(q) => pc'[q] = pc[q] /\ req'[q].len = req[q].len /\ req'[q].cut = req[q].cut
             /\ req[q].up \in Upload \cup {None}
    <3>1. StreamOK(q)
      BY DEF UploadInv
    <3>2. Streaming(q) => req[q].up \in Upload /\ uploads'[req[q].up] = uploads[req[q].up]
      BY <2>1, <3>1 DEF StreamOK
    <3> QED BY <2>1, <3>1, <3>2 DEF StreamOK, Streaming
  <2> QED BY <2>1
<1>2. \A q \in Request : Streaming(q)' => \/ req'[q].up = u
                                          \/ Streaming(q) /\ req'[q].up = req[q].up /\ req[q].up # u
  BY <1>1 DEF StreamOK
<1>3. \A q \in Request : req'[q].up = u => q = r
  OBVIOUS
<1>4. OwnUploads'
  BY <1>2, <1>3 DEF UploadInv, OwnUploads
<1>5. UploadsAreAccountedFor'
  <2> SUFFICES ASSUME NEW v \in Upload, uploads'[v] # None, uploads'[v].by = "proxy", v \notin owed'
               PROVE  \E q \in Request : req'[q].up = v
    BY DEF UploadsAreAccountedFor
  <2>1. CASE v = u
    BY <2>1
  <2>2. CASE v # u
    <3>1. PICK q \in Request : req[q].up = v
      BY <2>2 DEF UploadInv, UploadsAreAccountedFor
    <3>2. Streaming(q)
      BY <3>1 DEF UploadInv, StreamOK
    <3> QED BY <2>2, <3>1, <3>2
  <2> QED BY <2>1, <2>2
<1> QED BY <1>1, <1>4, <1>5 DEF UploadInv

---------------------------------------------------------------------------
(* The actions. *)

(* The methods that neither stream nor write: HEAD and GET. *)
LEMMA ReadersStep ==
    ASSUME IInv, NEW r \in Request,
           \/ \E n \in Name : HeadLookup(r, n) \/ GetObject(r, n)
           \/ HeadFetch(r) \/ HeadFails(r) \/ HeadSet(r) \/ Finish(r)
    PROVE  IInv'
<1>1. /\ TypeOK /\ CacheInv /\ UploadInv /\ RequestOK(r) /\ StreamOK(r)
      /\ UNCHANGED <<store, uploads, clock, acked, owed>>
      /\ pc[r] \in {"idle", "head", "set", "replied"}
  BY DEF IInv, CacheInv, UploadInv, HeadLookup, GetObject, HeadFetch, HeadFails, HeadSet,
     Finish, Idle
<1>2. /\ \A x \in Real : /\ store[x] \in Object /\ store[x].ver \in Nat
                         /\ acked[x] \in Nat /\ acked[x] \in 0 .. MaxVer
      /\ req[r] \in Local /\ req[r].obj.ver \in Nat /\ req[r].floor \in Nat
      /\ \A n \in Name : RealOf[n] \in Real
      /\ \A n \in Name : cache[n] # None => cache[n] \in Entry
  BY <1>1, NumberTypes DEF TypeOK
<1>3. \A x \in Real : acked[x] <= store[x].ver
  BY <1>1 DEF CacheInv, Versions
<1>4. req[r].up = None
  BY <1>1 DEF StreamOK, Streaming
<1>5. ASSUME NEW l \in {"idle", "head", "set", "replied"}, NEW x \in Local,
             Goto(r, l), req' = [req EXCEPT ![r] = x], x.up = None,
             cache' \in [Name -> Entry \cup {None}], Kept,
             l # "idle" => x.name \in Name,
             l \in {"head", "set"} => x.floor <= acked[RealOf[x.name]],
             l = "set" => /\ x.floor <= x.obj.ver
                          /\ ~x.tainted => x.obj = store[RealOf[x.name]],
             l = "replied" => x.obj.ver >= x.floor \/ x.tainted
      PROVE  IInv'
  <2>1. /\ pc' \in [Request -> PcType] /\ req' \in [Request -> Local] /\ Only(r)
        /\ pc'[r] = l /\ req'[r] = x
    BY <1>1, <1>5, LocalLemma DEF PcType
  <2>2. TypeOK'
    BY <1>1, <1>5, <2>1 DEF TypeOK, PcType
  <2>3. RequestOK(r)'
    BY <1>1, <1>5, <2>1 DEF RequestOK
  <2>4. CacheInv'
    BY <1>1, <1>5, <2>1, <2>2, <2>3, ReadStep
  <2>5. \A q \in Request : /\ req'[q].up = req[q].up
                           /\ Streaming(q) \/ Streaming(q)' =>
                                 pc'[q] = pc[q] /\ req'[q].len = req[q].len /\ req'[q].cut = req[q].cut
    BY <1>1, <1>4, <1>5, <2>1 DEF Only, Streaming
  <2>6. UploadInv'
    BY <1>1, <2>5, UploadsStay
  <2> QED BY <2>2, <2>4, <2>6 DEF IInv
<1>6. ASSUME NEW n \in Name, HeadLookup(r, n) PROVE IInv'
  <2> DEFINE l == [NoLocal EXCEPT !.name = n, !.floor = acked[RealOf[n]]]
  <2>1. /\ l \in Local /\ l.name = n /\ l.floor = acked[RealOf[n]] /\ l.up = None
        /\ acked[RealOf[n]] \in Nat
    BY <1>2, BasicTypes DEF NoLocal, Local
  <2>2. Kept /\ cache' \in [Name -> Entry \cup {None}]
    BY <1>1, <1>6 DEF HeadLookup, Kept, Untainted, TypeOK
  <2> HIDE DEF l
  <2>3. CASE cache[n] # None /\ cache[n].fresh
    <3> DEFINE x == [l EXCEPT !.obj = cache[n].obj, !.tainted = cache[n].tainted]
    <3>1. cache[n] \in Entry /\ cache[n].obj \in Object /\ cache[n].tainted \in BOOLEAN
      BY <1>2, <2>3 DEF Entry
    <3>2. /\ x \in Local /\ x.name = n /\ x.up = None /\ x.floor = acked[RealOf[n]]
          /\ x.obj = cache[n].obj /\ x.tainted = cache[n].tainted
      BY <2>1, <3>1 DEF Local
    <3>3. cache[n].obj.ver >= acked[RealOf[n]] \/ cache[n].tainted
      BY <1>1, <2>3 DEF CacheInv, CacheFloor, Untainted
    <3>4. Goto(r, "replied") /\ req' = [req EXCEPT ![r] = x]
      BY <1>6, <2>3 DEF HeadLookup, l
    <3> HIDE DEF x
    <3> QED BY <1>5, <2>2, <3>2, <3>3, <3>4
  <2>4. CASE ~(cache[n] # None /\ cache[n].fresh)
    <3>1. Goto(r, "head") /\ req' = [req EXCEPT ![r] = l]
      BY <1>6, <2>4 DEF HeadLookup, l
    <3>2. l.floor <= acked[RealOf[n]]
      BY <2>1
    <3> QED BY <1>5, <2>1, <2>2, <3>1, <3>2
  <2> QED BY <2>3, <2>4
<1>7. ASSUME NEW n \in Name, GetObject(r, n) PROVE IInv'
  <2> DEFINE x == [NoLocal EXCEPT !.name = n, !.obj = store[RealOf[n]], !.floor = acked[RealOf[n]]]
  <2>1. /\ x \in Local /\ x.name = n /\ x.obj = store[RealOf[n]]
        /\ x.floor = acked[RealOf[n]] /\ x.up = None
    BY <1>2, BasicTypes DEF NoLocal, Local
  <2>2. Kept /\ cache' \in [Name -> Entry \cup {None}]
    BY <1>1, <1>7 DEF GetObject, Kept, Untainted, TypeOK
  <2>3. Goto(r, "replied") /\ req' = [req EXCEPT ![r] = x]
    BY <1>7 DEF GetObject
  <2>4. x.obj.ver >= x.floor
    BY <1>2, <1>3, <2>1
  <2> HIDE DEF x
  <2> QED BY <1>5, <2>1, <2>2, <2>3, <2>4
<1>8. CASE HeadFetch(r)
  <2> DEFINE o == store[RealOf[req[r].name]]
             x == [req[r] EXCEPT !.obj = o]
  <2>1. /\ req[r].name \in Name /\ o \in Object /\ o.ver \in Nat
        /\ req[r].floor <= acked[RealOf[req[r].name]] /\ req[r].floor <= o.ver
    <3>1. req[r].name \in Name /\ req[r].floor <= acked[RealOf[req[r].name]]
      BY <1>1, <1>8 DEF HeadFetch, RequestOK
    <3> QED BY <1>2, <1>3, <3>1
  <2>2. /\ x \in Local /\ x.name = req[r].name /\ x.obj = o /\ x.floor = req[r].floor /\ x.up = None
    BY <1>2, <1>4, <2>1 DEF Local
  <2>3. Kept /\ cache' \in [Name -> Entry \cup {None}]
    BY <1>1, <1>8 DEF HeadFetch, Kept, Untainted, TypeOK
  <2>4. PICK l \in {"set", "replied"} : Goto(r, l)
    BY <1>8 DEF HeadFetch
  <2>5. req' = [req EXCEPT ![r] = x]
    BY <1>8 DEF HeadFetch
  <2>6. x.obj.ver >= x.floor /\ x.floor <= x.obj.ver
    BY <1>2, <2>1, <2>2
  <2> HIDE DEF x, o
  <2> QED BY <1>5, <2>1, <2>2, <2>3, <2>4, <2>5, <2>6 DEF o
<1>9. CASE HeadFails(r) \/ Finish(r)
  <2>1. Goto(r, "idle") /\ req' = [req EXCEPT ![r] = NoLocal]
    BY <1>9 DEF HeadFails, Finish, Idle
  <2>2. Kept /\ cache' \in [Name -> Entry \cup {None}]
    BY <1>1, <1>9 DEF HeadFails, Finish, Kept, Untainted, TypeOK
  <2> QED BY <1>5, <2>1, <2>2, BasicTypes
<1>10. CASE HeadSet(r)
  <2> DEFINE n == req[r].name
             e == [obj |-> req[r].obj, fresh |-> TRUE, tainted |-> req[r].tainted]
             x == [req[r] EXCEPT !.tainted = FALSE]
  <2>1. /\ n \in Name /\ req[r].floor <= req[r].obj.ver
        /\ ~req[r].tainted => req[r].obj = store[RealOf[n]]
    BY <1>1, <1>10 DEF HeadSet, RequestOK
  <2>2. e \in Entry /\ e.obj = req[r].obj /\ e.tainted = req[r].tainted
    BY <1>2 DEF Entry, Local
  <2>3. /\ x \in Local /\ x.name = n /\ x.obj = req[r].obj /\ x.floor = req[r].floor /\ x.up = None
    BY <1>2, <1>4 DEF Local
  <2>4. /\ cache' = [cache EXCEPT ![n] = e] /\ Goto(r, "replied") /\ req' = [req EXCEPT ![r] = x]
    BY <1>10 DEF HeadSet
  <2> HIDE DEF e, x
  <2>5. /\ cache' \in [Name -> Entry \cup {None}] /\ cache'[n] = e
        /\ \A m \in Name : m # n => cache'[m] = cache[m]
    BY <1>1, <2>1, <2>2, <2>4 DEF TypeOK
  <2>6. Kept
    BY <2>1, <2>2, <2>5 DEF Kept, Untainted
  <2>7. x.obj.ver >= x.floor
    BY <1>2, <2>1, <2>3
  <2> QED BY <1>5, <2>1, <2>3, <2>4, <2>5, <2>6, <2>7
<1> QED BY <1>6, <1>7, <1>8, <1>9, <1>10

(* PutObject in one call, and DeleteObject. *)
LEMMA PutStep ==
    ASSUME IInv, NEW r \in Request, NEW n \in Name, NEW len \in Nat \cup {Gone}, Write(r, n, len)
    PROVE  IInv'
<1> DEFINE o == [ver |-> clock + 1, len |-> len]
           x == RealOf[n]
           l == [NoLocal EXCEPT !.name = n, !.obj = o, !.len = len]
           f == Taint(req, Filling(x))
<1>1. /\ TypeOK /\ CacheInv /\ UploadInv /\ StreamOK(r) /\ pc[r] = "idle" /\ x \in Real
      /\ ServiceWrite(x, len, {n}) /\ req' = [f EXCEPT ![r] = l] /\ Goto(r, "evict")
      /\ UNCHANGED <<uploads, acked, owed>>
  BY NumberTypes DEF IInv, UploadInv, Write
<1>2. /\ store' \in [Real -> Object] /\ clock' \in 0 .. MaxVer /\ o \in Object
      /\ cache' \in [Name -> Entry \cup {None}]
  BY <1>1, ServiceWriteLemma
<1>3. l \in Local /\ l.name = n /\ l.obj = o /\ l.len = len /\ l.up = None
  BY <1>2, BasicTypes DEF NoLocal, Local
<1>4. /\ f \in [Request -> Local]
      /\ \A q \in Request : f[q].up = req[q].up /\ f[q].len = req[q].len /\ f[q].cut = req[q].cut
  BY <1>1, TaintReq
<1> HIDE DEF o, x, l
<1>5. /\ req' \in [Request -> Local] /\ req'[r] = l
      /\ \A q \in Request : q # r => req'[q] = f[q]
  BY <1>1, <1>3, <1>4
<1> HIDE DEF f
<1>6. /\ pc' \in [Request -> PcType] /\ pc'[r] = "evict"
      /\ \A q \in Request : q # r => pc'[q] = pc[q]
  BY <1>1 DEF TypeOK, Goto, PcType
<1>7. TypeOK'
  BY <1>1, <1>2, <1>5, <1>6 DEF TypeOK, PcType
<1>8. \A q \in Request :
         \/ pc'[q] = pc[q] /\ req'[q] = Taint(req, Filling(x))[q]
         \/ /\ pc[q] # "evict" /\ pc'[q] = "evict"
            /\ req'[q].name \in {n} /\ RealOf[req'[q].name] = x
            /\ req'[q].obj = [ver |-> clock + 1, len |-> len]
            /\ req'[q].len = len \/ req'[q].cut
  BY <1>1, <1>3, <1>5, <1>6 DEF f, o, x
<1>9. \A m \in {n} : \E q \in Request : pc'[q] = "evict" /\ req'[q].name = m
  BY <1>3, <1>5, <1>6
<1>10. CacheInv'
  <2>1. /\ x \in Real /\ len \in Nat \cup {Gone} /\ {n} \in SUBSET Name
        /\ \A a, b \in {n} : a = b
    BY <1>1
  <2>2. TypeOK /\ CacheInv /\ ServiceWrite(x, len, {n}) /\ acked' = acked
    BY <1>1
  <2> QED BY <1>7, <1>8, <1>9, <2>1, <2>2, WriteStep
<1>11. UploadInv'
  BY <1>1, <1>3, <1>4, <1>5, <1>6, UploadsStay DEF StreamOK, Streaming
<1> QED BY <1>7, <1>10, <1>11 DEF IInv

(* A write that taints the fills and evicts nothing, with the uploads to be *)
(* accounted for apart: the service applied it and answered with an error,  *)
(* or a client completed a multipart upload.                                *)
LEMMA TaintingStep ==
    ASSUME IInv, NEW x \in Real, NEW len \in Nat \cup {Gone}, ServiceWrite(x, len, {}),
           req' = Taint(req, Filling(x)), UNCHANGED <<pc, owed>>,
           uploads' \in [Upload -> UploadType \cup {None}],
           acked' = acked \/ acked' = [acked EXCEPT ![x] = clock + 1]
    PROVE  /\ TypeOK' /\ CacheInv'
           /\ \A q \in Request : /\ req'[q].up = req[q].up
                              /\ req'[q].len = req[q].len /\ req'[q].cut = req[q].cut
<1>1. TypeOK /\ CacheInv
  BY DEF IInv
<1>2. /\ store' \in [Real -> Object] /\ clock' \in 0 .. MaxVer /\ clock' = clock + 1
      /\ cache' \in [Name -> Entry \cup {None}]
  BY <1>1, ServiceWriteLemma
<1>3. /\ req' \in [Request -> Local]
      /\ \A q \in Request : /\ req'[q].up = req[q].up
                              /\ req'[q].len = req[q].len /\ req'[q].cut = req[q].cut
  BY <1>1, TaintReq
<1>4. acked' \in [Real -> 0 .. MaxVer]
  BY <1>1, <1>2 DEF TypeOK
<1>5. TypeOK'
  BY <1>1, <1>2, <1>3, <1>4 DEF TypeOK
<1>6. CacheInv'
  <2> DEFINE ev == {}
  <2>1. /\ ev \in SUBSET Name /\ ServiceWrite(x, len, ev)
        /\ \A m, n \in ev : m = n
        /\ \A n \in ev : \E q \in Request : pc'[q] = "evict" /\ req'[q].name = n
        /\ acked' = acked \/ (ev = {} /\ acked' = [acked EXCEPT ![x] = clock + 1])
    OBVIOUS
  <2>2. \A q \in Request : pc'[q] = pc[q] /\ req'[q] = Taint(req, Filling(x))[q]
    OBVIOUS
  <2> HIDE DEF ev
  <2> QED BY <1>1, <1>5, <2>1, <2>2, WriteStep
<1> QED BY <1>3, <1>5, <1>6

(* A write reported as failed leaves the uploads alone. *)
LEMMA WriteFailsStep ==
    ASSUME IInv, NEW n \in Name, WriteFails(n)
    PROVE  IInv'
<1>1. PICK len \in BodyLen \cup {Gone} : ServiceWrite(RealOf[n], len, {})
  BY DEF WriteFails
<1>2. len \in Nat \cup {Gone} /\ RealOf[n] \in Real /\ uploads' \in [Upload -> UploadType \cup {None}]
      /\ UNCHANGED <<uploads, pc, acked, owed>> /\ req' = Taint(req, Filling(RealOf[n]))
  BY LenAssumption, NumberTypes DEF IInv, TypeOK, WriteFails
<1>3. /\ TypeOK' /\ CacheInv'
      /\ \A q \in Request : /\ req'[q].up = req[q].up
                              /\ req'[q].len = req[q].len /\ req'[q].cut = req[q].cut
  BY <1>1, <1>2, TaintingStep
<1>4. UploadInv'
  BY <1>2, <1>3, UploadsStay DEF IInv
<1> QED BY <1>3, <1>4 DEF IInv

(* The end of a PUT or a DELETE. *)
LEMMA EvictsStep ==
    ASSUME IInv, NEW r \in Request, Evict(r)
    PROVE  IInv'
<1>1. /\ TypeOK' /\ CacheInv' /\ Only(r) /\ pc'[r] = "idle" /\ req'[r] = NoLocal
      /\ pc[r] = "evict" /\ StreamOK(r) /\ UploadInv /\ UNCHANGED <<uploads, owed>>
  BY EvictStep DEF IInv, UploadInv, Evict
<1>2. UploadInv'
  BY <1>1, BasicTypes, UploadsStay DEF Only, StreamOK, Streaming
<1> QED BY <1>1, <1>2 DEF IInv

(* The expiry of an entry. *)
LEMMA TTLStep ==
    ASSUME IInv, NEW n \in Name, TTLElapses(n)
    PROVE  IInv'
<1>1. /\ TypeOK /\ CacheInv /\ UploadInv /\ cache[n] \in Entry
      /\ cache' = [cache EXCEPT ![n] = [cache[n] EXCEPT !.fresh = FALSE]]
      /\ UNCHANGED <<store, uploads, clock, pc, req, acked, owed>>
  BY DEF IInv, TypeOK, TTLElapses
<1>2. /\ [cache[n] EXCEPT !.fresh = FALSE] \in Entry
      /\ [cache[n] EXCEPT !.fresh = FALSE].obj = cache[n].obj
      /\ [cache[n] EXCEPT !.fresh = FALSE].tainted = cache[n].tainted
  BY <1>1 DEF Entry
<1>3. /\ cache' \in [Name -> Entry \cup {None}] /\ cache[n] # None
      /\ \A m \in Name : Untainted(m)' => Untainted(m) /\ cache'[m].obj = cache[m].obj
  BY <1>1, <1>2 DEF TypeOK, Untainted, TTLElapses
<1>4. TypeOK'
  BY <1>1, <1>3 DEF TypeOK
<1>5. Versions' /\ \A r \in Request : RequestOK(r)'
  BY <1>1 DEF CacheInv, Versions, RequestOK
<1>6. CacheFloor'
  BY <1>1, <1>3 DEF CacheInv, CacheFloor, WroteOther
<1>7. StaleHasCause'
  BY <1>1, <1>3 DEF CacheInv, StaleHasCause, Untainted
<1>8. UploadInv'
  BY <1>1, UploadsStay
<1> QED BY <1>4, <1>5, <1>6, <1>7, <1>8 DEF IInv, CacheInv

---------------------------------------------------------------------------
(* putObjectMultipart. *)

(* A step of the upload that leaves objects and cache alone. *)
LEMMA StreamingCache ==
    ASSUME IInv, TypeOK', NEW r \in Request, Only(r), UNCHANGED <<store, clock, cache, acked>>,
           pc[r] # "evict", pc'[r] \in {"idle", "part", "complete"},
           pc'[r] # "idle" => req'[r].name \in Name
    PROVE  CacheInv'
<1>1. RequestOK(r)' /\ Kept
  BY DEF RequestOK, Kept, Untainted
<1> QED BY <1>1, ReadStep DEF IInv

(* What other requests have to do with r's upload: nothing. *)
LEMMA OthersStream ==
    ASSUME IInv, NEW r \in Request, Only(r), NEW u \in Upload,
           \A q \in Request : q # r => req[q].up # u
    PROVE  \A q \in Request : q # r =>
              /\ req'[q].up = req[q].up /\ req[q].up # u
              /\ (Streaming(q)' <=> Streaming(q))
              /\ Streaming(q) => pc'[q] = pc[q] /\ req'[q].len = req[q].len /\ req'[q].cut = req[q].cut
              /\ req[q].up \in Upload \cup {None}
BY DEF Only, Streaming, IInv, TypeOK, Local

(* A request that streams has its upload to itself. *)
LEMMA OwnUpload ==
    ASSUME IInv, NEW r \in Request, Streaming(r)
    PROVE  /\ req[r].up \in Upload /\ req[r].up # None /\ uploads[req[r].up] \in UploadType
           /\ uploads[req[r].up].by = "proxy" /\ req[r].len \in Nat
           /\ uploads[req[r].up].size \in Nat /\ uploads[req[r].up].parts \in Nat
           /\ uploads[req[r].up].size <= req[r].len
           /\ \A q \in Request : q # r => req[q].up # req[r].up
<1>1. StreamOK(r) /\ req[r].up \in Upload \cup {None}
  BY DEF IInv, UploadInv, TypeOK, Local
<1>2. /\ req[r].up \in Upload /\ req[r].up # None /\ uploads[req[r].up] \in UploadType
      /\ uploads[req[r].up].by = "proxy" /\ req[r].len \in Nat
      /\ uploads[req[r].up].size <= req[r].len
  BY <1>1 DEF StreamOK, IInv, TypeOK
<1>3. \A q \in Request : q # r => req[q].up # req[r].up
  BY <1>2 DEF IInv, UploadInv, OwnUploads, StreamOK
<1> QED BY <1>2, <1>3 DEF UploadType

(* CreateMultipartUpload gives an id nobody has. *)
LEMMA StartStep ==
    ASSUME IInv, NEW r \in Request, NEW n \in Name, MultipartStart(r, n)
    PROVE  IInv'
<1>1. PICK u \in Upload, len \in BodyLen :
         /\ uploads[u] = None /\ uploads' = [uploads EXCEPT ![u] = NewUpload("proxy", n)]
         /\ req' = [req EXCEPT ![r] = [NoLocal EXCEPT !.name = n, !.up = u, !.len = len]]
  BY DEF MultipartStart
<1> DEFINE x == [NoLocal EXCEPT !.name = n, !.up = u, !.len = len]
           y == NewUpload("proxy", n)
<1>2. /\ TypeOK /\ pc[r] = "idle" /\ Goto(r, "part") /\ len \in Nat /\ u # None
      /\ UNCHANGED <<store, clock, cache, acked, owed>>
  BY LenAssumption, NoneAssumption DEF IInv, MultipartStart
<1>3. x \in Local /\ x.name = n /\ x.up = u /\ x.len = len
  BY <1>2, BasicTypes DEF NoLocal, Local
<1>4. y \in UploadType /\ y.by = "proxy" /\ y.size = 0 /\ y # None
  <2>1. y \in UploadType /\ y.by = "proxy" /\ y.size = 0
    BY NameAssumption DEF NewUpload, UploadType
  <2>2. None \notin UploadType
    BY NoneAssumption DEF UploadType
  <2> HIDE DEF y
  <2> QED BY <2>1, <2>2
<1> HIDE DEF x, y
<1>5. /\ pc' \in [Request -> PcType] /\ req' \in [Request -> Local] /\ Only(r)
      /\ pc'[r] = "part" /\ req'[r] = x
  BY <1>1, <1>2, <1>3, LocalLemma DEF PcType, x
<1>6. /\ uploads' \in [Upload -> UploadType \cup {None}] /\ uploads'[u] = y
      /\ \A v \in Upload : v # u => uploads'[v] = uploads[v]
  BY <1>1, <1>2, <1>4 DEF TypeOK, y
<1>7. TypeOK'
  BY <1>2, <1>5, <1>6 DEF TypeOK, PcType
<1>8. CacheInv'
  BY <1>2, <1>3, <1>5, <1>7, StreamingCache
<1>9. \A q \in Request : req[q].up # u
  BY <1>1, <1>2 DEF IInv, UploadInv, StreamOK
<1>10. StreamOK(r)' /\ ~Streaming(r) /\ req'[r].up = u
  BY <1>2, <1>3, <1>4, <1>5, <1>6 DEF StreamOK, Streaming
<1>11. UploadInv'
  <2>1. \A q \in Request : q # r =>
           /\ req'[q].up = req[q].up /\ req[q].up # u
           /\ (Streaming(q)' <=> Streaming(q))
           /\ Streaming(q) => pc'[q] = pc[q] /\ req'[q].len = req[q].len /\ req'[q].cut = req[q].cut
           /\ req[q].up \in Upload \cup {None}
    BY <1>5, <1>9, OthersStream
  <2> QED BY <1>2, <1>6, <1>10, <2>1, NoneAssumption, UploadMoves DEF IInv
<1> QED BY <1>7, <1>8, <1>11 DEF IInv

(* What AddPart makes of an upload. *)
LEMMA AddPartLemma ==
    ASSUME TypeOK, NEW u \in Upload, uploads[u] \in UploadType, NEW n \in Nat
    PROVE  /\ AddPart(u, n) \in [Upload -> UploadType \cup {None}]
           /\ AddPart(u, n)[u] \in UploadType
           /\ AddPart(u, n)[u].size = uploads[u].size + n
           /\ AddPart(u, n)[u].by = uploads[u].by
           /\ \A v \in Upload : v # u => AddPart(u, n)[v] = uploads[v]
<1> DEFINE p == uploads[u].parts + 1
           z == uploads[u].size + n
           e == [uploads[u] EXCEPT !.parts = p, !.size = z]
<1>1. p \in Nat /\ z \in Nat
  BY DEF UploadType
<1>2. AddPart(u, n) = [uploads EXCEPT ![u] = e]
  BY DEF AddPart
<1> HIDE DEF p, z
<1>3. e \in UploadType /\ e.size = z /\ e.by = uploads[u].by
  BY <1>1 DEF UploadType
<1> HIDE DEF e
<1>4. /\ AddPart(u, n) \in [Upload -> UploadType \cup {None}] /\ AddPart(u, n)[u] = e
      /\ \A v \in Upload : v # u => AddPart(u, n)[v] = uploads[v]
  BY <1>2, <1>3 DEF TypeOK
<1> QED BY <1>3, <1>4 DEF z

(* A record of an upload is not "no upload". *)
LEMMA UploadIsNotNone == \A y \in UploadType : y # None
BY NoneAssumption DEF UploadType

(* One turn of the loop: the upload grows by what was read, and the loop    *)
(* ends when that was all or the body broke off.                            *)
LEMMA PartStep ==
    ASSUME IInv, NEW r \in Request, MultipartPart(r) \/ MultipartBreaksOff(r)
    PROVE  IInv'
<1> DEFINE u == req[r].up
           rest == req[r].len - uploads[u].size
<1>0. /\ TypeOK /\ pc[r] = "part" /\ Streaming(r) /\ req[r].name \in Name
      /\ UNCHANGED <<store, clock, cache, acked, owed>>
  BY DEF IInv, CacheInv, RequestOK, MultipartPart, MultipartBreaksOff, Streaming
<1>2. /\ u \in Upload /\ u # None /\ uploads[u] \in UploadType /\ uploads[u].by = "proxy"
      /\ req[r].len \in Nat /\ uploads[u].size \in Nat /\ uploads[u].size <= req[r].len
      /\ \A q \in Request : q # r => req[q].up # u
  BY <1>0, OwnUpload
<1>a. req' \in [Request -> Local] /\ req'[r].up = u /\ req'[r].len = req[r].len
      /\ req'[r].name = req[r].name /\ \A q \in Request : q # r => req'[q] = req[q]
  <2>1. CASE req' = req
    BY <1>0, <2>1 DEF TypeOK
  <2>2. CASE req' = [req EXCEPT ![r].cut = TRUE]
    <3> DEFINE y == [req[r] EXCEPT !.cut = TRUE]
    <3>1. y \in Local /\ y.up = u /\ y.len = req[r].len /\ y.name = req[r].name
      BY <1>0 DEF TypeOK, Local
    <3>2. req' = [req EXCEPT ![r] = y]
      BY <2>2
    <3> HIDE DEF y, u
    <3> QED BY <1>0, <3>1, <3>2 DEF TypeOK
  <2> QED BY <2>1, <2>2 DEF MultipartPart, MultipartBreaksOff
<1>b. \E n \in Nat, l \in {"part", "complete"} :
         /\ uploads' = (IF n = 0 THEN uploads ELSE AddPart(u, n)) /\ Goto(r, l)
         /\ uploads[u].size + n <= req[r].len
         /\ l = "complete" => uploads[u].size + n = req[r].len \/ req'[r].cut
  <2>1. CASE MultipartPart(r)
    <3> DEFINE n == IF rest < PartSize THEN rest ELSE PartSize
               l == IF n < PartSize THEN "complete" ELSE "part"
    <3>1. uploads' = (IF n = 0 THEN uploads ELSE AddPart(u, n)) /\ Goto(r, l)
      BY <2>1 DEF MultipartPart
    <3>2. /\ n \in Nat /\ uploads[u].size + n <= req[r].len
          /\ n < PartSize => uploads[u].size + n = req[r].len
      BY <1>2, LenAssumption
    <3>3. l \in {"part", "complete"} /\ (l = "complete" => n < PartSize)
      OBVIOUS
    <3> HIDE DEF n, l
    <3> QED BY <3>1, <3>2, <3>3
  <2>2. CASE MultipartBreaksOff(r)
    <3>1. PICK n \in {m \in 0 .. rest : m < PartSize} :
             uploads' = IF n = 0 THEN uploads ELSE AddPart(u, n)
      BY <2>2 DEF MultipartBreaksOff
    <3>2. n \in Nat /\ uploads[u].size + n <= req[r].len
      BY <1>2, <3>1
    <3>3. Goto(r, "complete") /\ req'[r].cut
      BY <1>0, <2>2 DEF MultipartBreaksOff, TypeOK, Local
    <3> QED BY <3>1, <3>2, <3>3
  <2> QED BY <2>1, <2>2
<1>3. PICK n \in Nat, l \in {"part", "complete"} :
         /\ uploads' = (IF n = 0 THEN uploads ELSE AddPart(u, n)) /\ Goto(r, l)
         /\ uploads[u].size + n <= req[r].len
         /\ l = "complete" => uploads[u].size + n = req[r].len \/ req'[r].cut
  BY <1>b
<1>1. /\ TypeOK /\ pc[r] = "part" /\ Streaming(r) /\ req[r].name \in Name
      /\ uploads' = (IF n = 0 THEN uploads ELSE AddPart(u, n))
      /\ UNCHANGED <<store, clock, cache, acked, owed>>
  BY <1>0, <1>3
<1> HIDE DEF rest, u
<1>4. /\ uploads' \in [Upload -> UploadType \cup {None}]
      /\ uploads'[u] \in UploadType /\ uploads'[u].by = "proxy"
      /\ uploads'[u].size = uploads[u].size + n
      /\ \A v \in Upload : v # u => uploads'[v] = uploads[v]
  <2>1. CASE n = 0
    BY <1>1, <1>2, <2>1 DEF TypeOK
  <2>2. CASE n # 0
    BY <1>1, <1>2, <1>3, <2>2, AddPartLemma
  <2> QED BY <2>1, <2>2
<1>5. /\ pc' \in [Request -> PcType] /\ Only(r) /\ pc'[r] = l
  BY <1>1, <1>3, <1>a DEF TypeOK, Goto, PcType, Only
<1>6. TypeOK'
  BY <1>1, <1>4, <1>5, <1>a DEF TypeOK, PcType
<1>7. CacheInv'
  BY <1>1, <1>5, <1>6, <1>a, StreamingCache
<1>8. StreamOK(r)' /\ req'[r].up = u
  BY <1>1, <1>2, <1>3, <1>4, <1>5, <1>a, UploadIsNotNone DEF StreamOK, Streaming
<1>9. \A q \in Request : q # r =>
         /\ req'[q].up = req[q].up /\ req[q].up # u
         /\ (Streaming(q)' <=> Streaming(q))
         /\ Streaming(q) => pc'[q] = pc[q] /\ req'[q].len = req[q].len /\ req'[q].cut = req[q].cut
         /\ req[q].up \in Upload \cup {None}
  BY <1>2, <1>5, OthersStream
<1>10. UploadInv'
  <2>1. /\ StreamOK(r)' /\ req'[r].up \in {u, None}
        /\ Streaming(r) => req[r].up = u
    BY <1>8 DEF u
  <2>2. UploadInv /\ u \in Upload /\ None \notin Upload
    BY <1>2, NoneAssumption DEF IInv
  <2>3. /\ owed \subseteq owed' /\ \E q \in Request : req'[q].up = u
        /\ \A v \in Upload : v # u => uploads'[v] = uploads[v]
    BY <1>1, <1>4, <1>8
  <2> QED BY <1>9, <2>1, <2>2, <2>3, UploadMoves
<1> QED BY <1>6, <1>7, <1>10 DEF IInv

(* putObjectMultipart gives up: its upload is aborted, or owed. *)
LEMMA GiveUpStep ==
    ASSUME IInv, NEW r \in Request, MultipartAborts(r) \/ MultipartCompleteFails(r)
    PROVE  IInv'
<1> DEFINE u == req[r].up
<1>1. /\ TypeOK /\ Streaming(r) /\ pc[r] # "evict"
      /\ \/ uploads' = [uploads EXCEPT ![u] = None] /\ UNCHANGED owed
         \/ owed' = owed \cup {u} /\ UNCHANGED uploads
      /\ Goto(r, "idle") /\ req' = [req EXCEPT ![r] = NoLocal]
      /\ UNCHANGED <<store, clock, cache, acked>>
  BY DEF IInv, MultipartAborts, MultipartCompleteFails, Streaming, Idle
<1>2. /\ u \in Upload /\ \A q \in Request : q # r => req[q].up # u
  BY <1>1, OwnUpload
<1>3. /\ pc' \in [Request -> PcType] /\ req' \in [Request -> Local] /\ Only(r)
      /\ pc'[r] = "idle" /\ req'[r] = NoLocal /\ req'[r].up = None
  BY <1>1, LocalLemma, BasicTypes DEF PcType
<1> HIDE DEF u
<1>4. /\ uploads' \in [Upload -> UploadType \cup {None}]
      /\ \A v \in Upload : v # u => uploads'[v] = uploads[v]
      /\ uploads'[u] = None \/ u \in owed'
      /\ owed \subseteq owed' /\ owed' \subseteq Upload
  BY <1>1, <1>2 DEF TypeOK
<1>5. TypeOK'
  BY <1>1, <1>3, <1>4 DEF TypeOK, PcType
<1>6. CacheInv'
  BY <1>1, <1>3, <1>5, StreamingCache
<1>7. StreamOK(r)'
  BY <1>3 DEF StreamOK, Streaming
<1>8. \A q \in Request : q # r =>
         /\ req'[q].up = req[q].up /\ req[q].up # u
         /\ (Streaming(q)' <=> Streaming(q))
         /\ Streaming(q) => pc'[q] = pc[q] /\ req'[q].len = req[q].len /\ req'[q].cut = req[q].cut
         /\ req[q].up \in Upload \cup {None}
  BY <1>2, <1>3, OthersStream
<1>9. UploadInv'
  <2>1. /\ StreamOK(r)' /\ req'[r].up \in {u, None}
        /\ Streaming(r) => req[r].up = u
    BY <1>3, <1>7 DEF u
  <2>2. UploadInv /\ u \in Upload /\ None \notin Upload
    BY <1>2, NoneAssumption DEF IInv
  <2>3. /\ owed \subseteq owed'
        /\ uploads'[u] = None \/ u \in owed'
        /\ \A v \in Upload : v # u => uploads'[v] = uploads[v]
    BY <1>4
  <2> QED BY <1>8, <2>1, <2>2, <2>3, UploadMoves
<1> QED BY <1>5, <1>6, <1>9 DEF IInv

(* CompleteMultipartUpload: the object has the bytes of the upload, which   *)
(* are those of the body.                                                   *)
LEMMA CompleteStep ==
    ASSUME IInv, NEW r \in Request, MultipartComplete(r)
    PROVE  IInv'
<1> DEFINE u == req[r].up
           n == req[r].name
           x == RealOf[n]
           len == uploads[u].size
           o == [ver |-> clock + 1, len |-> len]
           f == Taint(req, Filling(x))
<1>1. /\ TypeOK /\ CacheInv /\ UploadInv /\ pc[r] = "complete" /\ Streaming(r)
      /\ n \in Name /\ x \in Real /\ StreamOK(r)
      /\ ServiceWrite(x, len, {n}) /\ uploads' = [uploads EXCEPT ![u] = None]
      /\ req' = [f EXCEPT ![r].obj = o, ![r].up = None] /\ Goto(r, "evict")
      /\ UNCHANGED <<acked, owed>>
  BY NumberTypes DEF IInv, CacheInv, UploadInv, RequestOK, MultipartComplete, Streaming
<1>2. /\ u \in Upload /\ len \in Nat /\ (len = req[r].len \/ req[r].cut)
      /\ \A q \in Request : q # r => req[q].up # u
  BY <1>1, OwnUpload DEF StreamOK
<1>3. /\ store' \in [Real -> Object] /\ clock' \in 0 .. MaxVer /\ o \in Object
      /\ cache' \in [Name -> Entry \cup {None}]
  BY <1>1, <1>2, ServiceWriteLemma
<1>4. /\ f \in [Request -> Local]
      /\ \A q \in Request : /\ f[q].up = req[q].up /\ f[q].len = req[q].len
                            /\ f[q].name = req[q].name /\ f[q].cut = req[q].cut
  BY <1>1, TaintReq
<1> HIDE DEF o, f
<1>5. /\ req' \in [Request -> Local]
      /\ req'[r].name = n /\ req'[r].obj = o /\ req'[r].up = None
      /\ req'[r].len = len \/ req'[r].cut
      /\ \A q \in Request : q # r => req'[q] = f[q]
  <2> DEFINE y == [f[r] EXCEPT !.obj = o, !.up = None]
  <2>1. y \in Local /\ y.name = n /\ y.obj = o /\ y.up = None /\ (y.len = len \/ y.cut)
    BY <1>2, <1>3, <1>4 DEF Local
  <2>2. req' = [f EXCEPT ![r] = y]
    BY <1>1, <1>4
  <2> HIDE DEF y
  <2> QED BY <1>4, <2>1, <2>2
<1>6. /\ pc' \in [Request -> PcType] /\ pc'[r] = "evict"
      /\ \A q \in Request : q # r => pc'[q] = pc[q]
  BY <1>1 DEF TypeOK, Goto, PcType
<1>7. /\ uploads' \in [Upload -> UploadType \cup {None}] /\ uploads'[u] = None
      /\ \A v \in Upload : v # u => uploads'[v] = uploads[v]
  BY <1>1, <1>2 DEF TypeOK
<1>8. TypeOK'
  BY <1>1, <1>3, <1>5, <1>6, <1>7 DEF TypeOK, PcType
<1> HIDE DEF x, len, n, u
<1>9. \A q \in Request :
         \/ pc'[q] = pc[q] /\ req'[q] = Taint(req, Filling(x))[q]
         \/ /\ pc[q] # "evict" /\ pc'[q] = "evict"
            /\ req'[q].name \in {n} /\ RealOf[req'[q].name] = x
            /\ req'[q].obj = [ver |-> clock + 1, len |-> len]
            /\ req'[q].len = len \/ req'[q].cut
  BY <1>1, <1>5, <1>6 DEF f, o, x
<1>10. \A m \in {n} : \E q \in Request : pc'[q] = "evict" /\ req'[q].name = m
  BY <1>5, <1>6
<1>11. CacheInv'
  <2>1. /\ x \in Real /\ len \in Nat \cup {Gone} /\ {n} \in SUBSET Name
        /\ \A a, b \in {n} : a = b
    BY <1>1, <1>2
  <2>2. TypeOK /\ CacheInv /\ ServiceWrite(x, len, {n}) /\ acked' = acked
    BY <1>1
  <2> QED BY <1>8, <1>9, <1>10, <2>1, <2>2, WriteStep
<1>12. StreamOK(r)' /\ (Streaming(r) => req[r].up = u)
  BY <1>5, <1>6 DEF StreamOK, Streaming, u
<1>13. \A q \in Request : q # r =>
         /\ req'[q].up = req[q].up /\ req[q].up # u
         /\ (Streaming(q)' <=> Streaming(q))
         /\ Streaming(q) => pc'[q] = pc[q] /\ req'[q].len = req[q].len /\ req'[q].cut = req[q].cut
         /\ req[q].up \in Upload \cup {None}
  BY <1>1, <1>2, <1>4, <1>5, <1>6 DEF Streaming, TypeOK, Local
<1>14. UploadInv'
  <2>1. /\ StreamOK(r)' /\ req'[r].up \in {u, None}
        /\ Streaming(r) => req[r].up = u
    BY <1>5, <1>12
  <2>2. UploadInv /\ u \in Upload /\ None \notin Upload
    BY <1>1, <1>2, NoneAssumption
  <2>3. /\ owed \subseteq owed' /\ uploads'[u] = None
        /\ \A v \in Upload : v # u => uploads'[v] = uploads[v]
    BY <1>1, <1>7
  <2> QED BY <1>13, <2>1, <2>2, <2>3, UploadMoves
<1> QED BY <1>8, <1>11, <1>14 DEF IInv

---------------------------------------------------------------------------
(* The client's uploads. *)

(* An upload of a client is nobody's in the proxy: changing it concerns no  *)
(* request.                                                                 *)
LEMMA ClientUpload ==
    ASSUME UploadInv, TypeOK, NEW u \in Upload,
           uploads[u] = None \/ uploads[u].by = "client",
           UNCHANGED <<pc, owed>>,
           \A q \in Request : /\ req'[q].up = req[q].up
                              /\ req'[q].len = req[q].len /\ req'[q].cut = req[q].cut,
           \A v \in Upload : v # u => uploads'[v] = uploads[v],
           uploads'[u] = None \/ uploads'[u].by = "client"
    PROVE  UploadInv'
<1>1. \A q \in Request : req[q].up # u /\ req[q].up \in Upload \cup {None}
  BY NoneAssumption DEF UploadInv, StreamOK, TypeOK, Local
<1>2. \A q \in Request : Streaming(q)' <=> Streaming(q)
  BY DEF Streaming
<1> QED BY <1>1, <1>2, NoneAssumption, UploadMoves

(* The client opens, fills and aborts uploads of its own. *)
LEMMA ClientStep ==
    ASSUME IInv, NEW u \in Upload,
           \/ \E n \in Name : InitiateMultipartUpload(u, n)
           \/ UploadPart(u) \/ AbortMultipartUpload(u)
    PROVE  IInv'
<1>1. /\ TypeOK /\ CacheInv /\ UploadInv /\ UNCHANGED <<store, clock, cache, pc, req, acked, owed>>
      /\ uploads[u] = None \/ uploads[u].by = "client"
  BY DEF IInv, InitiateMultipartUpload, UploadPart, AbortMultipartUpload, ClientUploads
<1>2. /\ uploads' \in [Upload -> UploadType \cup {None}]
      /\ \A v \in Upload : v # u => uploads'[v] = uploads[v]
      /\ uploads'[u] = None \/ uploads'[u].by = "client"
  <2>1. CASE \E n \in Name : InitiateMultipartUpload(u, n)
    <3>1. \A n \in Name : NewUpload("client", n) \in UploadType /\ NewUpload("client", n).by = "client"
      BY NameAssumption DEF NewUpload, UploadType
    <3> QED BY <1>1, <2>1, <3>1 DEF InitiateMultipartUpload, TypeOK
  <2>2. CASE UploadPart(u)
    <3>1. /\ uploads[u] \in UploadType /\ uploads[u].by = "client" /\ PartSize \in Nat
          /\ uploads' = AddPart(u, PartSize)
      BY <1>1, <2>2, LenAssumption DEF UploadPart, ClientUploads, TypeOK
    <3> QED BY <1>1, <3>1, AddPartLemma
  <2>3. CASE AbortMultipartUpload(u)
    BY <1>1, <2>3 DEF AbortMultipartUpload, TypeOK
  <2> QED BY <2>1, <2>2, <2>3
<1>3. TypeOK'
  BY <1>1, <1>2 DEF TypeOK
<1>4. CacheInv'
  BY <1>1 DEF CacheInv, Versions, CacheFloor, Untainted, WroteOther, StaleHasCause, RequestOK
<1>5. UploadInv'
  BY <1>1, <1>2, ClientUpload
<1> QED BY <1>3, <1>4, <1>5 DEF IInv

(* The client completes its upload, and no entry is evicted. *)
LEMMA ClientCompleteStep ==
    ASSUME IInv, NEW u \in Upload, CompleteMultipartUpload(u)
    PROVE  IInv'
<1>1. /\ TypeOK /\ UploadInv /\ uploads[u] \in UploadType /\ uploads[u].by = "client"
      /\ ServiceWrite(uploads[u].real, uploads[u].size, {})
      /\ req' = Taint(req, Filling(uploads[u].real))
      /\ acked' = [acked EXCEPT ![uploads[u].real] = clock + 1]
      /\ uploads' = [uploads EXCEPT ![u] = None] /\ UNCHANGED <<pc, owed>>
  BY DEF IInv, TypeOK, CompleteMultipartUpload, ClientUploads
<1>2. uploads[u].real \in Real /\ uploads[u].size \in Nat
  BY <1>1 DEF UploadType
<1>3. /\ uploads' \in [Upload -> UploadType \cup {None}] /\ uploads'[u] = None
      /\ \A v \in Upload : v # u => uploads'[v] = uploads[v]
  BY <1>1 DEF TypeOK
<1>4. /\ TypeOK' /\ CacheInv'
      /\ \A q \in Request : /\ req'[q].up = req[q].up
                              /\ req'[q].len = req[q].len /\ req'[q].cut = req[q].cut
  BY <1>1, <1>2, <1>3, TaintingStep
<1>5. UploadInv'
  BY <1>1, <1>3, <1>4, ClientUpload
<1> QED BY <1>4, <1>5 DEF IInv

---------------------------------------------------------------------------
(* The invariant and what follows from it. *)

(* The invariant holds when the backend starts. *)
LEMMA InitIInv == Init => IInv
<1> SUFFICES ASSUME Init PROVE IInv
  OBVIOUS
<1>1. TypeOK
  BY BasicTypes DEF Init, TypeOK
<1>2. CacheInv
  BY BasicTypes DEF Init, CacheInv, Versions, CacheFloor, Untainted, StaleHasCause, RequestOK,
     NoObject
<1>3. UploadInv
  BY BasicTypes DEF Init, UploadInv, OwnUploads, UploadsAreAccountedFor, StreamOK, Streaming
<1> QED BY <1>1, <1>2, <1>3 DEF IInv

(* Every step preserves the invariant. *)
LEMMA NextIInv == IInv /\ [Next]_vars => IInv'
<1> SUFFICES ASSUME IInv, [Next]_vars PROVE IInv'
  OBVIOUS
<1>1. ASSUME NEW r \in Request, NEW n \in Name, PutObject(r, n) \/ DeleteObject(r, n) PROVE IInv'
  <2>1. PICK len \in BodyLen \cup {Gone} : Write(r, n, len)
    BY <1>1 DEF PutObject, DeleteObject
  <2>2. len \in Nat \cup {Gone}
    BY LenAssumption
  <2> QED BY <2>1, <2>2, PutStep
<1>2. ASSUME NEW r \in Request, Serve(r) PROVE IInv'
  BY <1>1, <1>2, ReadersStep, EvictsStep, StartStep, PartStep, GiveUpStep, CompleteStep DEF Serve
<1>3. CASE UNCHANGED vars
  BY <1>3 DEF vars, IInv, TypeOK, CacheInv, UploadInv, Versions, CacheFloor, Untainted,
     WroteOther, StaleHasCause, RequestOK, OwnUploads, UploadsAreAccountedFor, StreamOK, Streaming
<1> QED BY <1>2, <1>3, WriteFailsStep, TTLStep, ClientStep, ClientCompleteStep DEF Next

(* The inductive invariant holds in every reachable state.                  *)
THEOREM Invariance == Spec => []IInv
BY InitIInv, NextIInv, PTL DEF Spec

(* The state of the backend stays within its types. *)
THEOREM TypeCorrect == Spec => []TypeOK
BY Invariance, PTL DEF IInv

(* For any number of names, objects and requests: no HEAD or GET answers    *)
(* with a version older than a write acknowledged before it began, unless   *)
(* HEAD does from a tainted entry.                                          *)
THEOREM NoUnexplainedStaleRead == Spec => []ReadsSeeAcknowledgedWrites
<1>1. IInv => ReadsSeeAcknowledgedWrites
  BY DEF IInv, CacheInv, RequestOK, ReadsSeeAcknowledgedWrites
<1> QED BY <1>1, Invariance, PTL

(* An entry of metadataCache that differs from the service's object is      *)
(* tainted, or about to be evicted under its own name.                      *)
THEOREM WrongEntriesAreExplained == Spec => []StaleHasCause
BY Invariance, PTL DEF IInv, CacheInv

(* For every part size and every body length: what a streamed PUT is about  *)
(* to acknowledge has the length of its body, unless the body broke off     *)
(* with io.ErrUnexpectedEOF.                                                *)
THEOREM NoBodyIsCut == Spec => []WholeBodyIsStored
<1>1. IInv => WholeBodyIsStored
  BY DEF IInv, CacheInv, RequestOK, WholeBodyIsStored
<1> QED BY <1>1, Invariance, PTL

(* No path through putObjectMultipart forgets its upload, save a failed     *)
(* Complete or a failed abort.                                              *)
THEOREM NoUploadIsForgotten == Spec => []UploadsAreAccountedFor
BY Invariance, PTL DEF IInv, UploadInv

=============================================================================
