--------------------------- MODULE DataKeysProofs ---------------------------
(***************************************************************************)
(* Proofs about DataKeys, for any data keys, cache slots and goroutines:   *)
(* no plaintext key bytes are lost track of (PlaintextIsOwned), an object  *)
(* that cannot be decrypted was sealed with a key zeroed under its users   *)
(* (UnreadableHasCause), and where the users do not zero the keys, every   *)
(* cached key has its bytes (KeysAreCached).                               *)
(*                                                                         *)
(* The inductive invariant says who may have a key.  A new key is its      *)
(* maker's alone until Put (NewKeyIsPrivate), and from then on in one slot *)
(* at most (CachedOnce), so that removing an entry removes the key.  An    *)
(* encryption never is the last to have live bytes (UsedIsCached), so it   *)
(* loses none by returning.  A key that can still be reached and is zeroed *)
(* was zeroed under somebody (ReachableKeys), which is what sealing with   *)
(* it then records.                                                        *)
(***************************************************************************)
EXTENDS DataKeys, TLAPS

CacheEntry == [key : DataKey, fresh : BOOLEAN]
Sealed == [blob : DataKey, good : BOOLEAN]
Pc == {"idle", "kms", "put", "have", "wipe", "open", "decrypted", "decrypt_fails",
       "given_up"}
Done == {"decrypted", "decrypt_fails", "given_up"}

(* The types of the state. *)
TypeOK ==
    /\ kind \in {"envelope", "provider", "custom"}
    /\ mem \in [DataKey -> {"unborn", "live", "zero"}]
    /\ cache \in [Slot -> CacheEntry \cup {None}]
    /\ closed \in BOOLEAN
    /\ pc \in [User -> Pc]
    /\ use \in [User -> [slot : Slot \cup {None}, key : DataKey \cup {None},
                         obj : Sealed \cup {None}]]
    /\ sealed \subseteq Sealed
    /\ leaked \subseteq DataKey
    /\ torn \subseteq DataKey

(* What the locals of user u mean at the step it has reached. *)
UserOK(u) ==
    /\ pc[u] \in {"put", "have", "wipe"} <=> use[u].key # None
    /\ pc[u] \in {"kms", "put"} => use[u].slot \in Slot
    /\ pc[u] \in {"open", "decrypted", "decrypt_fails", "given_up"} => use[u].obj \in sealed
    /\ pc[u] = "decrypt_fails" => ~use[u].obj.good \/ kind = "custom"

(* A key that is not cached yet is held by the encryption that had it made  *)
(* and by nobody else.                                                      *)
NewKeyIsPrivate ==
    \A u \in User : pc[u] = "put" =>
        use[u].key \notin Cached(Slot) \cup Held(User \ {u})

(* A key is cached in one slot at most: no other entry is left behind when  *)
(* its bytes are zeroed.                                                    *)
CachedOnce ==
    \A s, t \in Slot : (cache[s] # None /\ cache[t] # None /\ cache[s].key = cache[t].key) => s = t

(* A key that can be reached has been generated, and if its bytes are gone  *)
(* they were zeroed while it could be reached.                              *)
ReachableKeys ==
    \A d \in Cached(Slot) \cup Held(User) :
        mem[d] # "unborn" /\ (mem[d] = "zero" => d \in torn)

(* An encryption that has its key in hand is not the only one to keep its   *)
(* bytes: they are cached, or zeroed.                                       *)
UsedIsCached ==
    \A u \in User : (pc[u] \in {"have", "wipe"} /\ mem[use[u].key] = "live")
                    => use[u].key \in Cached(Slot)

BadSealsAreTorn == \A o \in sealed : ~o.good => o.blob \in torn

IInv ==
    /\ TypeOK
    /\ \A u \in User : UserOK(u)
    /\ NewKeyIsPrivate /\ CachedOnce /\ ReachableKeys /\ UsedIsCached
    /\ KeysAreOwned /\ BadSealsAreTorn

---------------------------------------------------------------------------
(* Helpers. *)

LocalType == [slot : Slot \cup {None}, key : DataKey \cup {None}, obj : Sealed \cup {None}]

(* Being cached, said of one key. *)
LEMMA CachedLemma ==
    ASSUME NEW ss, NEW d
    PROVE  d \in Cached(ss) <=> \E s \in ss : cache[s] # None /\ cache[s].key = d
BY DEF Cached

(* The same of the next state's cache. *)
LEMMA CachedPrimeLemma ==
    ASSUME NEW ss, NEW d
    PROVE  d \in Cached(ss)' <=> \E s \in ss : cache'[s] # None /\ cache'[s].key = d
BY DEF Cached

(* Being held by a user, said of one key. *)
LEMMA HeldLemma ==
    ASSUME NEW us, NEW d
    PROVE  d \in Held(us) <=> d # None /\ \E u \in us : use[u].key = d
BY DEF Held

(* The same of the next state's users. *)
LEMMA HeldPrimeLemma ==
    ASSUME NEW us, NEW d
    PROVE  d \in Held(us)' <=> d # None /\ \E u \in us : use'[u].key = d
BY DEF Held

(* User u alone moves. *)
Only(u) == \A v \in User : v # u => pc'[v] = pc[v] /\ use'[v] = use[v]

(* A user moves on and holds no key it did not hold before, or one that is  *)
(* cached; the keys themselves stay as they are.  It may give up a key only *)
(* if its bytes are gone or somebody else has them.                         *)
LEMMA UserMoves ==
    ASSUME IInv, NEW u \in User, Only(u), UNCHANGED <<kind, mem, cache, closed, torn>>,
           pc' \in [User -> Pc], use' \in [User -> LocalType],
           sealed' \subseteq Sealed, sealed \subseteq sealed',
           leaked' \subseteq DataKey, leaked \subseteq leaked',
           pc'[u] # "put", UserOK(u)', BadSealsAreTorn',
           use'[u].key \in {None, use[u].key} \cup Cached(Slot),
           pc'[u] \in {"have", "wipe"} =>
               use'[u].key \in Cached(Slot) \/ (pc[u] \in {"have", "wipe"} /\ use'[u].key = use[u].key),
           pc[u] # "put"
    PROVE  IInv'
<1>1. TypeOK'
  BY DEF IInv, TypeOK, LocalType
<1>2. \A v \in User : UserOK(v)'
  BY DEF IInv, UserOK, Only
<1>3. Cached(Slot)' = Cached(Slot)
  BY DEF Cached
<1>4. NewKeyIsPrivate'
  <2> SUFFICES ASSUME NEW v \in User, pc'[v] = "put"
               PROVE  use'[v].key \notin Cached(Slot)' \cup Held(User \ {v})'
    BY DEF NewKeyIsPrivate, Held
  <2>1. v # u /\ pc[v] = "put" /\ use'[v] = use[v]
    BY DEF Only
  <2>2. use[v].key \notin Cached(Slot) \cup Held(User \ {v}) /\ use[v].key # None
    BY <2>1 DEF IInv, NewKeyIsPrivate, UserOK
  <2>3. \A w \in User \ {v} : use'[w].key # use[v].key
    BY <2>2, HeldLemma DEF Only
  <2> QED BY <1>3, <2>1, <2>2, <2>3, HeldPrimeLemma
<1>5. CachedOnce'
  BY DEF IInv, CachedOnce
<1>6. \A d \in Held(User)' : d \in Held(User) \cup Cached(Slot)
  BY HeldLemma, HeldPrimeLemma DEF Only
<1>7. ReachableKeys'
  BY <1>3, <1>6 DEF IInv, ReachableKeys
<1>8. UsedIsCached'
  BY <1>3, CachedLemma DEF IInv, UsedIsCached, Only
<1>9. KeysAreOwned'
  <2> SUFFICES ASSUME NEW d \in DataKey, mem[d] = "live", d \notin Cached(Slot), d \notin leaked
               PROVE  d \in Held(User)'
    BY <1>3 DEF KeysAreOwned
  <2>1. PICK v \in User : use[v].key = d /\ d # None
    BY HeldLemma DEF IInv, KeysAreOwned
  <2>2. pc[v] = "put"
    BY <2>1 DEF IInv, UserOK, UsedIsCached
  <2> QED BY <2>1, <2>2, HeldPrimeLemma DEF Only
<1> QED BY <1>1, <1>2, <1>4, <1>5, <1>7, <1>8, <1>9 DEF IInv

---------------------------------------------------------------------------
(* The steps of encryptions and decryptions that leave keys and cache alone. *)

(* A step that sends a user to l with locals x changes no one else.         *)
LEMMA LocalLemma ==
    ASSUME TypeOK, NEW u \in User, NEW l \in Pc, NEW x \in LocalType,
           Goto(u, l), use' = [use EXCEPT ![u] = x]
    PROVE  /\ pc' \in [User -> Pc] /\ use' \in [User -> LocalType] /\ Only(u)
           /\ pc'[u] = l /\ use'[u] = x
BY DEF TypeOK, Goto, LocalType, Only

(* A user that is idle has no key. *)
LEMMA NoUseType ==
    NoUse \in LocalType /\ NoUse.key = None
BY DEF NoUse, LocalType

(* A method that returns drops its key. *)
LEMMA Returns ==
    ASSUME IInv, NEW u \in User, pc[u] # "put", Goto(u, "idle"), use' = [use EXCEPT ![u] = NoUse],
           UNCHANGED <<kind, mem, cache, closed, torn>>,
           sealed' \subseteq Sealed, sealed \subseteq sealed', BadSealsAreTorn',
           leaked' \subseteq DataKey, leaked \subseteq leaked'
    PROVE  IInv'
<1>1. /\ pc' \in [User -> Pc] /\ use' \in [User -> LocalType] /\ Only(u)
      /\ pc'[u] = "idle" /\ use'[u] = NoUse
  BY LocalLemma, NoUseType DEF IInv, Pc
<1>2. UserOK(u)'
  BY <1>1, NoUseType DEF UserOK
<1> QED BY <1>1, <1>2, NoUseType, UserMoves

(* DataKeyCache.Get hands out a cached key, or none. *)
LEMMA LookupStep ==
    ASSUME IInv, NEW u \in User, NEW s \in Slot, Lookup(u, s)
    PROVE  IInv'
<1>1. TypeOK /\ BadSealsAreTorn'
  BY DEF IInv, BadSealsAreTorn, Lookup
<1>2. CASE cache[s] # None /\ cache[s].fresh
  <2> DEFINE x == [NoUse EXCEPT !.slot = s, !.key = cache[s].key]
  <2>1. cache[s] \in CacheEntry
    BY <1>1, <1>2 DEF TypeOK
  <2>2. x \in LocalType /\ x.key = cache[s].key /\ x.slot = s /\ x.key # None
    BY <2>1, NoneAssumption DEF NoUse, LocalType, CacheEntry
  <2>3. Goto(u, "have") /\ use' = [use EXCEPT ![u] = x]
    BY <1>2 DEF Lookup
  <2>4. /\ pc' \in [User -> Pc] /\ use' \in [User -> LocalType] /\ Only(u)
        /\ pc'[u] = "have" /\ use'[u] = x
    BY <1>1, <2>2, <2>3, LocalLemma DEF Pc
  <2>5. UserOK(u)'
    BY <2>2, <2>4 DEF UserOK
  <2>6. x.key \in Cached(Slot)
    BY <1>2, <2>2, CachedLemma
  <2> QED BY <1>1, <2>4, <2>5, <2>6, UserMoves DEF Lookup, IInv, TypeOK
<1>3. CASE ~(cache[s] # None /\ cache[s].fresh)
  <2> DEFINE x == [NoUse EXCEPT !.slot = s]
  <2>1. x \in LocalType /\ x.key = None /\ x.slot = s
    BY DEF NoUse, LocalType
  <2>2. /\ pc' \in [User -> Pc] /\ use' \in [User -> LocalType] /\ Only(u)
        /\ pc'[u] = "kms" /\ use'[u] = x
    BY <1>1, <1>3, <2>1, LocalLemma DEF Pc, Lookup
  <2>3. UserOK(u)'
    BY <2>1, <2>2 DEF UserOK
  <2> QED BY <1>1, <2>1, <2>2, <2>3, UserMoves DEF Lookup, IInv, TypeOK
<1> QED BY <1>2, <1>3

(* Sealing with a key, or failing to: bad bytes are sealed only with a key  *)
(* that was zeroed in its users' hands.                                     *)
LEMMA SealStep ==
    ASSUME IInv, NEW u \in User, Seal(u) \/ SealFails(u)
    PROVE  IInv'
<1> DEFINE k == use[u].key
<1>1. /\ TypeOK /\ pc[u] = "have" /\ k \in DataKey /\ k # None /\ use[u] \in LocalType
      /\ UNCHANGED <<kind, mem, cache, closed, leaked, torn>>
  BY DEF IInv, TypeOK, UserOK, Seal, SealFails, LocalType
<1>2. mem[k] = "live" \/ k \in torn
  BY <1>1, HeldLemma DEF IInv, ReachableKeys, TypeOK
<1>3. sealed' \subseteq Sealed /\ sealed \subseteq sealed' /\ BadSealsAreTorn'
  <2> DEFINE b == mem[k] = "live"
  <2> DEFINE o == [blob |-> k, good |-> b]
  <2>1. b \in BOOLEAN
    OBVIOUS
  <2>2. o \in Sealed /\ o.blob = k /\ o.good = b
    <3> HIDE DEF b
    <3> QED BY <1>1, <2>1 DEF Sealed
  <2>3. sealed' = sealed \cup {o} \/ sealed' = sealed
    BY DEF Seal, SealFails
  <2>4. ~o.good => o.blob \in torn
    BY <1>2, <2>2
  <2>5. \A x \in sealed : ~x.good => x.blob \in torn
    BY DEF IInv, BadSealsAreTorn
  <2> HIDE DEF o, b
  <2> QED BY <1>1, <2>2, <2>3, <2>4, <2>5 DEF TypeOK, BadSealsAreTorn
<1>4. CASE wipesAfterUse
  <2>1. Goto(u, "wipe") /\ use' = use
    BY <1>4 DEF Seal, SealFails
  <2>2. /\ pc' \in [User -> Pc] /\ use' \in [User -> LocalType] /\ Only(u)
        /\ pc'[u] = "wipe" /\ use'[u] = use[u]
    BY <1>1, <2>1 DEF TypeOK, Goto, LocalType, Only, Pc
  <2>3. UserOK(u)'
    BY <1>1, <2>2 DEF UserOK
  <2> QED BY <1>1, <1>3, <2>2, <2>3, UserMoves DEF TypeOK
<1>5. CASE ~wipesAfterUse
  BY <1>1, <1>3, <1>5, Returns DEF Seal, SealFails, TypeOK
<1> QED BY <1>4, <1>5

(* Steps that end a method without touching a key. *)
LEMMA EndStep ==
    ASSUME IInv, NEW u \in User,
           GenerateFails(u) \/ StreamCloseFails(u) \/ Finish(u)
    PROVE  IInv'
<1>1. /\ pc[u] # "put" /\ Goto(u, "idle") /\ use' = [use EXCEPT ![u] = NoUse]
      /\ UNCHANGED <<kind, mem, cache, closed, torn, sealed>>
  BY DEF GenerateFails, StreamCloseFails, Finish
<1>2. leaked \subseteq leaked' /\ leaked' \subseteq DataKey
  BY DEF IInv, TypeOK, UserOK, GenerateFails, StreamCloseFails, Finish
<1>3. BadSealsAreTorn'
  BY <1>1 DEF IInv, BadSealsAreTorn
<1> QED BY <1>1, <1>2, <1>3, Returns DEF IInv, TypeOK

(* KMS unwraps the blob of an object that was sealed. *)
LEMMA DecryptStep ==
    ASSUME IInv, NEW u \in User, NEW o \in sealed, DecryptDataKey(u, o)
    PROVE  IInv'
<1>1. /\ TypeOK /\ pc[u] = "idle" /\ use[u].key = None /\ use[u] \in LocalType /\ o \in Sealed
      /\ UNCHANGED <<kind, mem, cache, closed, sealed, leaked, torn>>
  BY DEF IInv, TypeOK, UserOK, LocalType, DecryptDataKey
<1> DEFINE x == [use[u] EXCEPT !.obj = o]
<1>2. x \in LocalType /\ x.key = None /\ x.obj = o /\ use' = [use EXCEPT ![u] = x]
  BY <1>1 DEF LocalType, DecryptDataKey
<1>3. /\ pc' \in [User -> Pc] /\ use' \in [User -> LocalType] /\ Only(u)
      /\ (pc'[u] = "open" \/ (pc'[u] = "decrypt_fails" /\ kind = "custom")) /\ use'[u] = x
  <2>1. PICK l \in Pc : Goto(u, l) /\ (l = "open" \/ (l = "decrypt_fails" /\ kind = "custom"))
    BY DEF Pc, DecryptDataKey
  <2> QED BY <1>1, <1>2, <2>1, LocalLemma
<1>4. UserOK(u)' /\ BadSealsAreTorn'
  BY <1>1, <1>2, <1>3 DEF UserOK, IInv, BadSealsAreTorn, Done
<1> QED BY <1>1, <1>2, <1>3, <1>4, UserMoves DEF TypeOK

(* GCM accepts an object, or refuses it, or it cannot be read. *)
LEMMA OpenStep ==
    ASSUME IInv, NEW u \in User, Open(u) \/ OpenFails(u)
    PROVE  IInv'
<1>1. /\ TypeOK /\ pc[u] = "open" /\ use' = use /\ use[u].key = None /\ use[u].obj \in sealed
      /\ UNCHANGED <<kind, mem, cache, closed, sealed, leaked, torn>>
  BY DEF IInv, TypeOK, UserOK, Open, OpenFails
<1>2. /\ pc' \in [User -> Pc] /\ use' \in [User -> LocalType] /\ Only(u)
      /\ pc'[u] \in Done
      /\ pc'[u] = "decrypt_fails" => ~use[u].obj.good
  BY <1>1 DEF TypeOK, Goto, LocalType, Only, Pc, Done, Open, OpenFails
<1>3. UserOK(u)'
  BY <1>1, <1>2 DEF UserOK, Done
<1>4. BadSealsAreTorn'
  BY <1>1 DEF IInv, BadSealsAreTorn
<1> QED BY <1>1, <1>2, <1>3, <1>4, UserMoves DEF TypeOK, Done

---------------------------------------------------------------------------
(* The steps that make, cache and zero keys. *)

(* A new key is in the hands of the encryption that asked for it alone. *)
LEMMA GenerateStep ==
    ASSUME IInv, NEW u \in User, Generate(u)
    PROVE  IInv'
<1>1. PICK d \in DataKey : /\ mem[d] = "unborn" /\ mem' = [mem EXCEPT ![d] = "live"]
                           /\ use' = [use EXCEPT ![u].key = d]
  BY DEF Generate
<1>2. /\ TypeOK /\ pc[u] = "kms" /\ pc' = [pc EXCEPT ![u] = "put"] /\ d # None
      /\ UNCHANGED <<kind, cache, closed, sealed, leaked, torn>>
  BY NoneAssumption DEF IInv, Generate, Goto
<1>3. /\ pc' \in [User -> Pc] /\ use' \in [User -> LocalType] /\ Only(u) /\ pc'[u] = "put"
      /\ use'[u].key = d /\ use'[u].slot = use[u].slot
  BY <1>1, <1>2 DEF TypeOK, LocalType, Only, Pc
<1>4. /\ mem' \in [DataKey -> {"unborn", "live", "zero"}] /\ mem'[d] = "live"
      /\ \A e \in DataKey : e # d => mem'[e] = mem[e]
  BY <1>1, <1>2 DEF TypeOK
<1>5. TypeOK'
  BY <1>2, <1>3, <1>4 DEF TypeOK, LocalType
<1>6. \A v \in User : UserOK(v)'
  BY <1>2, <1>3 DEF IInv, UserOK, Only
<1>7. Cached(Slot)' = Cached(Slot)
  BY <1>2 DEF Cached
<1>8. d \notin Cached(Slot) /\ d \notin Held(User)
  BY <1>1 DEF IInv, ReachableKeys
<1>9. \A v \in User : use[v].key # d
  BY <1>2, <1>8, HeldLemma
<1>10. \A v \in User : Held(User \ {v})' \subseteq Held(User \ {v}) \cup {d}
  BY <1>3, HeldLemma, HeldPrimeLemma DEF Only
<1>11. NewKeyIsPrivate'
  <2> SUFFICES ASSUME NEW v \in User, pc'[v] = "put"
               PROVE  use'[v].key \notin Cached(Slot)' /\ use'[v].key \notin Held(User \ {v})'
    BY DEF NewKeyIsPrivate, Cached, Held
  <2>1. CASE v = u
    BY <1>3, <1>7, <1>8, <1>9, <2>1, HeldPrimeLemma DEF Only
  <2>2. CASE v # u
    BY <1>3, <1>7, <1>9, <1>10, <2>2 DEF IInv, NewKeyIsPrivate, Only
  <2> QED BY <2>1, <2>2
<1>12. CachedOnce'
  BY <1>2 DEF IInv, CachedOnce
<1>13. Held(User)' \subseteq Held(User) \cup {d}
  BY <1>3, HeldLemma, HeldPrimeLemma DEF Only
<1>14. Cached(Slot) \subseteq DataKey /\ Held(User) \subseteq DataKey
  BY <1>2 DEF Cached, Held, TypeOK, CacheEntry
<1>15. ReachableKeys'
  BY <1>2, <1>4, <1>7, <1>8, <1>13, <1>14 DEF IInv, ReachableKeys
<1>16. UsedIsCached'
  <2> SUFFICES ASSUME NEW v \in User, pc'[v] \in {"have", "wipe"}, mem'[use'[v].key] = "live"
               PROVE  use'[v].key \in Cached(Slot)
    BY <1>7 DEF UsedIsCached
  <2>1. v # u /\ pc[v] = pc'[v] /\ use'[v] = use[v]
    BY <1>3 DEF Only
  <2>2. use[v].key \in DataKey /\ use[v].key # d
    BY <1>9, <2>1 DEF IInv, UserOK, TypeOK
  <2> QED BY <1>4, <2>1, <2>2 DEF IInv, UsedIsCached
<1>17. KeysAreOwned'
  <2> SUFFICES ASSUME NEW e \in DataKey, mem'[e] = "live"
               PROVE  e \in Cached(Slot)' \cup Held(User)' \cup leaked'
    BY DEF KeysAreOwned
  <2>1. CASE e = d
    BY <1>2, <1>3, <2>1, HeldPrimeLemma
  <2>2. CASE e # d
    <3>1. e \in Cached(Slot) \cup Held(User) \cup leaked
      BY <1>4, <2>2 DEF IInv, KeysAreOwned
    <3>2. \A v \in User : use[v].key = e => v # u
      BY <1>2, NoneAssumption DEF IInv, UserOK
    <3>3. e \in Held(User) => e \in Held(User)'
      BY <1>3, <3>2, HeldLemma, HeldPrimeLemma DEF Only
    <3> QED BY <1>2, <1>7, <3>1, <3>3
  <2> QED BY <2>1, <2>2
<1>18. BadSealsAreTorn'
  BY <1>2 DEF IInv, BadSealsAreTorn
<1> QED BY <1>5, <1>6, <1>11, <1>12, <1>15, <1>16, <1>17, <1>18 DEF IInv

(* Zeroing changes live bytes of the keys given, and no others. *)
LEMMA WipeLemma ==
    ASSUME TypeOK, NEW ds, NEW shared, Wipe(ds, shared)
    PROVE  /\ mem' \in [DataKey -> {"unborn", "live", "zero"}]
           /\ \A d \in DataKey : /\ d \in ds => mem'[d] # "live"
                                 /\ d \notin ds => mem'[d] = mem[d]
                                 /\ mem[d] # "live" => mem'[d] = mem[d]
                                 /\ mem[d] # "unborn" => mem'[d] # "unborn"
           /\ torn \subseteq torn' /\ ds \cap shared \subseteq torn'
           /\ ds \subseteq DataKey => torn' \subseteq DataKey
BY DEF TypeOK, Wipe

(* Zeroing the keys ds while users and cache let go of some of them: the    *)
(* keys let go are among ds, and those of ds that can still be reached are  *)
(* the ones recorded as shared.                                             *)
LEMMA WipeStep ==
    ASSUME IInv, TypeOK', NEW ds, NEW shared, Wipe(ds, shared),
           \A u \in User : UserOK(u)', NewKeyIsPrivate', CachedOnce',
           UNCHANGED <<sealed, leaked>>,
           Cached(Slot)' \cup Held(User)' \subseteq Cached(Slot) \cup Held(User),
           (Cached(Slot)' \cup Held(User)') \cap ds \subseteq shared,
           Cached(Slot) \ ds \subseteq Cached(Slot)',
           Held(User) \ ds \subseteq Held(User)',
           \A u \in User : pc'[u] \in {"have", "wipe"} =>
               \/ use'[u].key \in Cached(Slot)'
               \/ pc[u] \in {"have", "wipe"} /\ use'[u].key = use[u].key
    PROVE  IInv'
<1>1. /\ mem' \in [DataKey -> {"unborn", "live", "zero"}]
      /\ \A d \in DataKey : /\ d \in ds => mem'[d] # "live"
                            /\ d \notin ds => mem'[d] = mem[d]
                            /\ mem[d] # "live" => mem'[d] = mem[d]
                            /\ mem[d] # "unborn" => mem'[d] # "unborn"
      /\ torn \subseteq torn' /\ ds \cap shared \subseteq torn'
  BY WipeLemma DEF IInv
<1>2. Cached(Slot) \subseteq DataKey /\ Held(User) \subseteq DataKey
  BY DEF IInv, Cached, Held, TypeOK, CacheEntry
<1>3. ReachableKeys'
  <2> SUFFICES ASSUME NEW d \in Cached(Slot)' \cup Held(User)'
               PROVE  mem'[d] # "unborn" /\ (mem'[d] = "zero" => d \in torn')
    BY DEF ReachableKeys
  <2>1. d \in DataKey /\ d \in Cached(Slot) \cup Held(User)
    BY <1>2
  <2>2. mem[d] # "unborn" /\ (mem[d] = "zero" => d \in torn)
    BY <2>1 DEF IInv, ReachableKeys
  <2> QED BY <1>1, <2>1, <2>2
<1>4. UsedIsCached'
  <2> SUFFICES ASSUME NEW u \in User, pc'[u] \in {"have", "wipe"}, mem'[use'[u].key] = "live",
                      use'[u].key \notin Cached(Slot)'
               PROVE  FALSE
    BY DEF UsedIsCached
  <2>1. pc[u] \in {"have", "wipe"} /\ use'[u].key = use[u].key
    OBVIOUS
  <2>2. use[u].key \in DataKey
    BY <2>1 DEF IInv, TypeOK, UserOK
  <2>3. use[u].key \notin ds /\ mem[use[u].key] = "live"
    BY <1>1, <2>1, <2>2
  <2>4. use[u].key \in Cached(Slot)
    BY <2>1, <2>3 DEF IInv, UsedIsCached
  <2> QED BY <2>1, <2>3, <2>4
<1>5. KeysAreOwned'
  <2> SUFFICES ASSUME NEW d \in DataKey, mem'[d] = "live"
               PROVE  d \in Cached(Slot)' \cup Held(User)' \cup leaked'
    BY DEF KeysAreOwned
  <2>1. d \notin ds /\ mem[d] = "live"
    BY <1>1
  <2> QED BY <2>1 DEF IInv, KeysAreOwned
<1>6. BadSealsAreTorn'
  BY <1>1 DEF IInv, BadSealsAreTorn
<1> QED BY <1>3, <1>4, <1>5, <1>6 DEF IInv

(* DataKeyCache.Put: the key it caches is nobody else's, and the one it     *)
(* replaces is in no other slot.                                            *)
LEMMA PutStep ==
    ASSUME IInv, NEW u \in User, Put(u)
    PROVE  IInv'
<1> DEFINE s == use[u].slot
           k == use[u].key
           e == [key |-> k, fresh |-> TRUE]
           ds == Cached({s})
           shared == Held(User \ {u})
<1>1. /\ TypeOK /\ pc[u] = "put" /\ s \in Slot /\ k \in DataKey /\ k # None
      /\ pc' = [pc EXCEPT ![u] = "have"] /\ cache' = [cache EXCEPT ![s] = e]
      /\ Wipe(ds, shared) /\ UNCHANGED <<kind, closed, use, sealed, leaked>>
  BY DEF IInv, TypeOK, UserOK, Put, Goto
<1>2. e \in CacheEntry /\ e.key = k /\ e # None
  <2>1. e \in CacheEntry /\ e.key = k
    BY <1>1 DEF CacheEntry
  <2>2. None \notin CacheEntry
    BY NoneAssumption DEF CacheEntry
  <2> HIDE DEF e
  <2> QED BY <2>1, <2>2
<1>3. /\ cache' \in [Slot -> CacheEntry \cup {None}] /\ cache'[s] = e
      /\ \A t \in Slot : t # s => cache'[t] = cache[t]
  BY <1>1, <1>2 DEF TypeOK
<1>4. ds \subseteq DataKey /\ Held(User) = Held(User)' /\ \A v \in User : Held(User \ {v})' = Held(User \ {v})
  BY <1>1 DEF Cached, Held, TypeOK, CacheEntry
<1>5. pc' \in [User -> Pc] /\ pc'[u] = "have" /\ \A v \in User : v # u => pc'[v] = pc[v]
  BY <1>1 DEF TypeOK, Pc
<1>6. TypeOK'
  BY <1>1, <1>3, <1>4, <1>5, WipeLemma DEF TypeOK
<1>7. \A v \in User : UserOK(v)'
  BY <1>1, <1>5 DEF IInv, UserOK
<1>8. k \notin Cached(Slot) /\ k \notin Held(User \ {u}) /\ k \in Held(User)
  BY <1>1, HeldLemma DEF IInv, NewKeyIsPrivate
<1>9. Cached(Slot)' \subseteq Cached(Slot) \cup {k} /\ k \in Cached(Slot)'
  <2> HIDE DEF s, k, e
  <2>1. k \in Cached(Slot)'
    BY <1>1, <1>2, <1>3, CachedPrimeLemma
  <2>2. ASSUME NEW d \in Cached(Slot)' PROVE d \in Cached(Slot) \cup {k}
    BY <1>2, <1>3, <2>2, CachedLemma, CachedPrimeLemma
  <2> QED BY <2>1, <2>2
<1>10. NewKeyIsPrivate'
  <2> SUFFICES ASSUME NEW v \in User, pc'[v] = "put"
               PROVE  use'[v].key \notin Cached(Slot)' /\ use'[v].key \notin Held(User \ {v})'
    BY DEF NewKeyIsPrivate, Cached, Held
  <2>1. v # u /\ pc[v] = "put"
    BY <1>5
  <2>2. use[v].key \notin Cached(Slot) /\ use[v].key \notin Held(User \ {v})
    BY <2>1 DEF IInv, NewKeyIsPrivate
  <2>3. use[v].key # k
    BY <1>1, <2>1, <2>2, HeldLemma
  <2> QED BY <1>1, <1>4, <1>9, <2>2, <2>3
<1>11. CachedOnce'
  <2> SUFFICES ASSUME NEW t1 \in Slot, NEW t2 \in Slot, cache'[t1] # None, cache'[t2] # None,
                      cache'[t1].key = cache'[t2].key
               PROVE  t1 = t2
    BY DEF CachedOnce
  <2>1. \A t \in Slot : t # s /\ cache'[t] # None => cache'[t].key # k
    BY <1>3, <1>8, CachedLemma
  <2> QED BY <1>2, <1>3, <2>1 DEF IInv, CachedOnce
<1>12. \A d \in ds : d \notin Cached(Slot)' /\ d # k
  <2> SUFFICES ASSUME NEW d \in ds
               PROVE  d \notin Cached(Slot)' /\ d # k
    OBVIOUS
  <2>1. cache[s] # None /\ cache[s].key = d
    BY CachedLemma
  <2>2. d # k
    BY <1>1, <1>8, <2>1, CachedLemma
  <2>3. \A t \in Slot : t # s /\ cache[t] # None => cache[t].key # d
    BY <1>1, <2>1 DEF IInv, CachedOnce
  <2> QED BY <1>2, <1>3, <2>2, <2>3, CachedPrimeLemma
<1>13. (Cached(Slot)' \cup Held(User)') \cap ds \subseteq shared
  <2>1. ASSUME NEW d \in Held(User), d # k PROVE d \in Held(User \ {u})
    BY <2>1, HeldLemma
  <2> QED BY <1>4, <1>12, <2>1
<1>14. Cached(Slot) \ ds \subseteq Cached(Slot)'
  BY <1>3, CachedLemma, CachedPrimeLemma
<1>15. \A v \in User : pc'[v] \in {"have", "wipe"} =>
          \/ use'[v].key \in Cached(Slot)'
          \/ pc[v] \in {"have", "wipe"} /\ use'[v].key = use[v].key
  BY <1>1, <1>5, <1>9
<1> HIDE DEF s, k, e, ds, shared
<1> QED BY <1>1, <1>4, <1>6, <1>7, <1>8, <1>9, <1>10, <1>11, <1>13, <1>14, <1>15, WipeStep

(* The envelope zeroes the key it used, which the cache and others may      *)
(* still have.                                                              *)
LEMMA WipeUsedStep ==
    ASSUME IInv, NEW u \in User, WipeUsed(u)
    PROVE  IInv'
<1> DEFINE k == use[u].key
           shared == Cached(Slot) \cup Held(User \ {u})
<1>1. /\ TypeOK /\ pc[u] = "wipe" /\ k \in DataKey /\ k # None
      /\ Goto(u, "idle") /\ use' = [use EXCEPT ![u] = NoUse]
      /\ Wipe({k}, shared) /\ UNCHANGED <<kind, cache, closed, sealed, leaked>>
  BY DEF IInv, TypeOK, UserOK, WipeUsed
<1>2. /\ pc' \in [User -> Pc] /\ use' \in [User -> LocalType] /\ Only(u)
      /\ pc'[u] = "idle" /\ use'[u].key = None
  BY <1>1, LocalLemma, NoUseType DEF Pc
<1>3. TypeOK'
  BY <1>1, <1>2, WipeLemma DEF TypeOK, LocalType
<1>4. \A v \in User : UserOK(v)'
  BY <1>1, <1>2 DEF IInv, UserOK, Only
<1>5. Cached(Slot)' = Cached(Slot)
  BY <1>1 DEF Cached
<1>6. \A v \in User : Held(User \ {v})' \subseteq Held(User \ {v})
  BY <1>2, HeldLemma, HeldPrimeLemma DEF Only
<1>7. NewKeyIsPrivate'
  <2> SUFFICES ASSUME NEW v \in User, pc'[v] = "put"
               PROVE  use'[v].key \notin Cached(Slot)' /\ use'[v].key \notin Held(User \ {v})'
    BY DEF NewKeyIsPrivate, Cached, Held
  <2>1. v # u /\ pc[v] = "put" /\ use'[v] = use[v]
    BY <1>2 DEF Only
  <2> QED BY <1>5, <1>6, <2>1 DEF IInv, NewKeyIsPrivate
<1>8. CachedOnce'
  BY <1>1 DEF IInv, CachedOnce
<1>9. Held(User)' \subseteq Held(User \ {u}) /\ Held(User \ {u}) \subseteq Held(User)
      /\ Held(User) \ {k} \subseteq Held(User)'
  BY <1>2, HeldLemma, HeldPrimeLemma DEF Only
<1>10. \A v \in User : pc'[v] \in {"have", "wipe"} =>
          pc[v] \in {"have", "wipe"} /\ use'[v].key = use[v].key
  BY <1>2 DEF Only
<1> HIDE DEF k, shared
<1>11. (Cached(Slot)' \cup Held(User)') \cap {k} \subseteq shared
  BY <1>5, <1>9 DEF shared
<1> QED BY <1>1, <1>3, <1>4, <1>5, <1>7, <1>8, <1>9, <1>10, <1>11, WipeStep

(* clearSensitiveData and removal of the entries ss from the map.           *)
LEMMA EvictStep ==
    ASSUME IInv, NEW ss \in SUBSET Slot, Evict(ss), closed' \in BOOLEAN
    PROVE  IInv'
<1> DEFINE ds == Cached(ss)
           shared == Held(User)
<1>1. /\ TypeOK /\ Wipe(ds, shared) /\ UNCHANGED <<kind, pc, use, sealed, leaked>>
      /\ cache' = [s \in Slot |-> IF s \in ss THEN None ELSE cache[s]]
  BY DEF IInv, Evict
<1>2. /\ cache' \in [Slot -> CacheEntry \cup {None}]
      /\ \A s \in Slot : cache'[s] # None => s \notin ss /\ cache'[s] = cache[s]
      /\ \A s \in Slot : s \notin ss => cache'[s] = cache[s]
  BY <1>1 DEF TypeOK
<1>3. ds \subseteq DataKey /\ Held(User) = Held(User)' /\ \A v \in User : Held(User \ {v})' = Held(User \ {v})
  BY <1>1 DEF Cached, Held, TypeOK, CacheEntry
<1>4. TypeOK'
  BY <1>1, <1>2, <1>3, WipeLemma DEF TypeOK
<1>5. \A v \in User : UserOK(v)'
  BY <1>1 DEF IInv, UserOK
<1>6. Cached(Slot)' \subseteq Cached(Slot)
  BY <1>2, CachedLemma, CachedPrimeLemma
<1>7. NewKeyIsPrivate'
  BY <1>1, <1>3, <1>6 DEF IInv, NewKeyIsPrivate
<1>8. CachedOnce'
  BY <1>2 DEF IInv, CachedOnce
<1>9. Cached(Slot)' \cap ds = {}
  <2> SUFFICES ASSUME NEW d \in Cached(Slot)', d \in ds
               PROVE  FALSE
    OBVIOUS
  <2>1. PICK s \in Slot : cache'[s] # None /\ cache'[s].key = d
    BY CachedPrimeLemma
  <2>2. PICK t \in ss : cache[t] # None /\ cache[t].key = d
    BY CachedLemma
  <2> QED BY <1>2, <2>1, <2>2 DEF IInv, CachedOnce
<1>10. Cached(Slot) \ ds \subseteq Cached(Slot)'
  BY <1>2, CachedLemma, CachedPrimeLemma
<1> HIDE DEF ds, shared
<1>11. (Cached(Slot)' \cup Held(User)') \cap ds \subseteq shared
  BY <1>3, <1>9 DEF shared
<1>12. Held(User) \ ds \subseteq Held(User)'
  BY <1>3
<1> QED BY <1>1, <1>3, <1>4, <1>5, <1>6, <1>7, <1>8, <1>10, <1>11, <1>12, WipeStep

(* A TTL that runs out leaves the key cached. *)
LEMMA ExpireStep ==
    ASSUME IInv, NEW s \in Slot, Expire(s)
    PROVE  IInv'
<1>1. /\ TypeOK /\ cache[s] # None /\ cache' = [cache EXCEPT ![s].fresh = FALSE]
      /\ UNCHANGED <<kind, mem, closed, pc, use, sealed, leaked, torn>>
  BY DEF IInv, Expire
<1>2. cache[s] \in CacheEntry
  BY <1>1 DEF TypeOK
<1>3. /\ [cache[s] EXCEPT !.fresh = FALSE] \in CacheEntry
      /\ [cache[s] EXCEPT !.fresh = FALSE].key = cache[s].key
  BY <1>2 DEF CacheEntry
<1>4. cache' = [cache EXCEPT ![s] = [cache[s] EXCEPT !.fresh = FALSE]] /\ None \notin CacheEntry
  BY <1>1, NoneAssumption DEF CacheEntry
<1>5. /\ cache' \in [Slot -> CacheEntry \cup {None}]
      /\ \A t \in Slot : /\ cache'[t] # None <=> cache[t] # None
                         /\ cache'[t] # None => cache'[t].key = cache[t].key
  BY <1>1, <1>3, <1>4 DEF TypeOK
<1>6. \A d : d \in Cached(Slot)' <=> d \in Cached(Slot)
  BY <1>5, CachedLemma, CachedPrimeLemma
<1>7. Cached(Slot)' = Cached(Slot) /\ Held(User)' = Held(User)
      /\ \A u \in User : Held(User \ {u})' = Held(User \ {u})
  BY <1>1, <1>6 DEF Held
<1>8. TypeOK' /\ \A u \in User : UserOK(u)'
  BY <1>1, <1>5 DEF IInv, TypeOK, UserOK
<1>9. NewKeyIsPrivate' /\ ReachableKeys' /\ UsedIsCached' /\ KeysAreOwned' /\ BadSealsAreTorn'
  BY <1>1, <1>7 DEF IInv, NewKeyIsPrivate, ReachableKeys, UsedIsCached, KeysAreOwned,
     BadSealsAreTorn
<1>10. CachedOnce'
  BY <1>5 DEF IInv, CachedOnce
<1> QED BY <1>8, <1>9, <1>10 DEF IInv

---------------------------------------------------------------------------
(* The invariant and what follows from it. *)

(* The invariant holds before any key is generated. *)
LEMMA InitIInv == Init => IInv
<1> SUFFICES ASSUME Init PROVE IInv
  OBVIOUS
<1>1. TypeOK
  BY KindAssumption, NoUseType DEF Init, TypeOK, LocalType, Pc
<1>2. \A u \in User : use[u].key = None /\ pc[u] = "idle"
  BY NoUseType DEF Init
<1>3. \A u \in User : UserOK(u)
  BY <1>2 DEF UserOK
<1>4. NewKeyIsPrivate /\ UsedIsCached
  BY <1>2 DEF NewKeyIsPrivate, UsedIsCached
<1>5. CachedOnce /\ KeysAreOwned /\ BadSealsAreTorn
  BY DEF Init, CachedOnce, KeysAreOwned, BadSealsAreTorn
<1>6. Cached(Slot) = {} /\ Held(User) = {}
  BY <1>2 DEF Init, Cached, Held
<1>7. ReachableKeys
  BY <1>6 DEF ReachableKeys
<1> QED BY <1>1, <1>3, <1>4, <1>5, <1>7 DEF IInv

(* Every step preserves the invariant. *)
LEMMA NextIInv == IInv /\ [Next]_vars => IInv'
<1> SUFFICES ASSUME IInv, [Next]_vars PROVE IInv'
  OBVIOUS
<1>1. ASSUME NEW u \in User, Encrypt(u) PROVE IInv'
  BY <1>1, LookupStep, GenerateStep, EndStep, PutStep, SealStep, WipeUsedStep DEF Encrypt
<1>2. ASSUME NEW u \in User, Decrypt(u) \/ Finish(u) PROVE IInv'
  BY <1>2, DecryptStep, OpenStep, EndStep DEF Decrypt
<1>3. ASSUME Maintain PROVE IInv'
  <2>1. ASSUME NEW s \in Slot, Delete(s) PROVE IInv'
    BY <2>1, EvictStep DEF Delete, IInv, TypeOK
  <2>2. CASE Cleanup
    <3>1. Expired \in SUBSET Slot
      BY DEF Expired
    <3> QED BY <2>2, <3>1, EvictStep DEF Cleanup, IInv, TypeOK
  <2>3. CASE Clear \/ Close
    BY <2>3, EvictStep DEF Clear, Close, IInv, TypeOK
  <2> QED BY <1>3, <2>1, <2>2, <2>3, ExpireStep DEF Maintain
<1>4. CASE UNCHANGED vars
  BY <1>4 DEF vars, IInv, TypeOK, UserOK, NewKeyIsPrivate, CachedOnce, ReachableKeys,
     UsedIsCached, KeysAreOwned, BadSealsAreTorn, Cached, Held
<1> QED BY <1>1, <1>2, <1>3, <1>4 DEF Next

(* The inductive invariant holds in every reachable state.                  *)
THEOREM Invariance == Spec => []IInv
BY InitIInv, NextIInv, PTL DEF Spec

(* The copies that decryptions make. *)
CopiesInv == copies \subseteq [of : DataKey, by : User] /\ CopiesAreOwned

(* What becomes of the copies if those there are stay where they were. *)
LEMMA CopiesStay ==
    ASSUME CopiesInv, UNCHANGED <<kind, copies>>,
           \A v \in User, d \in DataKey : Decrypting(v, d) => Decrypting(v, d)'
    PROVE  CopiesInv'
  BY DEF CopiesInv, CopiesAreOwned, wipesAfterUse

(* A decryption that has its copy zeroes it, under an envelope, before it   *)
(* returns, and no one else's.                                              *)
LEMMA CopiesStep == IInv /\ CopiesInv /\ [Next]_vars => CopiesInv'
<1> SUFFICES ASSUME IInv, CopiesInv, [Next]_vars PROVE CopiesInv'
  OBVIOUS
<1>1. pc \in [User -> Pc] /\ use \in [User -> LocalType]
  BY DEF IInv, TypeOK, LocalType
<1>2. ASSUME NEW u \in User, Encrypt(u) PROVE CopiesInv'
  <2>1. /\ UNCHANGED <<kind, copies>> /\ pc[u] \notin {"open"} \cup Done
        /\ \A v \in User : v # u => pc'[v] = pc[v] /\ use'[v] = use[v]
    BY <1>1, <1>2 DEF Encrypt, Lookup, Generate, GenerateFails, Put, Seal, SealFails, WipeUsed,
       StreamCloseFails, Goto, Done
  <2>2. \A v \in User, d \in DataKey : Decrypting(v, d) => Decrypting(v, d)'
    BY <2>1 DEF Decrypting, Done
  <2> QED BY <2>1, <2>2, CopiesStay
<1>3. ASSUME NEW u \in User, NEW o \in sealed, DecryptDataKey(u, o) PROVE CopiesInv'
  <2>1. /\ o.blob \in DataKey /\ pc[u] = "idle" /\ UNCHANGED kind /\ use'[u].obj = o
        /\ \A v \in User : v # u => pc'[v] = pc[v] /\ use'[v] = use[v]
    BY <1>1, <1>3 DEF DecryptDataKey, Goto, LocalType, IInv, TypeOK, Sealed
  <2>2. CASE kind = "custom"
    <3>1. ~wipesAfterUse' /\ UNCHANGED copies
      BY <1>3, <2>1, <2>2 DEF DecryptDataKey, wipesAfterUse
    <3> QED BY <3>1 DEF CopiesInv, CopiesAreOwned
  <2>3. CASE kind # "custom"
    <3>1. copies' = copies \cup {[of |-> o.blob, by |-> u]} /\ pc'[u] = "open"
      BY <1>1, <1>3, <2>3 DEF DecryptDataKey, Goto
    <3>2. Decrypting(u, o.blob)'
      BY <2>1, <3>1 DEF Decrypting
    <3>3. ASSUME NEW c \in copies, wipesAfterUse' PROVE Decrypting(c.by, c.of)'
      <4>1. Decrypting(c.by, c.of) /\ c.by \in User
        BY <2>1, <3>3 DEF CopiesInv, CopiesAreOwned, wipesAfterUse
      <4>2. c.by # u
        BY <2>1, <4>1 DEF Decrypting
      <4> QED BY <2>1, <4>1, <4>2 DEF Decrypting
    <3> QED BY <2>1, <3>1, <3>2, <3>3 DEF CopiesInv, CopiesAreOwned
  <2> QED BY <2>2, <2>3
<1>4. ASSUME NEW u \in User, Open(u) \/ OpenFails(u) PROVE CopiesInv'
  <2>1. /\ UNCHANGED <<kind, copies, use>> /\ pc'[u] \in Done
        /\ \A v \in User : v # u => pc'[v] = pc[v]
    BY <1>1, <1>4 DEF Open, OpenFails, Goto, Done
  <2>2. \A v \in User, d \in DataKey : Decrypting(v, d) => Decrypting(v, d)'
    BY <2>1 DEF Decrypting, Done
  <2> QED BY <2>1, <2>2, CopiesStay
<1>5. ASSUME NEW u \in User, Finish(u) PROVE CopiesInv'
  <2>1. /\ UNCHANGED kind
        /\ copies' = IF wipesAfterUse THEN copies \ {[of |-> use[u].obj.blob, by |-> u]} ELSE copies
        /\ \A v \in User : v # u => pc'[v] = pc[v] /\ use'[v] = use[v]
    BY <1>1, <1>5 DEF Finish, Goto
  <2>2. copies' \subseteq copies
    BY <2>1
  <2>3. ASSUME NEW c \in copies', wipesAfterUse' PROVE Decrypting(c.by, c.of)'
    <3>1. /\ wipesAfterUse /\ c \in copies /\ c # [of |-> use[u].obj.blob, by |-> u]
          /\ c \in [of : DataKey, by : User]
      BY <2>1, <2>3 DEF wipesAfterUse, CopiesInv
    <3>2. Decrypting(c.by, c.of)
      BY <3>1 DEF CopiesInv, CopiesAreOwned
    <3>3. c.by # u
      BY <3>1, <3>2 DEF Decrypting
    <3> QED BY <2>1, <3>1, <3>2, <3>3 DEF Decrypting
  <2> QED BY <2>2, <2>3 DEF CopiesInv, CopiesAreOwned
<1>6. CASE Maintain \/ UNCHANGED vars
  <2>1. UNCHANGED <<kind, copies, pc, use>>
    BY <1>6 DEF Maintain, Expire, Delete, Cleanup, Clear, Close, Evict, vars
  <2>2. \A v \in User, d \in DataKey : Decrypting(v, d) => Decrypting(v, d)'
    BY <2>1 DEF Decrypting
  <2> QED BY <2>1, <2>2, CopiesStay
<1> QED BY <1>2, <1>3, <1>4, <1>5, <1>6 DEF Next, Decrypt

(* For any number of data keys, cache slots and goroutines: bytes of a      *)
(* generated key that are not zeroed belong to a cached key, to an          *)
(* encryption in progress or to a stream whose Close failed, and copies an  *)
(* envelope's decryptions have made to one that has not returned.           *)
THEOREM NoPlaintextIsLost == Spec => []PlaintextIsOwned
<1>1. Init => CopiesInv
  BY DEF Init, CopiesInv, CopiesAreOwned
<1>2. IInv /\ CopiesInv => PlaintextIsOwned
  BY DEF IInv, CopiesInv, PlaintextIsOwned
<1> QED BY <1>1, <1>2, CopiesStep, Invariance, PTL DEF Spec

(* An object that cannot be decrypted was sealed with a key whose bytes     *)
(* were zeroed while the cache or another encryption still had it, or with  *)
(* one of the custom provider.                                              *)
THEOREM UnreadableIsExplained == Spec => []UnreadableHasCause
<1>1. IInv => UnreadableHasCause
  BY DEF IInv, UserOK, BadSealsAreTorn, UnreadableHasCause, Done
<1> QED BY <1>1, Invariance, PTL

---------------------------------------------------------------------------
(* Users that do not zero the keys they are handed (SimpleAESGCMEncryptor). *)

(* A new key has its bytes; if nobody zeroes what the cache hands out, so   *)
(* has every cached one.                                                    *)
LiveKeys ==
    /\ \A u \in User : pc[u] = "put" => mem[use[u].key] = "live"
    /\ ~wipesAfterUse => /\ \A u \in User : pc[u] # "wipe"
                         /\ \A s \in Slot : cache[s] # None => mem[cache[s].key] = "live"

(* Zeroing spares the new keys and, once their entries are gone from the    *)
(* map, the cached ones.                                                    *)
LEMMA LiveWipe ==
    ASSUME IInv, LiveKeys, NEW ds \in SUBSET DataKey, NEW shared, Wipe(ds, shared),
           UNCHANGED kind,
           \A u \in User : pc'[u] = "put" =>
               pc[u] = "put" /\ use'[u].key = use[u].key /\ use[u].key \notin ds,
           ~wipesAfterUse =>
               /\ \A u \in User : pc'[u] # "wipe"
               /\ \A s \in Slot : cache'[s] # None =>
                     /\ cache'[s].key \in DataKey \ ds
                     /\ mem[cache'[s].key] = "live"
    PROVE  LiveKeys'
<1>1. \A d \in DataKey : d \notin ds => mem'[d] = mem[d]
  BY DEF Wipe
<1>2. \A u \in User : pc[u] = "put" => use[u].key \in DataKey
  BY DEF IInv, TypeOK, UserOK
<1> QED BY <1>1, <1>2 DEF LiveKeys, wipesAfterUse

(* Every step keeps live keys live. *)
LEMMA LiveStep == IInv /\ LiveKeys /\ [Next]_vars => LiveKeys'
<1> SUFFICES ASSUME IInv, LiveKeys, [Next]_vars PROVE LiveKeys'
  OBVIOUS
<1>0. /\ \A s \in Slot : cache[s] # None => cache[s].key \in DataKey
      /\ \A ss \in SUBSET Slot : Cached(ss) \in SUBSET DataKey
      /\ \A u \in User : pc[u] = "put" => use[u].key \notin Cached(Slot)
      /\ pc \in [User -> Pc] /\ wipesAfterUse \in BOOLEAN
      /\ use \in [User -> LocalType]
  BY DEF IInv, TypeOK, CacheEntry, Cached, NewKeyIsPrivate, LocalType, wipesAfterUse
<1>1. ASSUME NEW u \in User, \/ \E s \in Slot : Lookup(u, s)
                             \/ GenerateFails(u) \/ Seal(u) \/ SealFails(u) \/ StreamCloseFails(u)
                             \/ Decrypt(u) \/ Finish(u)
      PROVE  LiveKeys'
  <2>1. UNCHANGED <<kind, mem, cache>>
    BY <1>1 DEF Lookup, GenerateFails, Seal, SealFails, StreamCloseFails, Decrypt,
       DecryptDataKey, Open, OpenFails, Finish
  <2>2. PICK l \in Pc \ {"put"} : pc' = [pc EXCEPT ![u] = l] /\ (l = "wipe" => wipesAfterUse)
    BY <1>1 DEF Lookup, GenerateFails, Seal, SealFails, StreamCloseFails, Decrypt,
       DecryptDataKey, Open, OpenFails, Finish, Goto, Pc
  <2>3. \A v \in User : v # u => use'[v] = use[v]
    BY <1>0, <1>1 DEF Lookup, GenerateFails, Seal, SealFails, StreamCloseFails, Decrypt,
       DecryptDataKey, Open, OpenFails, Finish
  <2> QED BY <1>0, <2>1, <2>2, <2>3 DEF LiveKeys, wipesAfterUse
<1>2. ASSUME NEW u \in User, Generate(u) PROVE LiveKeys'
  <2>1. PICK d \in DataKey : /\ mem[d] = "unborn" /\ mem' = [mem EXCEPT ![d] = "live"]
                             /\ use' = [use EXCEPT ![u].key = d]
    BY <1>2 DEF Generate
  <2>2. pc' = [pc EXCEPT ![u] = "put"] /\ UNCHANGED <<kind, cache>>
    BY <1>2 DEF Generate, Goto
  <2>3. mem'[d] = "live" /\ \A e \in DataKey : mem[e] = "live" => mem'[e] = "live"
    BY <2>1 DEF IInv, TypeOK
  <2>4. \A v \in User : pc[v] = "put" => use[v].key \in DataKey
    BY DEF IInv, TypeOK, UserOK
  <2>5. use'[u].key = d /\ \A v \in User : v # u => use'[v] = use[v]
    BY <1>0, <2>1 DEF LocalType
  <2> QED BY <1>0, <2>2, <2>3, <2>4, <2>5 DEF LiveKeys, wipesAfterUse
<1>3. ASSUME NEW u \in User, Put(u) PROVE LiveKeys'
  <2> DEFINE s == use[u].slot
             k == use[u].key
             e == [key |-> k, fresh |-> TRUE]
             ds == Cached({s})
  <2>1. /\ s \in Slot /\ k \in DataKey /\ mem[k] = "live" /\ k \notin Cached(Slot)
        /\ pc' = [pc EXCEPT ![u] = "have"] /\ cache' = [cache EXCEPT ![s] = e]
        /\ Wipe(ds, Held(User \ {u})) /\ UNCHANGED <<kind, use>>
    BY <1>0, <1>3 DEF IInv, TypeOK, UserOK, Put, Goto, LiveKeys
  <2>2. ds \in SUBSET DataKey /\ ds \subseteq Cached(Slot)
    BY <1>0, <2>1 DEF Cached
  <2>3. cache'[s].key = k /\ \A t \in Slot : t # s => cache'[t] = cache[t]
    BY <2>1 DEF IInv, TypeOK
  <2>4. \A t \in Slot : t # s /\ cache[t] # None => cache[t].key \notin ds
    BY <2>1, CachedLemma DEF IInv, CachedOnce
  <2> HIDE DEF s, k, e, ds
  <2>5. \A v \in User : pc'[v] = "put" => pc[v] = "put" /\ use'[v].key = use[v].key /\ use[v].key \notin ds
    BY <1>0, <2>1, <2>2
  <2>6. ~wipesAfterUse => /\ \A v \in User : pc'[v] # "wipe"
                          /\ \A t \in Slot : cache'[t] # None =>
                                /\ cache'[t].key \in DataKey \ ds
                                /\ mem[cache'[t].key] = "live"
    BY <1>0, <2>1, <2>2, <2>3, <2>4 DEF LiveKeys
  <2> QED BY <2>1, <2>2, <2>5, <2>6, LiveWipe
<1>4. ASSUME NEW u \in User, WipeUsed(u) PROVE LiveKeys'
  <2> DEFINE k == use[u].key
  <2>1. /\ pc[u] = "wipe" /\ k \in DataKey /\ k # None /\ wipesAfterUse
        /\ pc' = [pc EXCEPT ![u] = "idle"] /\ use' = [use EXCEPT ![u] = NoUse]
        /\ Wipe({k}, Cached(Slot) \cup Held(User \ {u})) /\ UNCHANGED kind
    BY <1>4 DEF IInv, TypeOK, UserOK, WipeUsed, Goto, LiveKeys
  <2>2. \A v \in User : pc[v] = "put" => use[v].key # k
    BY <2>1, HeldLemma DEF IInv, NewKeyIsPrivate
  <2>3. \A v \in User : pc'[v] = "put" => pc[v] = "put" /\ use'[v].key = use[v].key /\ use[v].key \notin {k}
    BY <1>0, <2>1, <2>2
  <2> HIDE DEF k
  <2> QED BY <2>1, <2>3, LiveWipe
<1>5. ASSUME NEW ss \in SUBSET Slot, Evict(ss) PROVE LiveKeys'
  <2>1. /\ Wipe(Cached(ss), Held(User)) /\ UNCHANGED <<kind, pc, use>>
        /\ \A s \in Slot : cache'[s] # None => s \notin ss /\ cache'[s] = cache[s]
    BY <1>5 DEF Evict
  <2>2. \A s \in Slot : s \notin ss /\ cache[s] # None => cache[s].key \notin Cached(ss)
    BY CachedLemma DEF IInv, CachedOnce
  <2>3. Cached(ss) \in SUBSET DataKey /\ Cached(ss) \subseteq Cached(Slot)
    BY <1>0 DEF Cached
  <2> QED BY <1>0, <2>1, <2>2, <2>3, LiveWipe DEF LiveKeys
<1>6. ASSUME NEW s \in Slot, Expire(s) PROVE LiveKeys'
  <2>1. \A t \in Slot : cache'[t] # None => cache[t] # None /\ cache'[t].key = cache[t].key
    BY <1>6 DEF Expire, IInv, TypeOK, CacheEntry
  <2> QED BY <1>6, <2>1 DEF Expire, LiveKeys, wipesAfterUse
<1>7. ASSUME Maintain PROVE LiveKeys'
  <2>1. Expired \in SUBSET Slot
    BY DEF Expired
  <2> QED BY <1>5, <1>6, <1>7, <2>1 DEF Maintain, Delete, Cleanup, Clear, Close
<1>8. CASE UNCHANGED vars
  BY <1>8 DEF vars, LiveKeys, wipesAfterUse
<1> QED BY <1>1, <1>2, <1>3, <1>4, <1>7, <1>8 DEF Next, Encrypt

(* Where the users of a cache do not zero its keys, every key it would hand *)
(* out has its bytes, whatever Put, cleanup, Delete and Clear do meanwhile: *)
(* that the cached keys of an envelope's Manager are zeroed is due to the   *)
(* envelope's own zeroing alone.                                            *)
THEOREM KeysKeepTheirBytes == Spec => [](~wipesAfterUse => KeysAreCached)
<1>1. Init => LiveKeys
  BY DEF Init, LiveKeys
<1>2. LiveKeys => (~wipesAfterUse => KeysAreCached)
  BY DEF LiveKeys, KeysAreCached
<1> QED BY <1>1, <1>2, LiveStep, Invariance, PTL DEF Spec

=============================================================================
