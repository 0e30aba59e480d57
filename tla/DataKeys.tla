------------------------------ MODULE DataKeys ------------------------------
(***************************************************************************)
(* Data keys for envelope encryption: kms.DataKeyCache (internal/kms/      *)
(* cache.go) under the goroutines that encrypt with the keys it hands out. *)
(* There are three kinds of users, never of the same cache:                *)
(*  - "envelope": EnvelopeEncryptor over kms.Manager (envelope.go,         *)
(*    manager.go), which zeroes the bytes of a data key when it returns,   *)
(*    those it encrypted with and those it decrypted with;                 *)
(*  - "provider": SimpleAESGCMEncryptor over a kms.Provider                *)
(*    (provider_aws.go, provider_local.go), which zeroes neither;          *)
(*  - "custom": the same over provider_custom.go, which binds a data key's *)
(*    CiphertextBlob to the id of its key and gives none to open it with.  *)
(*                                                                         *)
(* The cache hands out the *DataKey it keeps, so its PlaintextKey bytes    *)
(* are shared by the cache and every user that holds the key.  mem[d] is   *)
(* the state of those bytes for the data key d; d also stands for its      *)
(* CiphertextBlob, which a decryption has KMS turn back into the original  *)
(* bytes, in a copy of its own.  A key read while another goroutine zeroes *)
(* it is a wrong key, like a zeroed one, so zeroing is one step.           *)
(***************************************************************************)
EXTENDS Integers, FiniteSets

CONSTANTS
    DataKey,        \* data keys KMS may generate (bound)
    Slot,           \* cache keys
    User,           \* goroutines that encrypt and decrypt
    UserKind,       \* the kinds of users explored
    CallerEvicts,   \* does anyone call the exported Delete and Clear?
    None

ASSUME NoneAssumption ==
    None \notin DataKey \cup Slot \cup [key : DataKey, fresh : BOOLEAN]
                          \cup [blob : DataKey, good : BOOLEAN]
ASSUME KindAssumption ==
    UserKind \subseteq {"envelope", "provider", "custom"} /\ CallerEvicts \in BOOLEAN

VARIABLES
    kind,     \* the kind of this cache's users, see above
    mem,      \* "unborn", "live" or "zero": the bytes of PlaintextKey
    cache,    \* DataKeyCache.cache: [key, fresh] or None for each slot
    closed,   \* has Close been called?
    pc, use,  \* the users and the locals of their method
    copies,   \* decrypted copies of data keys that are not zeroed: [of, by]
    sealed,   \* objects encrypted: [blob, good], good iff sealed with blob's key
    leaked,   \* history: keys that a StreamEncryptor.Close failed to zero
    torn      \* history: keys zeroed while cached or held by somebody else

vars == <<kind, mem, cache, closed, pc, use, copies, sealed, leaked, torn>>

wipesAfterUse == kind = "envelope"

NoUse == [slot |-> None, key |-> None, obj |-> None]

Init ==
    /\ kind \in UserKind
    /\ mem = [d \in DataKey |-> "unborn"]
    /\ cache = [s \in Slot |-> None]
    /\ closed = FALSE
    /\ pc = [u \in User |-> "idle"]
    /\ use = [u \in User |-> NoUse]
    /\ copies = {}
    /\ sealed = {}
    /\ leaked = {}
    /\ torn = {}

Goto(u, l) == pc' = [pc EXCEPT ![u] = l]

Cached(ss) == {cache[s].key : s \in {s \in ss : cache[s] # None}}

Held(us) == {use[u].key : u \in us} \ {None}

(* clearSensitiveData, and the users' own loops that zero a key's bytes:    *)
(* those of ds, of which shared are in the cache or in others' hands.       *)
Wipe(ds, shared) ==
    /\ mem' = [d \in DataKey |-> IF d \in ds /\ mem[d] = "live"
                                 THEN "zero" ELSE mem[d]]
    /\ torn' = torn \cup (ds \cap shared)

---------------------------------------------------------------------------
(* GenerateDataKey, of the Manager and of the providers alike.             *)

(* DataKeyCache.Get: the shared key, if there is one that has not expired.  *)
Lookup(u, s) ==
    /\ pc[u] = "idle"
    /\ \/ /\ cache[s] # None
          /\ cache[s].fresh
          /\ use' = [use EXCEPT ![u] = [NoUse EXCEPT !.slot = s, !.key = cache[s].key]]
          /\ Goto(u, "have")
       \/ /\ cache[s] = None \/ (cache[s] # None /\ ~cache[s].fresh)
          /\ use' = [use EXCEPT ![u] = [NoUse EXCEPT !.slot = s]]
          /\ Goto(u, "kms")
    /\ UNCHANGED <<kind, copies, mem, cache, closed, sealed, leaked, torn>>

(* KMS, or the local generator, makes a new data key. *)
Generate(u) ==
    /\ pc[u] = "kms"
    /\ \E d \in DataKey :
          /\ mem[d] = "unborn"
          /\ mem' = [mem EXCEPT ![d] = "live"]
          /\ use' = [use EXCEPT ![u].key = d]
    /\ Goto(u, "put")
    /\ UNCHANGED <<kind, copies, cache, closed, sealed, leaked, torn>>

GenerateFails(u) ==
    /\ pc[u] = "kms"
    /\ Goto(u, "idle")
    /\ use' = [use EXCEPT ![u] = NoUse]
    /\ UNCHANGED <<kind, copies, mem, cache, closed, sealed, leaked, torn>>

(* Mutant of Put: The key that is replaced is not zeroed. *)
PutKeepsOldBytes(u) ==
    /\ pc[u] = "put"
    /\ cache' = [cache EXCEPT ![use[u].slot] = [key |-> use[u].key, fresh |-> TRUE]]
    /\ Goto(u, "have")
    /\ UNCHANGED <<kind, copies, mem, closed, use, sealed, leaked, torn>>

(* DataKeyCache.Put: the key it replaces is zeroed, whoever may hold it.    *)
Put(u) ==
    /\ pc[u] = "put"
    /\ Wipe(Cached({use[u].slot}), Held(User \ {u}))
    /\ cache' = [cache EXCEPT ![use[u].slot] = [key |-> use[u].key, fresh |-> TRUE]]
    /\ Goto(u, "have")
    /\ UNCHANGED <<kind, copies, closed, use, sealed, leaked>>

---------------------------------------------------------------------------
(* Encrypt: aes.NewCipher reads the bytes as they are now; the object is    *)
(* stored with the key's CiphertextBlob.                                    *)
Seal(u) ==
    /\ pc[u] = "have"
    /\ sealed' = sealed \cup {[blob |-> use[u].key, good |-> mem[use[u].key] = "live"]}
    /\ \/ /\ wipesAfterUse
          /\ Goto(u, "wipe")
          /\ UNCHANGED use
       \/ /\ ~wipesAfterUse
          /\ Goto(u, "idle")
          /\ use' = [use EXCEPT ![u] = NoUse]
    /\ UNCHANGED <<kind, copies, mem, cache, closed, leaked, torn>>

(* The body cannot be read, or no nonce can be had: nothing is stored, and  *)
(* the envelope's deferred function zeroes the key all the same.            *)
SealFails(u) ==
    /\ pc[u] = "have"
    /\ \/ /\ wipesAfterUse
          /\ Goto(u, "wipe")
          /\ UNCHANGED use
       \/ /\ ~wipesAfterUse
          /\ Goto(u, "idle")
          /\ use' = [use EXCEPT ![u] = NoUse]
    /\ UNCHANGED <<kind, copies, mem, cache, closed, sealed, leaked, torn>>

(* The deferred function of Encrypt, or StreamEncryptor.Close. *)
WipeUsed(u) ==
    /\ pc[u] = "wipe"
    /\ Wipe({use[u].key}, Cached(Slot) \cup Held(User \ {u}))
    /\ Goto(u, "idle")
    /\ use' = [use EXCEPT ![u] = NoUse]
    /\ UNCHANGED <<kind, copies, cache, closed, sealed, leaked>>

(* StreamEncryptor.Close returns the error of the last chunk's write before *)
(* it comes to the loop that zeroes the key.                                *)
StreamCloseFails(u) ==
    /\ pc[u] = "wipe"
    /\ leaked' = leaked \cup {use[u].key}
    /\ Goto(u, "idle")
    /\ use' = [use EXCEPT ![u] = NoUse]
    /\ UNCHANGED <<kind, copies, mem, cache, closed, sealed, torn>>

(* Decrypt: KMS or the provider returns the original bytes of the blob.  A  *)
(* call that fails changes nothing and is left out; that of the custom      *)
(* provider always fails, for want of the id that the blob is bound to.     *)
DecryptDataKey(u, o) ==
    /\ pc[u] = "idle"
    /\ use' = [use EXCEPT ![u].obj = o]
    /\ \/ /\ kind # "custom"
          /\ copies' = copies \cup {[of |-> o.blob, by |-> u]}
          /\ Goto(u, "open")
       \/ /\ kind = "custom"
          /\ Goto(u, "decrypt_fails")
          /\ UNCHANGED copies
    /\ UNCHANGED <<kind, mem, cache, closed, sealed, leaked, torn>>

(* GCM accepts only what was sealed with these bytes. *)
Open(u) ==
    /\ pc[u] = "open"
    /\ Goto(u, IF use[u].obj.good THEN "decrypted" ELSE "decrypt_fails")
    /\ UNCHANGED <<kind, copies, mem, cache, closed, use, sealed, leaked, torn>>

(* The object cannot be read: an error, and nothing else. *)
OpenFails(u) ==
    /\ pc[u] = "open"
    /\ Goto(u, "given_up")
    /\ UNCHANGED <<kind, copies, mem, cache, closed, use, sealed, leaked, torn>>

Decrypt(u) == (\E o \in sealed : DecryptDataKey(u, o)) \/ Open(u) \/ OpenFails(u)

(* Mutant of Finish: the decrypted key is not zeroed. *)
FinishKeepsCopy(u) ==
    /\ pc[u] \in {"decrypted", "decrypt_fails", "given_up"}
    /\ Goto(u, "idle")
    /\ use' = [use EXCEPT ![u] = NoUse]
    /\ UNCHANGED <<kind, copies, mem, cache, closed, sealed, leaked, torn>>

(* Decrypt returns, and only the envelope's has a deferred function that    *)
(* zeroes the copy.                                                         *)
Finish(u) ==
    /\ pc[u] \in {"decrypted", "decrypt_fails", "given_up"}
    /\ Goto(u, "idle")
    /\ use' = [use EXCEPT ![u] = NoUse]
    /\ copies' = IF wipesAfterUse THEN copies \ {[of |-> use[u].obj.blob, by |-> u]} ELSE copies
    /\ UNCHANGED <<kind, mem, cache, closed, sealed, leaked, torn>>

---------------------------------------------------------------------------
(* An entry's TTL runs out. *)
Expire(s) ==
    /\ cache[s] # None
    /\ cache[s].fresh
    /\ cache' = [cache EXCEPT ![s].fresh = FALSE]
    /\ UNCHANGED <<kind, copies, mem, closed, pc, use, sealed, leaked, torn>>

(* Mutant of Evict: The bytes are zeroed and the entry is left in the map. *)
EvictKeepsEntry(ss) ==
    /\ Wipe(Cached(ss), Held(User))
    /\ UNCHANGED <<kind, copies, cache, pc, use, sealed, leaked>>

Evict(ss) ==
    /\ Wipe(Cached(ss), Held(User))
    /\ cache' = [s \in Slot |-> IF s \in ss THEN None ELSE cache[s]]
    /\ UNCHANGED <<kind, copies, pc, use, sealed, leaked>>

(* Mutant of Expired: cleanup compares the times the wrong way round. *)
ExpiredSwapped == {s \in Slot : cache[s] # None /\ cache[s].fresh}

Expired == {s \in Slot : cache[s] # None /\ ~cache[s].fresh}

(* cleanup, on the ticker of cleanupLoop until Close. *)
Cleanup ==
    /\ ~closed
    /\ Expired # {}
    /\ Evict(Expired)
    /\ UNCHANGED closed

(* The exported Delete and Clear, which nothing in the proxy calls yet.     *)
Delete(s) == CallerEvicts /\ cache[s] # None /\ Evict({s}) /\ UNCHANGED closed

Clear == CallerEvicts /\ Evict(Slot) /\ UNCHANGED closed

(* Close: the providers never call it; Manager.Close does. *)
Close ==
    /\ wipesAfterUse
    /\ ~closed
    /\ closed' = TRUE
    /\ Evict(Slot)

Encrypt(u) == \/ \E s \in Slot : Lookup(u, s)
              \/ Generate(u) \/ GenerateFails(u) \/ Put(u) \/ Seal(u)
              \/ SealFails(u) \/ WipeUsed(u) \/ StreamCloseFails(u)

Maintain == \/ \E s \in Slot : Expire(s) \/ Delete(s)
            \/ Cleanup \/ Clear \/ Close

Next == \/ \E u \in User : Encrypt(u) \/ Decrypt(u) \/ Finish(u)
        \/ Maintain

(* A method that has begun goes on, time passes, and the cleanup goroutine  *)
(* gets its tick every minute.                                              *)
Fairness ==
    /\ \A u \in User : WF_vars(\/ Generate(u) \/ GenerateFails(u) \/ Put(u)
                               \/ Seal(u) \/ SealFails(u) \/ WipeUsed(u)
                               \/ StreamCloseFails(u) \/ Open(u) \/ OpenFails(u)
                               \/ Finish(u))
    /\ \A s \in Slot : WF_vars(Expire(s))
    /\ WF_vars(Cleanup)

Spec == Init /\ [][Next]_vars

FairSpec == Spec /\ Fairness

---------------------------------------------------------------------------
(* Properties. *)

KeysAreOwned ==
    \A d \in DataKey : mem[d] = "live" => d \in Cached(Slot) \cup Held(User) \cup leaked

Decrypting(u, d) ==
    pc[u] \in {"open", "decrypted", "decrypt_fails", "given_up"} /\ use[u].obj.blob = d

CopiesAreOwned == \A c \in copies : wipesAfterUse => Decrypting(c.by, c.of)

(* Of the bytes of generated data keys none are left behind: those that are *)
(* not zeroed belong to a cached key, to an encryption in progress or to a  *)
(* stream whose last chunk could not be written, so replacing, expiring,    *)
(* deleting and closing (cache.go: "Clear sensitive data before deletion")  *)
(* lose none, in whatever order they meet the users.  Nor are, under an     *)
(* envelope, the copies that decryptions make: one that is not zeroed       *)
(* belongs to a decryption that has not returned.  SimpleAESGCMEncryptor    *)
(* gives no such promise: it leaves every copy to the garbage collector.    *)
PlaintextIsOwned == KeysAreOwned /\ CopiesAreOwned

(* Every generated data key is zeroed in the end, also one that is put in   *)
(* the cache by an encryption that Close overtook: by its user, by cleanup, *)
(* by Close or by whatever replaces it.  The one way out is a stream whose  *)
(* last chunk could not be written.  Every copy that a decryption under an  *)
(* envelope makes is zeroed, too; those of the providers' users never are.  *)
EventuallyWiped ==
    /\ \A d \in DataKey : mem[d] = "live" ~> (mem[d] = "zero" \/ d \in leaked)
    /\ \A d \in DataKey, u \in User :
          wipesAfterUse /\ [of |-> d, by |-> u] \in copies ~> [of |-> d, by |-> u] \notin copies

(* An object cannot be decrypted only if its data key was zeroed under its  *)
(* users: while the cache still held it (an envelope's own zeroing) or      *)
(* while another encryption was using it (a Put or a cleanup between the    *)
(* lookup and aes.NewCipher); or if the custom provider made the key, whose *)
(* blobs it cannot open.  With the other providers nothing else in the life *)
(* of a data key makes what it seals unreadable.                            *)
UnreadableHasCause ==
    \A u \in User : pc[u] = "decrypt_fails" => use[u].obj.blob \in torn \/ kind = "custom"

(* docs/KMS_ENCRYPTION.md: "Cache data keys for 5 minutes".  Whoever uses   *)
(* the cache, a key it would hand out still has its bytes.                  *)
KeysAreCached ==
    \A s \in Slot : (cache[s] # None /\ cache[s].fresh) => mem[cache[s].key] = "live"

=============================================================================
