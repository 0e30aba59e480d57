----------------------- MODULE EncryptedBackendProofs -----------------------
(***************************************************************************)
(* Proofs about EncryptedBackend, for any keys, uploads, requests and      *)
(* layers of encryption: only a Complete that was overtaken breaks the     *)
(* transparency of encryption (TransparentUnlessRaced), and an object lies *)
(* in the clear only for one of the recorded causes (PlaintextHasCause).   *)
(*                                                                         *)
(* The inductive invariant follows a Complete from the moment it has       *)
(* assembled the object: until another write of the key overtakes it, the  *)
(* backend holds the assembled plaintext, and what it has then read back   *)
(* is that plaintext (CompleteOK).  It follows an upload from Initiate to  *)
(* its end: an open one is in the table or was lost for a known reason,    *)
(* and so is one a Complete has found missing (UploadInv).                 *)
(***************************************************************************)
EXTENDS EncryptedBackend, TLAPS

Stored == [data : Data, depth : Nat, tagged : BOOLEAN]
Answer == [data : Data, depth : Int, tagged : BOOLEAN]
UploadType == [key : Key, data : Data \cup {None}]
LocalType == [key : Key \cup {None}, upload : Upload \cup {None},
              encrypts : BOOLEAN, obj : Answer \cup {None}, overtaken : BOOLEAN]
Pc == {"idle", "replied", "assemble", "readback", "reput", "abort"}

(* The types of the state. *)
TypeOK ==
    /\ enabled \in BOOLEAN
    /\ store \in [Key -> Stored \cup {None}]
    /\ uploads \in [Upload -> UploadType \cup {None}]
    /\ table \subseteq Upload
    /\ pc \in [Request -> Pc]
    /\ req \in [Request -> LocalType]
    /\ lost \subseteq Upload
    /\ exposed \subseteq Key
    /\ raced \subseteq Key

(* An object that no layer has been put on. *)
InTheClear(o) == o.depth = 0 /\ ~o.tagged

(* What request r's locals mean at the step it has reached. *)
CompleteOK(r) ==
    /\ pc[r] = "idle" => req[r] = NoReq
    /\ pc[r] \in {"readback", "reput"} => req[r].key \in Key
    /\ pc[r] = "readback" /\ ~req[r].overtaken => InTheClear(store[req[r].key])
    /\ pc[r] = "reput" => /\ req[r].obj \in Stored
                          /\ ~req[r].overtaken => InTheClear(req[r].obj)

Working(r) == pc[r] \in {"readback", "reput"}

(* An open upload that is not in the table was lost for a known reason. *)
UploadsKnown == \A u \in Upload : uploads[u] # None /\ u \notin table => u \in lost

(* The upload request r is at work on: closed once the object is assembled, *)
(* and lost or begun without encryption if the table did not have it.       *)
UploadOK(r) ==
    /\ pc[r] \in {"assemble", "readback", "reput", "abort"} => req[r].upload \in Upload
    /\ pc[r] = "assemble" /\ ~req[r].encrypts /\ uploads[req[r].upload] # None
          => ~enabled \/ req[r].upload \in lost
    /\ Working(r) => uploads[req[r].upload] = None

UploadInv == UploadsKnown /\ \A r \in Request : UploadOK(r)

IInv ==
    /\ TypeOK
    /\ \A r \in Request : CompleteOK(r)
    /\ TransparentUnlessRaced /\ PlaintextHasCause

---------------------------------------------------------------------------
(* Helpers. *)

(* What the conversions make: Plain no layer, Encrypted one more. *)
LEMMA PlainLemma ==
    ASSUME NEW d \in Data
    PROVE  Plain(d) \in Stored /\ Plain(d).depth = 0 /\ Plain(d).tagged = FALSE
BY DEF Plain, Stored

(* Encrypted adds one layer and tags the object. *)
LEMMA EncryptedLemma ==
    ASSUME NEW o \in Stored
    PROVE  Encrypted(o) \in Stored /\ Encrypted(o).depth = o.depth + 1 /\ Encrypted(o).tagged = TRUE
<1>1. o.depth + 1 \in Nat
  BY DEF Stored
<1>2. Encrypted(o) = [o EXCEPT !.depth = o.depth + 1, !.tagged = TRUE]
  BY DEF Encrypted
<1> DEFINE n == o.depth + 1
<1>3. n \in Nat /\ Encrypted(o) = [o EXCEPT !.depth = n, !.tagged = TRUE]
  BY <1>1, <1>2
<1> HIDE DEF n
<1>4. Encrypted(o) \in Stored /\ Encrypted(o).depth = n /\ Encrypted(o).tagged = TRUE
  BY <1>3 DEF Stored
<1> QED BY <1>4 DEF n

(* A request between two methods has no locals. *)
LEMMA NoReqType == NoReq \in LocalType /\ ~NoReq.overtaken
BY DEF NoReq, LocalType

(* A write overtakes the Completes of its key that have still to read the   *)
(* object back, and touches no other request.                               *)
LEMMA OvertakeLemma ==
    ASSUME TypeOK, NEW r \in Request, NEW k
    PROVE  /\ Overtake(r, k) \in [Request -> LocalType]
           /\ Overtake(r, k)[r] = req[r]
           /\ \A q \in Request :
                 /\ Overtake(r, k)[q].key = req[q].key
                 /\ Overtake(r, k)[q].obj = req[q].obj
                 /\ Overtake(r, k)[q].upload = req[q].upload
                 /\ Overtake(r, k)[q].encrypts = req[q].encrypts
                 /\ q # r /\ pc[q] = "readback" /\ req[q].key = k => Overtake(r, k)[q].overtaken
                 /\ ~(pc[q] = "readback" /\ req[q].key = k) => Overtake(r, k)[q] = req[q]
                 /\ ~Overtake(r, k)[q].overtaken => ~req[q].overtaken
<1>1. ASSUME NEW q \in Request
      PROVE  /\ Overtake(r, k)[q] = IF q # r /\ pc[q] = "readback" /\ req[q].key = k
                                    THEN [req[q] EXCEPT !.overtaken = TRUE] ELSE req[q]
             /\ req[q] \in LocalType
             /\ [req[q] EXCEPT !.overtaken = TRUE] \in LocalType
             /\ [req[q] EXCEPT !.overtaken = TRUE].key = req[q].key
             /\ [req[q] EXCEPT !.overtaken = TRUE].obj = req[q].obj
             /\ [req[q] EXCEPT !.overtaken = TRUE].upload = req[q].upload
             /\ [req[q] EXCEPT !.overtaken = TRUE].encrypts = req[q].encrypts
             /\ [req[q] EXCEPT !.overtaken = TRUE].overtaken = TRUE
  BY DEF Overtake, TypeOK, LocalType
<1>2. Overtake(r, k) \in [Request -> LocalType]
  BY <1>1 DEF Overtake
<1> QED BY <1>1, <1>2

(* A write of key k by request r.  It leaves the others as Overtake says,   *)
(* records itself with Wrote, and r does not turn away from another key.    *)
LEMMA WriteStep ==
    ASSUME IInv, TypeOK', NEW r \in Request, NEW k \in Key, NEW o, NEW clear \in BOOLEAN,
           NEW overtaken \in BOOLEAN,
           store' = [store EXCEPT ![k] = o], Wrote(k, clear, overtaken),
           \A q \in Request : q # r => pc'[q] = pc[q] /\ req'[q] = Overtake(r, k)[q],
           CompleteOK(r)', Working(r) => req[r].key = k,
           o # None /\ ~overtaken => o.depth <= 1 /\ (o.tagged <=> o.depth = 1),
           o # None /\ o.depth = 0 => clear \/ (Working(r)' /\ req'[r].key = k)
    PROVE  IInv'
<1>1. TypeOK /\ \A q \in Request : CompleteOK(q)
  BY DEF IInv
<1>2. store'[k] = o /\ \A j \in Key : j # k => store'[j] = store[j]
  BY <1>1 DEF TypeOK
<1>3. \A j \in Key : /\ j # k => (j \in exposed' <=> j \in exposed) /\ (j \in raced' <=> j \in raced)
                     /\ clear => k \in exposed'
                     /\ k \notin raced' => ~overtaken
  BY DEF Wrote
<1>4. ASSUME NEW q \in Request, q # r
      PROVE  /\ pc'[q] = pc[q] /\ req'[q].key = req[q].key /\ req'[q].obj = req[q].obj
             /\ pc[q] = "readback" /\ req[q].key = k => req'[q].overtaken
             /\ ~(pc[q] = "readback" /\ req[q].key = k) => req'[q] = req[q]
             /\ ~req'[q].overtaken => ~req[q].overtaken
  BY <1>1, <1>4, OvertakeLemma
<1>5. ASSUME NEW q \in Request, q # r PROVE CompleteOK(q)'
  <2>1. CompleteOK(q)
    BY <1>1
  <2>2. pc[q] = "readback" /\ ~req'[q].overtaken => InTheClear(store'[req'[q].key])
    BY <1>2, <1>4, <1>5, <2>1 DEF CompleteOK
  <2> QED BY <1>4, <1>5, <2>1, <2>2 DEF CompleteOK
<1>6. TransparentUnlessRaced'
  BY <1>2, <1>3 DEF IInv, TransparentUnlessRaced
<1>7. PlaintextHasCause'
  <2> SUFFICES ASSUME NEW j \in Key, store'[j] # None, store'[j].depth = 0, j \notin exposed'
               PROVE  \E q \in Request : Working(q)' /\ req'[q].key = j
    BY DEF PlaintextHasCause, Encrypting, Working
  <2>1. CASE j = k
    BY <1>2, <1>3, <2>1
  <2>2. CASE j # k
    <3>1. PICK q \in Request : Working(q) /\ req[q].key = j
      BY <1>2, <1>3, <2>2 DEF IInv, PlaintextHasCause, Encrypting, Working
    <3>2. q # r
      BY <2>2, <3>1
    <3> QED BY <1>4, <3>1, <3>2 DEF Working
  <2> QED BY <2>1, <2>2
<1> QED BY <1>5, <1>6, <1>7 DEF IInv

(* A step of request r that leaves the objects alone: if it stops being the *)
(* cause of an object lying in the clear, that is recorded.                 *)
LEMMA QuietStep ==
    ASSUME IInv, TypeOK', NEW r \in Request, UNCHANGED <<store, raced>>, exposed \subseteq exposed',
           \A q \in Request : q # r => pc'[q] = pc[q] /\ req'[q] = req[q],
           CompleteOK(r)',
           Working(r) => \/ Working(r)' /\ req'[r].key = req[r].key
                         \/ store[req[r].key] # None /\ store[req[r].key].depth = 0
                               => req[r].key \in exposed'
    PROVE  IInv'
<1>1. \A q \in Request : CompleteOK(q)'
  BY DEF IInv, CompleteOK
<1>2. TransparentUnlessRaced'
  BY DEF IInv, TransparentUnlessRaced
<1>3. PlaintextHasCause'
  <2> SUFFICES ASSUME NEW j \in Key, store[j] # None, store[j].depth = 0, j \notin exposed'
               PROVE  \E q \in Request : Working(q)' /\ req'[q].key = j
    BY DEF PlaintextHasCause, Encrypting, Working
  <2>1. PICK q \in Request : Working(q) /\ req[q].key = j
    BY DEF IInv, PlaintextHasCause, Encrypting, Working
  <2> QED BY <2>1 DEF Working
<1> QED BY <1>1, <1>2, <1>3 DEF IInv

---------------------------------------------------------------------------
(* The actions. *)

(* A PUT stores one layer, or none when encryption is off. *)
LEMMA PutStep ==
    ASSUME IInv, NEW r \in Request, NEW k \in Key, NEW d \in Data, PutObject(r, k, d)
    PROVE  IInv'
<1> DEFINE o == IF enabled THEN Encrypted(Plain(d)) ELSE Plain(d)
<1>1. /\ TypeOK /\ CompleteOK(r) /\ pc[r] = "idle" /\ store' = [store EXCEPT ![k] = o]
      /\ Wrote(k, ~enabled, FALSE) /\ req' = Overtake(r, k)
      /\ UNCHANGED <<enabled, uploads, table, pc, lost>> /\ enabled \in BOOLEAN
  BY DEF IInv, TypeOK, PutObject
<1>2. /\ o \in Stored
      /\ enabled => o.depth = 1 /\ o.tagged = TRUE
      /\ ~enabled => o.depth = 0 /\ o.tagged = FALSE
  <2>1. Plain(d) \in Stored /\ Plain(d).depth = 0 /\ Plain(d).tagged = FALSE
    BY PlainLemma
  <2>2. /\ Encrypted(Plain(d)) \in Stored /\ Encrypted(Plain(d)).depth = Plain(d).depth + 1
        /\ Encrypted(Plain(d)).tagged = TRUE
    BY <2>1, EncryptedLemma
  <2> QED BY <2>1, <2>2
<1> HIDE DEF o
<1>3. req' \in [Request -> LocalType] /\ req'[r] = req[r]
  BY <1>1, OvertakeLemma
<1>4. exposed' \subseteq Key /\ raced' \subseteq Key /\ store' \in [Key -> Stored \cup {None}]
  BY <1>1, <1>2 DEF TypeOK, Wrote
<1>5. TypeOK'
  BY <1>1, <1>3, <1>4 DEF TypeOK
<1>6. CompleteOK(r)'
  BY <1>1, <1>3 DEF CompleteOK
<1>7. (~enabled) \in BOOLEAN /\ ~Working(r)
  BY <1>1 DEF Working
<1>8. o.depth <= 1 /\ (o.tagged <=> o.depth = 1) /\ (o.depth = 0 => ~enabled)
  BY <1>2
<1> QED BY <1>1, <1>5, <1>6, <1>7, <1>8, WriteStep

(* A DELETE leaves nothing. *)
LEMMA DeleteStep ==
    ASSUME IInv, NEW r \in Request, NEW k \in Key, DeleteObject(r, k)
    PROVE  IInv'
<1>1. /\ TypeOK /\ CompleteOK(r) /\ pc[r] = "idle" /\ store' = [store EXCEPT ![k] = None]
      /\ Wrote(k, FALSE, FALSE) /\ req' = Overtake(r, k)
      /\ UNCHANGED <<enabled, uploads, table, pc, lost>>
  BY DEF IInv, DeleteObject
<1>2. req' \in [Request -> LocalType] /\ req'[r] = req[r]
  BY <1>1, OvertakeLemma
<1>3. TypeOK'
  BY <1>1, <1>2 DEF TypeOK, Wrote
<1>4. CompleteOK(r)' /\ ~Working(r)
  BY <1>1, <1>2 DEF CompleteOK, Working
<1> QED BY <1>1, <1>3, <1>4, WriteStep

(* A GET changes nothing but its own locals. *)
LEMMA GetStep ==
    ASSUME IInv, NEW r \in Request, NEW k \in Key, GetObject(r, k)
    PROVE  IInv'
<1> DEFINE n == IF store[k].tagged THEN store[k].depth - 1 ELSE store[k].depth
           o == [store[k] EXCEPT !.depth = n]
<1>1. /\ TypeOK /\ pc[r] = "idle" /\ store[k] \in Stored /\ Goto(r, "replied")
      /\ req' = [req EXCEPT ![r].key = k, ![r].obj = o]
      /\ UNCHANGED <<enabled, store, uploads, table, lost, exposed, raced>>
  BY DEF IInv, TypeOK, GetObject
<1>2. n \in Int
  BY <1>1 DEF Stored
<1> HIDE DEF n
<1>3. o \in Answer
  BY <1>1, <1>2 DEF Stored, Answer
<1> HIDE DEF o
<1>4. /\ req' \in [Request -> LocalType] /\ pc' \in [Request -> Pc] /\ pc'[r] = "replied"
      /\ \A q \in Request : q # r => pc'[q] = pc[q] /\ req'[q] = req[q]
  BY <1>1, <1>3 DEF TypeOK, LocalType, Goto, Pc
<1>5. TypeOK'
  BY <1>1, <1>4 DEF TypeOK
<1>6. CompleteOK(r)' /\ ~Working(r)
  BY <1>1, <1>4 DEF CompleteOK, Working
<1> QED BY <1>1, <1>4, <1>5, <1>6, QuietStep

(* Finish, CompleteFails, CompleteRefused and AbortBackend return; a        *)
(* Complete that fails records what it leaves in the clear.                 *)
LEMMA ReturnStep ==
    ASSUME IInv, NEW r \in Request,
           Finish(r) \/ CompleteFails(r) \/ CompleteRefused(r) \/ AbortBackend(r)
    PROVE  IInv'
<1>1. /\ TypeOK /\ Return(r) /\ UNCHANGED <<enabled, store, table, lost, raced>>
      /\ exposed \subseteq exposed'
      /\ Working(r) => /\ req[r].key \in Key
                       /\ store[req[r].key] # None /\ store[req[r].key].depth = 0
                            => req[r].key \in exposed'
  BY DEF IInv, CompleteOK, Finish, CompleteFails, CompleteRefused, AbortBackend, Working
<1>2. exposed' \subseteq Key /\ uploads' \in [Upload -> UploadType \cup {None}]
  BY DEF IInv, TypeOK, CompleteOK, Finish, CompleteFails, CompleteRefused, AbortBackend
<1>3. /\ req' \in [Request -> LocalType] /\ pc' \in [Request -> Pc] /\ pc'[r] = "idle"
      /\ req'[r] = NoReq
      /\ \A q \in Request : q # r => pc'[q] = pc[q] /\ req'[q] = req[q]
  BY <1>1, NoReqType DEF TypeOK, Goto, Return, Pc
<1>4. TypeOK'
  BY <1>1, <1>2, <1>3 DEF TypeOK
<1>5. CompleteOK(r)'
  BY <1>3 DEF CompleteOK
<1> QED BY <1>1, <1>3, <1>4, <1>5, QuietStep

(* Opening and filling uploads concern no object. *)
LEMMA UploadStep ==
    ASSUME IInv, NEW r \in Request, NEW u \in Upload,
           \/ \E k \in Key : InitiateMultipartUpload(r, k, u)
           \/ \E d \in Data : UploadPart(r, u, d)
    PROVE  IInv'
<1>1. /\ TypeOK /\ UNCHANGED <<enabled, store, pc, req, exposed, raced>>
      /\ table' \subseteq Upload /\ lost' \subseteq Upload
  BY DEF IInv, TypeOK, InitiateMultipartUpload, UploadPart
<1>2. uploads' \in [Upload -> UploadType \cup {None}]
  <2>1. CASE \E k \in Key : InitiateMultipartUpload(r, k, u)
    BY <1>1, <2>1 DEF TypeOK, InitiateMultipartUpload, UploadType
  <2>2. ASSUME NEW d \in Data, UploadPart(r, u, d)
        PROVE  uploads' \in [Upload -> UploadType \cup {None}]
    <3>1. uploads[u] \in UploadType /\ uploads' = [uploads EXCEPT ![u] = [uploads[u] EXCEPT !.data = d]]
      BY <1>1, <2>2 DEF TypeOK, UploadPart
    <3>2. [uploads[u] EXCEPT !.data = d] \in UploadType
      BY <3>1 DEF UploadType
    <3> QED BY <1>1, <3>1, <3>2 DEF TypeOK
  <2> QED BY <2>1, <2>2
<1>3. TypeOK'
  BY <1>1, <1>2 DEF TypeOK
<1>4. CompleteOK(r)'
  BY <1>1 DEF IInv, CompleteOK
<1> QED BY <1>1, <1>3, <1>4, QuietStep DEF Working

(* Looking an upload up in the table, or forgetting it there, concerns no   *)
(* object either.                                                           *)
LEMMA TableStep ==
    ASSUME IInv, NEW r \in Request, NEW u \in Upload, CompleteLoad(r, u) \/ AbortForget(r, u)
    PROVE  IInv'
<1>1. /\ TypeOK /\ pc[r] = "idle" /\ UNCHANGED <<enabled, store, uploads, exposed, raced>>
      /\ table' \subseteq Upload /\ lost' \subseteq Upload
  BY DEF IInv, TypeOK, CompleteLoad, AbortForget
<1>2. /\ pc' \in [Request -> Pc] /\ pc'[r] \in {"assemble", "abort"}
      /\ \A q \in Request : q # r => pc'[q] = pc[q]
  BY <1>1 DEF TypeOK, CompleteLoad, AbortForget, Goto, Pc
<1>3. req' \in [Request -> LocalType] /\ \A q \in Request : q # r => req'[q] = req[q]
  <2>1. CASE CompleteLoad(r, u)
    <3>1. PICK b \in BOOLEAN : req' = [req EXCEPT ![r].upload = u, ![r].encrypts = b]
      BY <1>1, <2>1 DEF CompleteLoad, TypeOK
    <3> QED BY <1>1, <3>1 DEF TypeOK, LocalType
  <2>2. CASE AbortForget(r, u)
    BY <1>1, <2>2 DEF AbortForget, TypeOK, LocalType
  <2> QED BY <2>1, <2>2
<1>4. TypeOK'
  BY <1>1, <1>2, <1>3 DEF TypeOK
<1>5. CompleteOK(r)' /\ ~Working(r)
  BY <1>1, <1>2 DEF CompleteOK, Working
<1> QED BY <1>1, <1>2, <1>3, <1>4, <1>5, QuietStep

(* The assembled object lies in the clear: the Complete that assembled it   *)
(* is at work on it, or the upload was lost for a known reason.             *)
LEMMA AssembleStep ==
    ASSUME IInv, UploadInv, NEW r \in Request, CompleteAssemble(r)
    PROVE  IInv'
<1> DEFINE u == req[r].upload
           k == uploads[u].key
           o == Plain(uploads[u].data)
           clear == ~req[r].encrypts /\ (~enabled \/ u \in lost)
<1>1. /\ TypeOK /\ CompleteOK(r) /\ pc[r] = "assemble" /\ u \in Upload
      /\ uploads[u] # None /\ k \in Key /\ uploads[u].data \in Data
      /\ store' = [store EXCEPT ![k] = o] /\ Wrote(k, clear, FALSE)
      /\ uploads' = [uploads EXCEPT ![u] = None] /\ UNCHANGED <<enabled, table, lost>>
      /\ req[r].encrypts \in BOOLEAN
  BY DEF IInv, TypeOK, UploadInv, UploadOK, CompleteAssemble, UploadType, LocalType
<1>2. o \in Stored /\ o.depth = 0 /\ o.tagged = FALSE
  BY <1>1, PlainLemma
<1>3. Overtake(r, k) \in [Request -> LocalType] /\ Overtake(r, k)[r] = req[r]
  BY <1>1, OvertakeLemma
<1>4. /\ pc' \in [Request -> Pc] /\ req' \in [Request -> LocalType]
      /\ \A q \in Request : q # r => pc'[q] = pc[q] /\ req'[q] = Overtake(r, k)[q]
      /\ \/ ~req[r].encrypts /\ pc'[r] = "idle" /\ req'[r] = NoReq
         \/ req[r].encrypts /\ pc'[r] = "readback" /\ req'[r].key = k
  <2>1. CASE req[r].encrypts
    <3> DEFINE l == [req[r] EXCEPT !.key = k]
    <3>1. /\ pc' = [pc EXCEPT ![r] = "readback"]
          /\ req' = [Overtake(r, k) EXCEPT ![r] = l]
      BY <1>3, <2>1 DEF CompleteAssemble, Goto
    <3>2. pc' \in [Request -> Pc] /\ pc'[r] = "readback" /\ \A q \in Request : q # r => pc'[q] = pc[q]
      BY <1>1, <3>1 DEF TypeOK, Pc
    <3>3. l \in LocalType /\ l.key = k
      BY <1>1 DEF TypeOK, LocalType
    <3> HIDE DEF l
    <3>4. /\ req' \in [Request -> LocalType] /\ req'[r] = l
          /\ \A q \in Request : q # r => req'[q] = Overtake(r, k)[q]
      BY <1>3, <3>1, <3>3
    <3> QED BY <2>1, <3>2, <3>3, <3>4
  <2>2. CASE ~req[r].encrypts
    <3>1. pc' = [pc EXCEPT ![r] = "idle"] /\ req' = [Overtake(r, k) EXCEPT ![r] = NoReq]
      BY <2>2 DEF CompleteAssemble, Goto
    <3> QED BY <1>1, <1>3, <2>2, <3>1, NoReqType DEF TypeOK, Pc
  <2> QED BY <1>1, <2>1, <2>2
<1>5. /\ store' \in [Key -> Stored \cup {None}] /\ store'[k] = o
      /\ uploads' \in [Upload -> UploadType \cup {None}]
      /\ exposed' \subseteq Key /\ raced' \subseteq Key
  BY <1>1, <1>2 DEF TypeOK, Wrote
<1>6. TypeOK'
  BY <1>1, <1>4, <1>5 DEF TypeOK
<1>7. CompleteOK(r)'
  BY <1>1, <1>2, <1>4, <1>5 DEF CompleteOK, InTheClear
<1>8. clear \in BOOLEAN /\ ~Working(r) /\ (clear \/ (Working(r)' /\ req'[r].key = k))
  <2>1. ~req[r].encrypts => clear
    BY <1>1 DEF UploadInv, UploadOK
  <2> QED BY <1>1, <1>4, <2>1 DEF Working
<1>9. o.depth <= 1 /\ (o.tagged <=> o.depth = 1)
  BY <1>2
<1> HIDE DEF u, k, o, clear
<1> QED BY <1>1, <1>4, <1>6, <1>7, <1>8, <1>9, WriteStep

(* Reading back: an object no one has written since is the assembled one. *)
LEMMA ReadBackStep ==
    ASSUME IInv, NEW r \in Request, CompleteReadBack(r)
    PROVE  IInv'
<1> DEFINE k == req[r].key
<1>1. /\ TypeOK /\ CompleteOK(r) /\ pc[r] = "readback" /\ k \in Key /\ store[k] \in Stored
      /\ Goto(r, "reput") /\ req' = [req EXCEPT ![r].obj = store[k]]
      /\ UNCHANGED <<enabled, store, uploads, table, lost, exposed, raced>>
  BY DEF IInv, TypeOK, CompleteOK, CompleteReadBack
<1>2. store[k] \in Answer
  BY <1>1 DEF Stored, Answer
<1>3. /\ req' \in [Request -> LocalType] /\ pc' \in [Request -> Pc] /\ pc'[r] = "reput"
      /\ req'[r].key = k /\ req'[r].obj = store[k] /\ req'[r].overtaken = req[r].overtaken
      /\ \A q \in Request : q # r => pc'[q] = pc[q] /\ req'[q] = req[q]
  BY <1>1, <1>2 DEF TypeOK, LocalType, Goto, Pc
<1>4. TypeOK'
  BY <1>1, <1>3 DEF TypeOK
<1>5. CompleteOK(r)'
  BY <1>1, <1>3 DEF CompleteOK
<1> QED BY <1>1, <1>3, <1>4, <1>5, QuietStep DEF Working

(* The second PUT adds a layer to what was read back. *)
LEMMA ReplaceStep ==
    ASSUME IInv, NEW r \in Request, CompleteReplace(r)
    PROVE  IInv'
<1> DEFINE k == req[r].key
           o == Encrypted(req[r].obj)
<1>1. /\ TypeOK /\ CompleteOK(r) /\ pc[r] = "reput" /\ k \in Key /\ req[r].obj \in Stored
      /\ store' = [store EXCEPT ![k] = o] /\ Wrote(k, FALSE, req[r].overtaken)
      /\ Goto(r, "idle") /\ req' = [Overtake(r, k) EXCEPT ![r] = NoReq]
      /\ table' \subseteq Upload /\ UNCHANGED <<enabled, uploads, lost>>
      /\ req[r].overtaken \in BOOLEAN
  BY DEF IInv, TypeOK, CompleteOK, CompleteReplace, LocalType
<1>2. o \in Stored /\ o.depth = req[r].obj.depth + 1 /\ o.tagged = TRUE /\ req[r].obj.depth \in Nat
  BY <1>1, EncryptedLemma DEF Stored
<1>3. ~req[r].overtaken => o.depth = 1
  BY <1>1, <1>2 DEF CompleteOK, InTheClear
<1> HIDE DEF o
<1>4. /\ pc' \in [Request -> Pc] /\ req' \in [Request -> LocalType]
      /\ pc'[r] = "idle" /\ req'[r] = NoReq
      /\ \A q \in Request : q # r => pc'[q] = pc[q] /\ req'[q] = Overtake(r, k)[q]
  BY <1>1, NoReqType, OvertakeLemma DEF TypeOK, Goto, Pc
<1>5. /\ store' \in [Key -> Stored \cup {None}]
      /\ exposed' \subseteq Key /\ raced' \subseteq Key
  BY <1>1, <1>2 DEF TypeOK, Wrote
<1>6. TypeOK'
  BY <1>1, <1>4, <1>5 DEF TypeOK
<1>7. CompleteOK(r)'
  BY <1>4 DEF CompleteOK
<1>8. /\ o.depth # 0 /\ (~req[r].overtaken => o.depth <= 1 /\ (o.tagged <=> o.depth = 1))
  BY <1>2, <1>3
<1> QED BY <1>1, <1>4, <1>6, <1>7, <1>8, WriteStep

(* A restart forgets the requests and records what they leave in the clear. *)
LEMMA RestartStep ==
    ASSUME IInv, Restart
    PROVE  IInv'
<1>1. /\ TypeOK' /\ UNCHANGED <<store, raced>>
      /\ \A r \in Request : pc'[r] = "idle" /\ req'[r] = NoReq
  BY NoReqType DEF IInv, TypeOK, Restart, Pc
<1>2. \A r \in Request : CompleteOK(r)'
  BY <1>1 DEF CompleteOK
<1>3. TransparentUnlessRaced' /\ PlaintextHasCause'
  BY <1>1 DEF IInv, TransparentUnlessRaced, PlaintextHasCause, Encrypting, Restart
<1> QED BY <1>1, <1>2, <1>3 DEF IInv

---------------------------------------------------------------------------
(* Uploads and the table. *)

(* A step of request r that opens no upload, forgets no reason and leaves   *)
(* what the other requests know of their uploads.                           *)
LEMMA UploadFrame ==
    ASSUME UploadInv, NEW r \in Request, enabled' = enabled, lost \subseteq lost',
           \A u \in Upload : uploads'[u] # None => uploads[u] # None,
           UploadsKnown', UploadOK(r)',
           \A q \in Request : q # r => /\ pc'[q] = pc[q] /\ req'[q].upload = req[q].upload
                                       /\ req'[q].encrypts = req[q].encrypts
    PROVE  UploadInv'
<1>1. ASSUME NEW q \in Request, q # r PROVE UploadOK(q)'
  <2>1. /\ UploadOK(q) /\ pc'[q] = pc[q] /\ req'[q].upload = req[q].upload
        /\ req'[q].encrypts = req[q].encrypts
    BY <1>1 DEF UploadInv
  <2> QED BY <2>1 DEF UploadOK, Working
<1> QED BY <1>1 DEF UploadInv

(* Every step keeps the uploads accounted for. *)
LEMMA UploadInvStep == ASSUME IInv, UploadInv, Next PROVE UploadInv'
<1>1. TypeOK /\ UploadsKnown
  BY DEF IInv, UploadInv
<1>2. ASSUME NEW r \in Request, NEW k \in Key,
             DeleteObject(r, k) \/ \E d \in Data : PutObject(r, k, d)
      PROVE  UploadInv'
  <2>1. req' = Overtake(r, k) /\ UNCHANGED <<enabled, uploads, table, pc, lost>>
    BY <1>2 DEF DeleteObject, PutObject
  <2>2. \A q \in Request : req'[q].upload = req[q].upload /\ req'[q].encrypts = req[q].encrypts
    BY <1>1, <2>1, OvertakeLemma
  <2>3. UploadsKnown' /\ UploadOK(r)'
    BY <1>1, <2>1, <2>2 DEF UploadInv, UploadsKnown, UploadOK, Working
  <2> QED BY <2>1, <2>2, <2>3, UploadFrame
<1>3. ASSUME NEW r \in Request, NEW k \in Key, GetObject(r, k)
      PROVE  UploadInv'
  <2>1. /\ UNCHANGED <<enabled, uploads, table, lost>> /\ pc'[r] = "replied"
        /\ \A q \in Request : q # r => pc'[q] = pc[q] /\ req'[q] = req[q]
    BY <1>1, <1>3 DEF GetObject, Goto, TypeOK
  <2>2. UploadsKnown' /\ UploadOK(r)'
    BY <1>1, <2>1 DEF UploadsKnown, UploadOK, Working
  <2> QED BY <2>1, <2>2, UploadFrame
<1>4. ASSUME NEW r \in Request,
             Finish(r) \/ CompleteFails(r) \/ CompleteRefused(r) \/ AbortBackend(r)
      PROVE  UploadInv'
  <2>1. /\ UNCHANGED <<enabled, table, lost>> /\ Return(r)
        /\ uploads' = uploads \/ uploads' = [uploads EXCEPT ![req[r].upload] = None]
    BY <1>4 DEF Finish, CompleteFails, CompleteRefused, AbortBackend
  <2>2. pc'[r] = "idle" /\ \A q \in Request : q # r => pc'[q] = pc[q] /\ req'[q] = req[q]
    BY <1>1, <2>1 DEF TypeOK, Return, Goto
  <2>3. \A u \in Upload : uploads'[u] # None => uploads[u] # None
    BY <1>1, <2>1 DEF TypeOK
  <2>4. UploadsKnown' /\ UploadOK(r)'
    BY <1>1, <2>1, <2>2, <2>3 DEF UploadsKnown, UploadOK, Working
  <2> QED BY <2>1, <2>2, <2>3, <2>4, UploadFrame
<1>5. ASSUME NEW r \in Request, NEW k \in Key, NEW u \in Upload, InitiateMultipartUpload(r, k, u)
      PROVE  UploadInv'
  <2>1. /\ UNCHANGED <<enabled, pc, req>> /\ \A q \in Request : req[q].upload # u
        /\ \A v \in Upload : v # u => /\ uploads'[v] = uploads[v] /\ (v \in table' <=> v \in table)
                                     /\ (v \in lost' <=> v \in lost)
        /\ u \in table' \/ u \in lost'
    BY <1>1, <1>5 DEF InitiateMultipartUpload, TypeOK
  <2>2. UploadsKnown'
    BY <1>1, <2>1 DEF UploadsKnown
  <2>3. ASSUME NEW q \in Request PROVE UploadOK(q)'
    BY <2>1 DEF UploadInv, UploadOK, Working
  <2> QED BY <2>2, <2>3 DEF UploadInv
<1>6. ASSUME NEW r \in Request, NEW u \in Upload, NEW d \in Data, UploadPart(r, u, d)
      PROVE  UploadInv'
  <2>1. /\ UNCHANGED <<enabled, table, lost, pc, req>>
        /\ \A v \in Upload : uploads'[v] # None => uploads[v] # None
    BY <1>1, <1>6 DEF UploadPart, TypeOK
  <2>2. UploadsKnown' /\ UploadOK(r)'
    BY <1>1, <2>1 DEF UploadInv, UploadsKnown, UploadOK, Working
  <2> QED BY <2>1, <2>2, UploadFrame
<1>7. ASSUME NEW r \in Request, NEW u \in Upload, CompleteLoad(r, u)
      PROVE  UploadInv'
  <2>1. /\ UNCHANGED <<enabled, table, lost, uploads>> /\ pc'[r] = "assemble"
        /\ \A q \in Request : q # r => pc'[q] = pc[q] /\ req'[q] = req[q]
    BY <1>1, <1>7 DEF CompleteLoad, Goto, TypeOK
  <2>2. req'[r].upload = u /\ (~req'[r].encrypts => ~enabled \/ u \notin table)
    BY <1>1, <1>7 DEF CompleteLoad, TypeOK, LocalType
  <2>3. UploadsKnown' /\ UploadOK(r)'
    BY <1>1, <2>1, <2>2 DEF UploadsKnown, UploadOK, Working
  <2> QED BY <2>1, <2>3, UploadFrame
<1>8. ASSUME NEW r \in Request, NEW u \in Upload, AbortForget(r, u)
      PROVE  UploadInv'
  <2>1. /\ UNCHANGED <<enabled, uploads>> /\ pc'[r] = "abort" /\ req'[r].upload = u
        /\ \A q \in Request : q # r => pc'[q] = pc[q] /\ req'[q] = req[q]
        /\ lost \subseteq lost'
        /\ \A v \in table : v \notin table' => v \in lost'
    BY <1>1, <1>8 DEF AbortForget, Goto, TypeOK, LocalType
  <2>2. UploadsKnown' /\ UploadOK(r)'
    BY <1>1, <2>1 DEF UploadsKnown, UploadOK, Working
  <2> QED BY <2>1, <2>2, UploadFrame
<1>9. ASSUME NEW r \in Request, CompleteAssemble(r)
      PROVE  UploadInv'
  <2> DEFINE u == req[r].upload
             k == uploads[u].key
  <2>1. /\ UNCHANGED <<enabled, table, lost>> /\ u \in Upload /\ pc[r] = "assemble"
        /\ uploads' = [uploads EXCEPT ![u] = None]
    BY <1>1, <1>9 DEF CompleteAssemble, UploadInv, UploadOK
  <2>2. /\ \A v \in Upload : uploads'[v] # None => uploads[v] # None
        /\ uploads'[u] = None
    BY <1>1, <2>1 DEF TypeOK
  <2>3. /\ Overtake(r, k) \in [Request -> LocalType] /\ Overtake(r, k)[r] = req[r]
        /\ \A q \in Request : /\ Overtake(r, k)[q].upload = req[q].upload
                              /\ Overtake(r, k)[q].encrypts = req[q].encrypts
    BY <1>1, OvertakeLemma
  <2>4. /\ \A q \in Request : q # r => /\ pc'[q] = pc[q] /\ req'[q].upload = req[q].upload
                                        /\ req'[q].encrypts = req[q].encrypts
        /\ pc'[r] = "idle" \/ (pc'[r] = "readback" /\ req'[r].upload = u)
    <3>1. CASE req[r].encrypts
      <4> DEFINE l == [req[r] EXCEPT !.key = k]
      <4>1. pc' = [pc EXCEPT ![r] = "readback"] /\ req' = [Overtake(r, k) EXCEPT ![r] = l]
        BY <1>9, <2>3, <3>1 DEF CompleteAssemble, Goto
      <4>2. l.upload = u
        BY <1>1 DEF TypeOK, LocalType
      <4> HIDE DEF l
      <4> QED BY <1>1, <2>3, <4>1, <4>2 DEF TypeOK
    <3>2. CASE ~req[r].encrypts
      <4>1. pc' = [pc EXCEPT ![r] = "idle"] /\ req' = [Overtake(r, k) EXCEPT ![r] = NoReq]
        BY <1>9, <3>2 DEF CompleteAssemble, Goto
      <4> QED BY <1>1, <2>3, <4>1 DEF TypeOK
    <3> QED BY <3>1, <3>2
  <2> HIDE DEF k, u
  <2>5. UploadsKnown' /\ UploadOK(r)'
    BY <1>1, <2>1, <2>2, <2>4 DEF UploadsKnown, UploadOK, Working
  <2> QED BY <2>1, <2>2, <2>4, <2>5, UploadFrame
<1>10. ASSUME NEW r \in Request, CompleteReadBack(r)
       PROVE  UploadInv'
  <2>1. /\ UNCHANGED <<enabled, table, lost, uploads>> /\ pc[r] = "readback" /\ pc'[r] = "reput"
        /\ req'[r].upload = req[r].upload
        /\ \A q \in Request : q # r => pc'[q] = pc[q] /\ req'[q] = req[q]
    BY <1>1, <1>10 DEF CompleteReadBack, Goto, TypeOK, LocalType
  <2>2. UploadsKnown' /\ UploadOK(r)'
    BY <1>1, <2>1 DEF UploadInv, UploadsKnown, UploadOK, Working
  <2> QED BY <2>1, <2>2, UploadFrame
<1>11. ASSUME NEW r \in Request, CompleteReplace(r)
       PROVE  UploadInv'
  <2>1. /\ UNCHANGED <<enabled, lost, uploads>> /\ pc'[r] = "idle"
        /\ table' = table \ {req[r].upload} /\ uploads[req[r].upload] = None
        /\ req' = [Overtake(r, req[r].key) EXCEPT ![r] = NoReq]
        /\ \A q \in Request : q # r => pc'[q] = pc[q]
    BY <1>1, <1>11 DEF CompleteReplace, Goto, TypeOK, UploadInv, UploadOK, Working
  <2>2. \A q \in Request : q # r => /\ req'[q].upload = req[q].upload
                                     /\ req'[q].encrypts = req[q].encrypts
    BY <1>1, <2>1, OvertakeLemma
  <2>3. UploadsKnown' /\ UploadOK(r)'
    BY <1>1, <2>1 DEF UploadsKnown, UploadOK, Working
  <2> QED BY <2>1, <2>2, <2>3, UploadFrame
<1>12. CASE Restart
  BY <1>1, <1>12 DEF Restart, UploadInv, UploadsKnown, UploadOK, Working
<1> QED BY <1>2, <1>3, <1>4, <1>5, <1>6, <1>7, <1>8, <1>9, <1>10, <1>11, <1>12 DEF Next

---------------------------------------------------------------------------
(* The invariant and what follows from it. *)

(* The invariant holds of an empty backend. *)
LEMMA InitIInv == Init => IInv /\ UploadInv
<1> SUFFICES ASSUME Init PROVE IInv /\ UploadInv
  OBVIOUS
<1>1. TypeOK
  BY NoReqType DEF Init, TypeOK, Pc
<1>2. (\A r \in Request : CompleteOK(r)) /\ TransparentUnlessRaced /\ PlaintextHasCause
  BY DEF Init, CompleteOK, TransparentUnlessRaced, PlaintextHasCause
<1>3. UploadInv
  BY DEF Init, UploadInv, UploadsKnown, UploadOK, Working
<1> QED BY <1>1, <1>2, <1>3 DEF IInv

(* Every step preserves the invariant. *)
LEMMA NextIInv == IInv /\ UploadInv /\ [Next]_vars => IInv' /\ UploadInv'
<1> SUFFICES ASSUME IInv, UploadInv, [Next]_vars PROVE IInv' /\ UploadInv'
  OBVIOUS
<1>1. CASE UNCHANGED vars
  BY <1>1 DEF vars, IInv, TypeOK, CompleteOK, TransparentUnlessRaced, PlaintextHasCause,
             Encrypting, UploadInv, UploadsKnown, UploadOK, Working
<1>2. CASE Next
  <2>1. IInv'
    BY <1>2, PutStep, DeleteStep, GetStep, ReturnStep, UploadStep, TableStep, AssembleStep,
       ReadBackStep, ReplaceStep, RestartStep DEF Next
  <2> QED BY <1>2, <2>1, UploadInvStep
<1> QED BY <1>1, <1>2

(* The inductive invariant holds in every reachable state.                  *)
THEOREM Invariance == Spec => [](IInv /\ UploadInv)
BY InitIInv, NextIInv, PTL DEF Spec

(* For any number of keys, uploads and concurrent requests, with failures   *)
(* and restarts: an object is encrypted at most once, and tagged if it is,  *)
(* unless its last writer is a Complete that another write overtook.        *)
THEOREM EncryptionIsTransparent == Spec => []TransparentUnlessRaced
BY Invariance, PTL DEF IInv

(* An object lies in the clear only while a Complete is at work on it,      *)
(* after one that failed or was stopped by a restart, after a write with    *)
(* encryption disabled, or after completing an upload that an Abort or a    *)
(* restart had taken out of the table or that was begun without encryption. *)
THEOREM PlaintextIsExplained == Spec => []PlaintextHasCause
BY Invariance, PTL DEF IInv

=============================================================================
