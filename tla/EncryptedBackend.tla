-------------------------- MODULE EncryptedBackend --------------------------
(***************************************************************************)
(* storage.EncryptedBackend (internal/storage/encrypted.go) with           *)
(* encryption.Manager: objects are encrypted before they reach the wrapped *)
(* backend and decrypted on the way back.  A multipart upload is stored in *)
(* the clear, and CompleteMultipartUpload then reads the assembled object  *)
(* back, encrypts it and puts it again: calls of the wrapped backend and   *)
(* of the in-memory table of uploads that other requests interleave with   *)
(* and of which any may be the last before an error or a restart.  A call  *)
(* of the wrapped backend that fails has no effect there.                  *)
(*                                                                         *)
(* A stored object is what a client sent, how often it has been encrypted  *)
(* since, and whether its metadata says so: Decrypt undoes one layer when  *)
(* the metadata carries an algorithm and none otherwise.                   *)
(***************************************************************************)
EXTENDS Integers, FiniteSets

CONSTANTS
    Key,        \* object keys
    Upload,     \* upload IDs the wrapped backend may assign
    Data,       \* what clients send
    Request,    \* concurrent requests
    MaxDepth,   \* bound: layers of encryption explored
    Failures,   \* do calls of the wrapped backend or of the key provider fail?
    Restarts,   \* is the proxy restarted, possibly with encryption switched?
    None

ASSUME DepthAssumption == MaxDepth \in Nat \ {0, 1}
ASSUME FailureAssumption == Failures \in BOOLEAN /\ Restarts \in BOOLEAN

VARIABLES
    enabled,   \* Manager.enabled
    store,     \* objects in the wrapped backend
    uploads,   \* open uploads of the wrapped backend: [key, data] or None
    table,     \* multipartUploads: upload IDs known to be encrypted
    pc, req,   \* requests and their locals
    lost,      \* history: open uploads that are not in the table for a known reason
    exposed,   \* history: keys left in the clear for a known reason
    raced      \* history: keys last written by a Complete that was overtaken

vars == <<enabled, store, uploads, table, pc, req, lost, exposed, raced>>

Plain(d) == [data |-> d, depth |-> 0, tagged |-> FALSE]

(* Manager.Encrypt adds a layer and the metadata of that layer. *)
Encrypted(o) == [o EXCEPT !.depth = @ + 1, !.tagged = TRUE]

NoReq == [key |-> None, upload |-> None, encrypts |-> FALSE, obj |-> None,
          overtaken |-> FALSE]

Init ==
    /\ enabled \in (IF Restarts THEN BOOLEAN ELSE {TRUE})
    /\ store = [k \in Key |-> None]
    /\ uploads = [u \in Upload |-> None]
    /\ table = {}
    /\ pc = [r \in Request |-> "idle"]
    /\ req = [r \in Request |-> NoReq]
    /\ lost = {}
    /\ exposed = {}
    /\ raced = {}

Goto(r, l) == pc' = [pc EXCEPT ![r] = l]

Return(r) == Goto(r, "idle") /\ req' = [req EXCEPT ![r] = NoReq]

(* The requests after a write of k by r: a Complete of k that has assembled *)
(* the object and not yet read it back is overtaken.                        *)
Overtake(r, k) ==
    [q \in Request |-> IF q # r /\ pc[q] = "readback" /\ req[q].key = k
                       THEN [req[q] EXCEPT !.overtaken = TRUE] ELSE req[q]]

(* A Complete that has assembled k and not yet replaced it. *)
Encrypting(r, k) == pc[r] \in {"readback", "reput"} /\ req[r].key = k

(* What a write of k leaves: in the clear or not, by an overtaken Complete  *)
(* or not.                                                                  *)
Wrote(k, clear, overtaken) ==
    /\ exposed' = IF clear THEN exposed \cup {k} ELSE exposed \ {k}
    /\ raced' = IF overtaken THEN raced \cup {k} ELSE raced \ {k}

---------------------------------------------------------------------------
(* Manager.Encrypt runs before the wrapped backend is called, so a PUT is   *)
(* one step; when encryption is disabled the object passes through.         *)
PutObject(r, k, d) ==
    /\ pc[r] = "idle"
    /\ store' = [store EXCEPT ![k] = IF enabled THEN Encrypted(Plain(d)) ELSE Plain(d)]
    /\ Wrote(k, ~enabled, FALSE)
    /\ req' = Overtake(r, k)
    /\ UNCHANGED <<enabled, uploads, table, pc, lost>>

DeleteObject(r, k) ==
    /\ pc[r] = "idle"
    /\ store[k] # None
    /\ store' = [store EXCEPT ![k] = None]
    /\ Wrote(k, FALSE, FALSE)
    /\ req' = Overtake(r, k)
    /\ UNCHANGED <<enabled, uploads, table, pc, lost>>

(* validateEncryptionMetadata and Manager.Decrypt: a tagged object loses a  *)
(* layer, or is refused when encryption is disabled.                        *)
GetObject(r, k) ==
    /\ pc[r] = "idle"
    /\ store[k] # None
    /\ ~store[k].tagged \/ enabled
    /\ Goto(r, "replied")
    /\ req' = [req EXCEPT ![r].key = k, ![r].obj =
                  [store[k] EXCEPT !.depth = IF store[k].tagged THEN @ - 1 ELSE @]]
    /\ UNCHANGED <<enabled, store, uploads, table, lost, exposed, raced>>

Finish(r) ==
    /\ pc[r] = "replied"
    /\ Return(r)
    /\ UNCHANGED <<enabled, store, uploads, table, lost, exposed, raced>>

---------------------------------------------------------------------------
(* Multipart uploads.  The wrapped backend assigns an ID no one has named   *)
(* before; with encryption enabled it is entered in the table.              *)
InitiateMultipartUpload(r, k, u) ==
    /\ pc[r] = "idle"
    /\ uploads[u] = None /\ u \notin table
    /\ \A q \in Request : req[q].upload # u
    /\ uploads' = [uploads EXCEPT ![u] = [key |-> k, data |-> None]]
    /\ table' = IF enabled THEN table \cup {u} ELSE table
    /\ lost' = IF enabled THEN lost \ {u} ELSE lost \cup {u}
    /\ UNCHANGED <<enabled, store, pc, req, exposed, raced>>

(* Parts go to the wrapped backend as they are. *)
UploadPart(r, u, d) ==
    /\ pc[r] = "idle"
    /\ uploads[u] # None
    /\ uploads' = [uploads EXCEPT ![u].data = d]
    /\ UNCHANGED <<enabled, store, table, pc, req, lost, exposed, raced>>

(* Mutant of CompleteLoad: The entry is taken out of the table when it is   *)
(* read (LoadAndDelete) and not when the object has been encrypted.         *)
CompleteTakes(r, u) ==
    /\ pc[r] = "idle"
    /\ req' = [req EXCEPT ![r].upload = u, ![r].encrypts = enabled /\ u \in table]
    /\ Goto(r, "assemble")
    /\ table' = table \ {u}
    /\ UNCHANGED <<enabled, store, uploads, lost, exposed, raced>>

(* CompleteMultipartUpload: with encryption enabled the table says whether  *)
(* this upload is to be encrypted.                                          *)
CompleteLoad(r, u) ==
    /\ pc[r] = "idle"
    /\ req' = [req EXCEPT ![r].upload = u, ![r].encrypts = enabled /\ u \in table]
    /\ Goto(r, "assemble")
    /\ UNCHANGED <<enabled, store, uploads, table, lost, exposed, raced>>

(* The wrapped backend assembles the object, in the clear.  An upload that  *)
(* was not in the table is finished with that; if it was forgotten for a    *)
(* known reason, that is the reason the object lies in the clear.           *)
CompleteAssemble(r) ==
    LET u == req[r].upload
        k == uploads[u].key
    IN  /\ pc[r] = "assemble"
        /\ uploads[u] # None
        /\ uploads[u].data # None
        /\ store' = [store EXCEPT ![k] = Plain(uploads[u].data)]
        /\ uploads' = [uploads EXCEPT ![u] = None]
        /\ Wrote(k, ~req[r].encrypts /\ (~enabled \/ u \in lost), FALSE)
        /\ \/ /\ req[r].encrypts
              /\ Goto(r, "readback")
              /\ req' = [Overtake(r, k) EXCEPT ![r] = [@ EXCEPT !.key = k]]
           \/ /\ ~req[r].encrypts
              /\ Goto(r, "idle")
              /\ req' = [Overtake(r, k) EXCEPT ![r] = NoReq]
        /\ UNCHANGED <<enabled, table, lost>>

(* The wrapped backend refuses: the call fails, or the upload is gone or    *)
(* has no parts.  The table keeps its entry, for another attempt.           *)
CompleteRefused(r) ==
    LET u == req[r].upload
    IN  /\ pc[r] = "assemble"
        /\ Failures \/ (uploads[u] # None => uploads[u].data = None)
        /\ Return(r)
        /\ UNCHANGED <<enabled, store, uploads, table, lost, exposed, raced>>

(* backend.GetObject and io.ReadAll: whatever the key holds by now. *)
CompleteReadBack(r) ==
    /\ pc[r] = "readback"
    /\ store[req[r].key] # None
    /\ store[req[r].key].depth < MaxDepth
    /\ req' = [req EXCEPT ![r].obj = store[req[r].key]]
    /\ Goto(r, "reput")
    /\ UNCHANGED <<enabled, store, uploads, table, lost, exposed, raced>>

(* Mutant of CompleteReplace: The second PUT does not carry the encryption  *)
(* metadata.                                                                *)
CompleteLosesMetadata(r) ==
    /\ pc[r] = "reput"
    /\ store' = [store EXCEPT ![req[r].key] = [req[r].obj EXCEPT !.depth = @ + 1]]
    /\ Wrote(req[r].key, FALSE, req[r].overtaken)
    /\ table' = table \ {req[r].upload}
    /\ Goto(r, "idle")
    /\ req' = [Overtake(r, req[r].key) EXCEPT ![r] = NoReq]
    /\ UNCHANGED <<enabled, uploads, lost>>

(* Encrypt and backend.PutObject; then the table entry goes. *)
CompleteReplace(r) ==
    /\ pc[r] = "reput"
    /\ store' = [store EXCEPT ![req[r].key] = Encrypted(req[r].obj)]
    /\ Wrote(req[r].key, FALSE, req[r].overtaken)
    /\ table' = table \ {req[r].upload}
    /\ Goto(r, "idle")
    /\ req' = [Overtake(r, req[r].key) EXCEPT ![r] = NoReq]
    /\ UNCHANGED <<enabled, uploads, lost>>

(* The read back fails (the object may have been deleted), or Encrypt, or   *)
(* the second PUT: the error is returned and the assembled object stays.    *)
CompleteFails(r) ==
    /\ \/ pc[r] = "readback" /\ (Failures \/ store[req[r].key] = None)
       \/ pc[r] = "reput" /\ Failures
    /\ Return(r)
    /\ exposed' = IF store[req[r].key] # None /\ store[req[r].key].depth = 0
                  THEN exposed \cup {req[r].key} ELSE exposed
    /\ UNCHANGED <<enabled, store, uploads, table, lost, raced>>

(* AbortMultipartUpload: the table entry goes first. *)
AbortForget(r, u) ==
    /\ pc[r] = "idle"
    /\ table' = table \ {u}
    /\ lost' = IF u \in table THEN lost \cup {u} ELSE lost
    /\ req' = [req EXCEPT ![r].upload = u]
    /\ Goto(r, "abort")
    /\ UNCHANGED <<enabled, store, uploads, exposed, raced>>

(* Then the wrapped backend aborts, which may fail: the upload is still     *)
(* open, and the table does not know it any more.                           *)
AbortBackend(r) ==
    /\ pc[r] = "abort"
    /\ \/ uploads' = [uploads EXCEPT ![req[r].upload] = None]
       \/ Failures /\ UNCHANGED uploads
    /\ Return(r)
    /\ UNCHANGED <<enabled, store, table, lost, exposed, raced>>

(* The table is in memory only, and the new process may be configured       *)
(* otherwise.  What a Complete was at work on stays as it is.               *)
Restart ==
    /\ Restarts
    /\ enabled' \in BOOLEAN
    /\ table' = {}
    /\ lost' = lost \cup table
    /\ pc' = [r \in Request |-> "idle"]
    /\ req' = [r \in Request |-> NoReq]
    /\ exposed' = exposed \cup {k \in Key : /\ store[k] # None /\ store[k].depth = 0
                                            /\ \E r \in Request : Encrypting(r, k)}
    /\ UNCHANGED <<store, uploads, raced>>

Next ==
    \/ \E r \in Request :
          \/ \E k \in Key, d \in Data : PutObject(r, k, d)
          \/ \E k \in Key : DeleteObject(r, k) \/ GetObject(r, k)
          \/ \E k \in Key, u \in Upload : InitiateMultipartUpload(r, k, u)
          \/ \E u \in Upload, d \in Data : UploadPart(r, u, d)
          \/ \E u \in Upload : CompleteLoad(r, u) \/ AbortForget(r, u)
          \/ CompleteAssemble(r) \/ CompleteRefused(r) \/ CompleteReadBack(r)
          \/ CompleteReplace(r) \/ CompleteFails(r) \/ AbortBackend(r) \/ Finish(r)
    \/ Restart

Spec == Init /\ [][Next]_vars

---------------------------------------------------------------------------
(* Properties. *)

(* The comment on the type: "transparent encryption".  It holds for every   *)
(* key whose last writer is not a Complete that another write overtook      *)
(* between assembling the object and reading it back: what is stored is     *)
(* encrypted at most once, and tagged if it is, so that a GET answers with  *)
(* what a client sent.                                                      *)
TransparentUnlessRaced ==
    \A k \in Key : (store[k] # None /\ k \notin raced) =>
        /\ store[k].depth <= 1
        /\ store[k].tagged <=> store[k].depth = 1

(* With encryption enabled, an object lies in the clear only while a        *)
(* Complete is encrypting it, or for one of the recorded causes: a Complete *)
(* that failed or was stopped by a restart between assembling the object    *)
(* and replacing it; a write while encryption was disabled; an upload that  *)
(* was completed after an Abort or a restart had taken it out of the table, *)
(* or that was begun while encryption was disabled.  No other interleaving  *)
(* of PUTs, DELETEs, Completes, Aborts and retries leaves plaintext behind. *)
PlaintextHasCause ==
    \A k \in Key : (store[k] # None /\ store[k].depth = 0) =>
        k \in exposed \/ \E r \in Request : Encrypting(r, k)

=============================================================================
