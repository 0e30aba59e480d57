------------------------- MODULE FileSystemBackend -------------------------
(***************************************************************************)
(* storage.FileSystemBackend (internal/storage/filesystem.go): objects are *)
(* files under the bucket's directory, user metadata is a second file      *)
(* "<key>.meta", a multipart upload is a directory .uploads/<id> with one  *)
(* file per part.  There is no lock: every system call is a step, requests *)
(* interleave between any two of them and the process may be killed there. *)
(*                                                                         *)
(* A file is an inode: os.Create truncates the inode a path already has,   *)
(* os.Remove only unlinks it, so an open file keeps its bytes.  Contents   *)
(* are sequences of blocks.                                                *)
(*                                                                         *)
(* "promise" and the fields "alone" and "want" are history.  promise[p] is *)
(* what the last request to change the file p left there, as far as it was *)
(* done with p and ran alone on it, and Unknown from the moment another    *)
(* request that changes p begins.  A multipart upload is not alone either  *)
(* if a part is written while it is copied into the object.                *)
(***************************************************************************)
EXTENDS Integers, Sequences, FiniteSets, SequencesExt

CONSTANTS
    Key,         \* object keys of the bucket
    Upload,      \* upload IDs that InitiateMultipartUpload can return
    PartNo,      \* part numbers
    NameOrder,   \* the same in the order of their file names, "part-10" before "part-2"
    MaxParts,    \* bound: the page sizes ListParts is asked with
    PartLists,   \* the part lists clients complete an upload with
    Contents,    \* bodies clients put, sequences of blocks
    PartContents,\* bodies clients send for each part number
    Meta,        \* non-empty metadata maps clients send
    Request,     \* concurrent requests
    Spare,       \* inodes for the files opened and since unlinked
    Blank,       \* a .meta file that is empty or cut short: json.Unmarshal refuses it
    None, Unknown, Gone, Hole

Part == Upload \X PartNo
Path == Key \cup Part
Inode == Path \cup Spare

(* What files may contain, and what an acknowledged request leaves. *)
Block == {Hole} \cup UNION {ToSet(b) : b \in Contents \cup UNION {PartContents[n] : n \in PartNo}}

LeftType == [body : Seq(Block), meta : Meta \cup {None}]

ASSUME InodeAssumption ==
    /\ IsFiniteSet(Path) /\ IsFiniteSet(Request) /\ IsFiniteSet(Spare)
    /\ Spare \cap Path = {}
    /\ Cardinality(Spare) >= 2 * Cardinality(Request)
ASSUME ContentAssumption ==
    Contents \subseteq Seq(Block) /\ \A n \in PartNo : PartContents[n] \subseteq Seq(Block)
ASSUME NoneAssumption ==
    /\ None \notin Inode \cup Meta /\ Blank \notin Meta \cup {None}
    /\ Unknown # Gone /\ Unknown \notin LeftType /\ Gone \notin LeftType
ASSUME PartListAssumption == PartLists \subseteq Seq(PartNo)
ASSUME NameAssumption == Key \cap Part = {}
ASSUME OrderAssumption ==
    /\ PartNo \subseteq Nat \ {0} /\ MaxParts \in Nat
    /\ NameOrder \in Seq(PartNo)
    /\ ToSet(NameOrder) = PartNo /\ Len(NameOrder) = Cardinality(PartNo)

VARIABLES
    file,      \* the inode of each path, or None
    data,      \* the content of each inode
    metaFile,  \* the content of each object's .meta file, or None
    dirs,      \* upload directories that exist
    used,      \* upload IDs handed out
    pc, req,   \* the requests and their locals
    promise    \* history: what an acknowledged request left in each path

fsVars == <<file, data, metaFile, dirs, used>>
vars == <<file, data, metaFile, dirs, used, pc, req, promise>>

NoReq == [op |-> None, on |-> {}, path |-> None, ino |-> None, pos |-> 0,
          body |-> <<>>, meta |-> None, upload |-> None, parts |-> <<>>,
          part |-> None, from |-> None, base |-> 0,
          alone |-> FALSE, want |-> Unknown, size |-> 0]

Init ==
    /\ file = [p \in Path |-> None]
    /\ data = [i \in Inode |-> <<>>]
    /\ metaFile = [k \in Key |-> None]
    /\ dirs = {}
    /\ used = {}
    /\ pc = [r \in Request |-> "idle"]
    /\ req = [r \in Request |-> NoReq]
    /\ promise = [p \in Path |-> Gone]

Reading == {"open", "getmeta", "read"}
Changing == {"copy", "meta", "write_meta", "del_meta", "assemble", "rmall"}

---------------------------------------------------------------------------
(* History: a request that changes the files ps begins or ends.            *)

(* Every other request working on one of ps loses its claim: a writer is    *)
(* no longer alone and a reader, or whoever copies a part, has no content   *)
(* to expect, unless it already holds the file open and the newcomer only   *)
(* unlinks.                                                                 *)
Disturbed(q, ps, unlink) ==
    \/ req[q].on \cap ps # {} /\ pc[q] \in Changing
    \/ req[q].on \cap ps # {} /\ pc[q] \in Reading /\ (pc[q] = "read" => ~unlink)
    \/ req[q].part \in ps /\ ~unlink

Begin(r, ps, unlink, new) ==
    req' = [q \in Request |->
              IF q = r
              THEN [new EXCEPT !.on = ps, !.alone =
                       \A o \in Request \ {r} :
                           ~(pc[o] \in Changing /\ req[o].on \cap ps # {})]
              ELSE IF Disturbed(q, ps, unlink)
                   THEN [req[q] EXCEPT !.alone = FALSE, !.want = Unknown]
                   ELSE req[q]]

Forget(ps) == promise' = [p \in Path |-> IF p \in ps THEN Unknown ELSE promise[p]]

Return(r) == /\ pc' = [pc EXCEPT ![r] = "idle"]
             /\ req' = [req EXCEPT ![r] = NoReq]

(* The request is acknowledged: the files it changed are as it left them.   *)
Succeed(r, ps, left) ==
    /\ Return(r)
    /\ promise' = [p \in Path |-> IF p \in ps /\ req[r].alone THEN left ELSE promise[p]]

Fail(r) == Return(r) /\ UNCHANGED promise

Goto(r, l) == pc' = [pc EXCEPT ![r] = l]

---------------------------------------------------------------------------
(* Files. *)

(* The inodes some path or some open file leads to. *)
Live == {i \in Inode : \/ \E p \in Path : file[p] = i
                        \/ \E q \in Request : req[q].ino = i \/ req[q].from = i}

(* A free inode; which one does not matter, the path's own if it is free.   *)
FreeInode(p) == IF p \notin Live THEN p ELSE CHOOSE i \in Inode : i \notin Live

(* os.Create: the path's inode, truncated, or a new one. *)
Created(p) == IF file[p] = None THEN FreeInode(p) ELSE file[p]

CreateFile(p) ==
    /\ file' = [file EXCEPT ![p] = Created(p)]
    /\ data' = [data EXCEPT ![Created(p)] = <<>>]

(* write(2) of the blocks b at the writer's own offset; what lies between   *)
(* the end of a file truncated in the meantime and that offset is a hole.   *)
WriteAt(s, off, b) ==
    [j \in 1 .. (IF Len(s) > off + Len(b) THEN Len(s) ELSE off + Len(b)) |->
        IF j > off /\ j <= off + Len(b) THEN b[j - off]
        ELSE IF j <= Len(s) THEN s[j] ELSE Hole]

Unlink(ps) == file' = [p \in Path |-> IF p \in ps THEN None ELSE file[p]]

PartsOf(u) == {u} \X PartNo

---------------------------------------------------------------------------
(* PutObject and UploadPart: create (or truncate), copy the body, and for   *)
(* an object with metadata write the .meta file.                            *)

PutObject(r, k) ==
    /\ pc[r] = "idle"
    /\ \E b \in Contents, m \in Meta \cup {None} :
          Begin(r, {k}, FALSE, [NoReq EXCEPT !.op = "put", !.path = k,
                                  !.ino = Created(k), !.body = b, !.meta = m])
    /\ CreateFile(k)
    /\ Forget({k})
    /\ Goto(r, "copy")
    /\ UNCHANGED <<metaFile, dirs, used>>

(* os.Create fails when the upload directory does not exist. *)
UploadPart(r, u, n) ==
    /\ pc[r] = "idle"
    /\ u \in dirs
    /\ \E b \in PartContents[n] :
          Begin(r, {<<u, n>>}, FALSE, [NoReq EXCEPT !.op = "part", !.path = <<u, n>>,
                                         !.ino = Created(<<u, n>>), !.body = b])
    /\ CreateFile(<<u, n>>)
    /\ Forget({<<u, n>>})
    /\ Goto(r, "copy")
    /\ UNCHANGED <<metaFile, dirs, used>>

(* io.CopyBuffer moves one block from the client to the file. *)
CopyBlock(r) ==
    /\ pc[r] = "copy"
    /\ req[r].pos < Len(req[r].body)
    /\ data' = [data EXCEPT ![req[r].ino] =
                   WriteAt(@, req[r].pos, <<req[r].body[req[r].pos + 1]>>)]
    /\ req' = [req EXCEPT ![r].pos = @ + 1]
    /\ UNCHANGED <<file, metaFile, dirs, used, pc, promise>>

Left(r) == [body |-> req[r].body, meta |-> req[r].meta]

CopyDone(r) ==
    /\ pc[r] = "copy"
    /\ req[r].pos = Len(req[r].body)
    /\ \/ /\ req[r].meta = None
          /\ Succeed(r, {req[r].path}, Left(r))
       \/ /\ req[r].meta # None
          /\ Goto(r, "meta")
          /\ UNCHANGED <<req, promise>>
    /\ UNCHANGED fsVars

(* os.WriteFile empties or creates the .meta file ... *)
PutMeta(r) ==
    /\ pc[r] = "meta"
    /\ metaFile' = [metaFile EXCEPT ![req[r].path] = Blank]
    /\ Goto(r, "write_meta")
    /\ UNCHANGED <<file, data, dirs, used, req, promise>>

(* ... and writes it.  If it was removed meanwhile the write goes nowhere;  *)
(* if another request wrote it, the longer of the two may show behind the   *)
(* shorter, or the file written by the other one is a new one.              *)
MetaWritten(k, m) ==
    IF metaFile[k] \in {None, Blank} THEN {IF metaFile[k] = None THEN None ELSE m}
    ELSE {m, Blank, metaFile[k]}

WriteMeta(r) ==
    /\ pc[r] = "write_meta"
    /\ \E m \in MetaWritten(req[r].path, req[r].meta) :
          metaFile' = [metaFile EXCEPT ![req[r].path] = m]
    /\ Succeed(r, {req[r].path}, Left(r))
    /\ UNCHANGED <<file, data, dirs, used>>

(* The client's body breaks off, or the disk refuses: the error is returned *)
(* and the file stays as far as it was written.                             *)
WriteFails(r) ==
    /\ pc[r] \in {"copy", "meta", "write_meta"}
    /\ Fail(r)
    /\ UNCHANGED fsVars

---------------------------------------------------------------------------
(* DeleteObject: a missing object returns at once, before the .meta file.   *)

(* Mutant of DeleteObject: The file is emptied, under its open readers. *)
DeleteTruncates(r, k) ==
    /\ pc[r] = "idle"
    /\ file[k] # None
    /\ Unlink({k})
    /\ data' = [data EXCEPT ![file[k]] = <<>>]
    /\ Begin(r, {k}, TRUE, [NoReq EXCEPT !.op = "delete", !.path = k])
    /\ Forget({k})
    /\ Goto(r, "del_meta")
    /\ UNCHANGED <<metaFile, dirs, used>>

DeleteObject(r, k) ==
    /\ pc[r] = "idle"
    /\ file[k] # None
    /\ Unlink({k})
    /\ Begin(r, {k}, TRUE, [NoReq EXCEPT !.op = "delete", !.path = k])
    /\ Forget({k})
    /\ Goto(r, "del_meta")
    /\ UNCHANGED <<data, metaFile, dirs, used>>

(* os.Remove fails for another reason: the .meta file is removed all the    *)
(* same, and the error returned afterwards.                                 *)
DeleteObjectFails(r, k) ==
    /\ pc[r] = "idle"
    /\ file[k] # None
    /\ Begin(r, {k}, TRUE, [NoReq EXCEPT !.op = "delete_fails", !.path = k])
    /\ Forget({k})
    /\ Goto(r, "del_meta")
    /\ UNCHANGED fsVars

DeleteMeta(r) ==
    /\ pc[r] = "del_meta"
    /\ metaFile' = [metaFile EXCEPT ![req[r].path] = None]
    /\ \/ req[r].op = "delete" /\ Succeed(r, {req[r].path}, Gone)
       \/ req[r].op = "delete_fails" /\ Fail(r)
    /\ UNCHANGED <<file, data, dirs, used>>

(* DeleteBucket: os.RemoveAll unlinks what it finds, file by file, and then *)
(* the directories.                                                         *)
DeleteBucket(r) ==
    /\ pc[r] = "idle"
    /\ Begin(r, Path, TRUE, NoReq)
    /\ Forget(Path)
    /\ Goto(r, "rmall")
    /\ UNCHANGED fsVars

RemoveOne(r) ==
    /\ pc[r] = "rmall"
    /\ \/ \E p \in req[r].on : /\ file[p] # None
                               /\ Unlink({p})
                               /\ UNCHANGED <<metaFile, dirs>>
       \/ \E k \in Key \cap req[r].on : /\ metaFile[k] # None
                                       /\ metaFile' = [metaFile EXCEPT ![k] = None]
                                       /\ UNCHANGED <<file, dirs>>
       \/ \E u \in dirs : /\ PartsOf(u) \subseteq req[r].on
                          /\ \A p \in PartsOf(u) : file[p] = None
                          /\ dirs' = dirs \ {u}
                          /\ UNCHANGED <<file, metaFile>>
    /\ UNCHANGED <<data, used, pc, req, promise>>

RemoveDone(r) ==
    /\ pc[r] = "rmall"
    /\ \A p \in req[r].on : file[p] = None
    /\ \A k \in Key \cap req[r].on : metaFile[k] = None
    /\ \A u \in dirs : ~(PartsOf(u) \subseteq req[r].on)
    /\ Succeed(r, req[r].on, Gone)
    /\ UNCHANGED fsVars

(* A file cannot be removed, or one is created in a directory that was just *)
(* emptied: the rest stays.  CompleteMultipartUpload ignores the error, the *)
(* others return it.                                                        *)
RemoveFails(r) ==
    /\ pc[r] = "rmall"
    /\ Fail(r)
    /\ UNCHANGED fsVars

---------------------------------------------------------------------------
(* Multipart uploads.  The metadata given to InitiateMultipartUpload is not *)
(* kept anywhere.                                                           *)

InitiateMultipartUpload(u) ==
    /\ u \notin used
    /\ used' = used \cup {u}
    /\ dirs' = dirs \cup {u}
    /\ UNCHANGED <<file, data, metaFile, pc, req, promise>>

(* The object is created, or truncated, before any part is looked at. *)
CompleteMultipartUpload(r, k, u) ==
    /\ pc[r] = "idle"
    /\ u \in used
    /\ \E ps \in PartLists :
          Begin(r, {k}, FALSE, [NoReq EXCEPT !.op = "complete", !.path = k,
                                  !.ino = Created(k), !.upload = u, !.parts = ps])
    /\ CreateFile(k)
    /\ Forget({k})
    /\ Goto(r, "assemble")
    /\ UNCHANGED <<metaFile, dirs, used>>

(* The next part in the client's order is opened.  "body" is what           *)
(* acknowledged parts should make of the object.                            *)
OpenPart(r) ==
    /\ pc[r] = "assemble"
    /\ req[r].part = None
    /\ req[r].parts # <<>>
    /\ LET p == <<req[r].upload, Head(req[r].parts)>>
           known == promise[p] \notin {Unknown, Gone}
       IN /\ file[p] # None
          /\ req' = [req EXCEPT ![r].part = p, ![r].from = file[p], ![r].base = req[r].pos,
                                ![r].parts = Tail(@),
                                ![r].alone = @ /\ known,
                                ![r].body = IF known THEN @ \o promise[p].body ELSE @]
    /\ UNCHANGED <<fsVars, pc, promise>>

(* io.CopyBuffer moves one block of it, as it is now, to the object.        *)
PartLeft(r) == req[r].pos - req[r].base < Len(data[req[r].from])

NextOfPart(r) == data[req[r].from][req[r].pos - req[r].base + 1]

(* Mutant: every part is written at the start of the object. *)
CopyPartAtStart(r) ==
    /\ pc[r] = "assemble"
    /\ req[r].part # None
    /\ PartLeft(r)
    /\ data' = [data EXCEPT ![req[r].ino] =
                   WriteAt(@, req[r].pos - req[r].base, <<NextOfPart(r)>>)]
    /\ req' = [req EXCEPT ![r].pos = @ + 1]
    /\ UNCHANGED <<file, metaFile, dirs, used, pc, promise>>

CopyPart(r) ==
    /\ pc[r] = "assemble"
    /\ req[r].part # None
    /\ PartLeft(r)
    /\ data' = [data EXCEPT ![req[r].ino] = WriteAt(@, req[r].pos, <<NextOfPart(r)>>)]
    /\ req' = [req EXCEPT ![r].pos = @ + 1]
    /\ UNCHANGED <<file, metaFile, dirs, used, pc, promise>>

ClosePart(r) ==
    /\ pc[r] = "assemble"
    /\ req[r].part # None
    /\ ~PartLeft(r)
    /\ req' = [req EXCEPT ![r].part = None, ![r].from = None, ![r].base = 0]
    /\ UNCHANGED <<fsVars, pc, promise>>

(* A part is missing or cannot be copied: the error is returned, and the    *)
(* object stays truncated to what was copied before.                        *)
CompletePartFails(r) ==
    /\ pc[r] = "assemble"
    /\ req[r].part # None \/ req[r].parts # <<>>
    /\ Fail(r)
    /\ UNCHANGED fsVars

(* The object is complete, and os.RemoveAll goes over the upload's          *)
(* directory.                                                               *)
CompleteAssembled(r) ==
    LET u == req[r].upload IN
    /\ pc[r] = "assemble"
    /\ req[r].part = None /\ req[r].parts = <<>>
    /\ Begin(r, PartsOf(u), TRUE, NoReq)
    /\ promise' = [p \in Path |-> IF p \in PartsOf(u) THEN Unknown
                                  ELSE IF p = req[r].path /\ req[r].alone THEN Left(r)
                                  ELSE promise[p]]
    /\ Goto(r, "rmall")
    /\ UNCHANGED fsVars

AbortMultipartUpload(r, u) ==
    /\ pc[r] = "idle"
    /\ u \in used
    /\ Begin(r, PartsOf(u), TRUE, NoReq)
    /\ Forget(PartsOf(u))
    /\ Goto(r, "rmall")
    /\ UNCHANGED fsVars

(* ListParts: os.ReadDir gives the files in the order of their names, of    *)
(* which the first max beyond the marker are listed.  A full page counts as *)
(* truncated, whether or not there is more; no marker for the next one is   *)
(* returned.                                                                *)
WithEntry(listed, u, n, max, marker) ==
    IF Len(listed) < max /\ file[<<u, n>>] # None /\ n > marker THEN Append(listed, n)
    ELSE listed

ListedAfter(u, max, marker) ==
    LET listed[i \in Nat] ==
            IF i = 0 THEN <<>> ELSE WithEntry(listed[i - 1], u, NameOrder[i], max, marker)
    IN  listed

ListedParts(u, max, marker) == ListedAfter(u, max, marker)[Len(NameOrder)]

(* Mutant: a page is truncated if it holds more than was asked for. *)
IsTruncatedAbove(u, max, marker) == Len(ListedParts(u, max, marker)) > max

IsTruncated(u, max, marker) == Len(ListedParts(u, max, marker)) >= max

---------------------------------------------------------------------------
(* GetObject and HeadObject: Stat, (Open), read .meta; the body is read     *)
(* from the open file while it is sent to the client.                       *)

Stat(r, k, op) ==
    /\ pc[r] = "idle"
    /\ file[k] # None
    /\ req' = [req EXCEPT ![r] = [NoReq EXCEPT !.op = op, !.on = {k}, !.path = k,
                                     !.size = Len(data[file[k]]), !.want = promise[k]]]
    /\ Goto(r, IF op = "get" THEN "open" ELSE "getmeta")
    /\ UNCHANGED <<fsVars, promise>>

GetObject(r, k) == Stat(r, k, "get")

HeadObject(r, k) == Stat(r, k, "head")

GetOpen(r) ==
    /\ pc[r] = "open"
    /\ \/ /\ file[req[r].path] = None
          /\ Return(r)
       \/ /\ file[req[r].path] # None
          /\ req' = [req EXCEPT ![r].ino = file[req[r].path]]
          /\ Goto(r, "getmeta")
    /\ UNCHANGED <<fsVars, promise>>

(* What json.Unmarshal makes of the .meta file. *)
Metadata(k) == IF metaFile[k] = Blank THEN None ELSE metaFile[k]

GetMeta(r) ==
    /\ pc[r] = "getmeta"
    /\ req' = [req EXCEPT ![r].meta = Metadata(req[r].path)]
    /\ Goto(r, IF req[r].op = "get" THEN "read" ELSE "replied")
    /\ UNCHANGED <<fsVars, promise>>

ReadBlock(r) ==
    /\ pc[r] = "read"
    /\ LET s == data[req[r].ino] IN
       \/ /\ Len(req[r].body) < Len(s)
          /\ req' = [req EXCEPT ![r].body = Append(@, s[Len(@) + 1])]
          /\ UNCHANGED pc
       \/ /\ Len(req[r].body) >= Len(s)
          /\ Goto(r, "replied")
          /\ UNCHANGED req
    /\ UNCHANGED <<fsVars, promise>>

Finish(r) ==
    /\ pc[r] = "replied"
    /\ Return(r)
    /\ UNCHANGED <<fsVars, promise>>

---------------------------------------------------------------------------
(* The process is killed and started again: files stay, requests do not.    *)
Crash ==
    /\ pc' = [r \in Request |-> "idle"]
    /\ req' = [r \in Request |-> NoReq]
    /\ UNCHANGED <<fsVars, promise>>

Change(r) ==
    \/ \E k \in Key : PutObject(r, k) \/ DeleteObject(r, k) \/ DeleteObjectFails(r, k)
    \/ \E u \in Upload, n \in PartNo : UploadPart(r, u, n)
    \/ \E k \in Key, u \in Upload : CompleteMultipartUpload(r, k, u)
    \/ \E u \in Upload : AbortMultipartUpload(r, u)
    \/ CopyBlock(r) \/ CopyDone(r) \/ PutMeta(r) \/ WriteMeta(r) \/ WriteFails(r)
    \/ DeleteMeta(r) \/ DeleteBucket(r)
    \/ RemoveOne(r) \/ RemoveDone(r) \/ RemoveFails(r)
    \/ OpenPart(r) \/ CopyPart(r) \/ ClosePart(r)
    \/ CompletePartFails(r) \/ CompleteAssembled(r)

Look(r) ==
    \/ \E k \in Key : GetObject(r, k) \/ HeadObject(r, k)
    \/ GetOpen(r) \/ GetMeta(r) \/ ReadBlock(r) \/ Finish(r)

Next ==
    \/ \E r \in Request : Change(r) \/ Look(r)
    \/ \E u \in Upload : InitiateMultipartUpload(u)
    \/ Crash

Spec == Init /\ [][Next]_vars

---------------------------------------------------------------------------
(* Properties. *)

(* What an acknowledged request left stays: as long as no other request     *)
(* that changes the object or part has begun, its file holds exactly the    *)
(* body sent (for a multipart upload the acknowledged parts in the client's *)
(* order, unless one was uploaded again while it was copied), its .meta the *)
(* metadata sent with it, and a deleted one is gone, whatever happens to    *)
(* other keys, uploads and readers, and through crashes.                    *)
AcknowledgedIsKept ==
    \A p \in Path :
        /\ promise[p] = Gone => file[p] = None
        /\ promise[p] \notin {Unknown, Gone} =>
              /\ file[p] # None
              /\ data[file[p]] = promise[p].body
              /\ promise[p].meta # None => metaFile[p] = promise[p].meta

(* A GET of an object that is not being changed delivers what was           *)
(* acknowledged, with the length it announced; a delete that comes after    *)
(* the file was opened does not tear it.                                    *)
UndisturbedReadsAreExact ==
    \A r \in Request :
        (pc[r] = "replied" /\ req[r].want \notin {Unknown, Gone}) =>
            /\ req[r].size = Len(req[r].want.body)
            /\ req[r].op = "get" => req[r].body = req[r].want.body
            /\ req[r].want.meta # None => req[r].meta = req[r].want.meta

(* A client that is told a list of parts is complete has every acknowledged *)
(* part beyond its marker in it, although pages go by file names and the    *)
(* marker by numbers; a part that is gone is on no page.                    *)
PartsAreListed ==
    \A u \in Upload, max \in 1 .. MaxParts, marker \in {0} \cup PartNo :
        LET listed == ToSet(ListedParts(u, max, marker)) IN
        \A n \in PartNo :
            /\ promise[<<u, n>>] = Gone => n \notin listed
            /\ (~IsTruncated(u, max, marker) /\ n > marker
                 /\ promise[<<u, n>>] \notin {Gone, Unknown}) => n \in listed

=============================================================================
