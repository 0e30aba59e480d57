---------------------- MODULE FileSystemBackendProofs ----------------------
(***************************************************************************)
(* Proofs about FileSystemBackend: what was acknowledged stays and is in   *)
(* the lists of parts, and reads that nobody disturbs are exact, for any   *)
(* keys, uploads, bodies and concurrent requests.  And about               *)
(* FileSystemListing: a listing loses nothing and repeats nothing but for  *)
(* the causes named, for any paths, page sizes and changes meanwhile.      *)
(*                                                                         *)
(* None of the properties is inductive.  The first rest on who may write   *)
(* to an inode: the files of two paths are different inodes, and whoever   *)
(* holds an inode open holds that of the path it was opened under.  Those  *)
(* of listings rest on the order of the walk: all that is on a page comes  *)
(* before all that is still to be visited, and what is still to be visited *)
(* leads to every object not yet shown, unless the page is full.           *)
(***************************************************************************)
EXTENDS FileSystemBackend, FileSystemListing,
        SequenceTheorems, FiniteSetTheorems, WellFoundedInduction, TLAPS

Ops == {"put", "part", "complete", "delete", "delete_fails", "get", "head"}

Pcs == {"idle", "replied"} \cup Reading \cup Changing

Promise == {Unknown, Gone} \cup LeftType

Local == [op : Ops \cup {None}, on : SUBSET Path, path : Path \cup {None},
          ino : Inode \cup {None}, pos : Nat, body : Seq(Block), meta : Meta \cup {None},
          upload : Upload \cup {None}, parts : Seq(PartNo),
          part : Path \cup {None}, from : Inode \cup {None}, base : Nat,
          alone : BOOLEAN, want : Promise, size : Nat]

TypeOK ==
    /\ file \in [Path -> Inode \cup {None}]
    /\ data \in [Inode -> Seq(Block)]
    /\ metaFile \in [Key -> Meta \cup {None, Blank}]
    /\ dirs \subseteq Upload /\ used \subseteq Upload
    /\ pc \in [Request -> Pcs]
    /\ req \in [Request -> Local]
    /\ promise \in [Path -> Promise]

---------------------------------------------------------------------------
(* The inductive invariant. *)

(* What a request is about, by where it is. *)
Shape(r) ==
    /\ pc[r] = "idle" => req[r].ino = None
    /\ req[r].part # None =>
          pc[r] = "assemble" /\ req[r].from \in Inode /\ req[r].base <= req[r].pos
    /\ req[r].part = None => req[r].from = None
    /\ pc[r] \in {"copy", "meta", "write_meta", "assemble"} =>
          req[r].path \in Path /\ req[r].on = {req[r].path} /\ req[r].ino \in Inode
    /\ pc[r] \in {"meta", "write_meta", "assemble", "del_meta", "replied"} \cup Reading =>
          req[r].path \in Key /\ req[r].on = {req[r].path}
    /\ pc[r] = "copy" /\ req[r].meta # None => req[r].path \in Key
    /\ pc[r] \in {"meta", "write_meta"} =>
          req[r].pos = Len(req[r].body) /\ req[r].meta \in Meta
    /\ pc[r] = "assemble" => req[r].upload \in Upload /\ req[r].meta = None
    /\ pc[r] \in {"del_meta", "rmall"} => req[r].ino = None
    /\ pc[r] = "getmeta" /\ req[r].op = "get" => req[r].ino \in Inode
    /\ pc[r] = "read" => req[r].ino \in Inode /\ req[r].op = "get"

(* Inodes: two paths have two; an open one is that of the path it was       *)
(* opened under, or of none any more.                                       *)
FilesDiffer == \A p, q \in Path : file[p] # None /\ file[p] = file[q] => p = q

HoldersOwn ==
    \A r \in Request : req[r].ino # None =>
        /\ \A p \in Path : file[p] = req[r].ino => p = req[r].path
        /\ \A q \in Request : req[q].ino = req[r].ino => req[q].path = req[r].path

PartsOwn ==
    \A r \in Request : req[r].from # None =>
        /\ \A p \in Path : file[p] = req[r].from => p = req[r].part
        /\ \A q \in Request : req[q].ino = req[r].from => req[q].path = req[r].part

(* History: a request that is alone is, and what is promised is at rest. *)
Works(q, p) == pc[q] \in Changing /\ p \in req[q].on

AloneOK ==
    \A r, q \in Request, p \in Path :
        r # q /\ req[r].alone /\ Works(r, p) => ~Works(q, p)

PromiseIdle ==
    \A p \in Path, q \in Request : promise[p] # Unknown => ~Works(q, p)

(* What a request that is alone has done so far. *)
WriterOK(r) ==
    req[r].alone =>
        /\ pc[r] \in {"copy", "meta", "write_meta", "assemble"} =>
              /\ file[req[r].path] = req[r].ino
              /\ req[r].pos <= Len(req[r].body)
              /\ data[req[r].ino] = SubSeq(req[r].body, 1, req[r].pos)
        /\ pc[r] = "write_meta" => metaFile[req[r].path] = Blank
        /\ pc[r] = "assemble" /\ req[r].part = None => req[r].pos = Len(req[r].body)
        /\ pc[r] = "del_meta" /\ req[r].op = "delete" => file[req[r].path] = None

(* What it copies of a part: the rest of the body it is to write. *)
Writing == {"copy", "assemble"}

CopierOK(r) ==
    (req[r].alone /\ req[r].part # None) =>
        /\ Len(data[req[r].from]) = Len(req[r].body) - req[r].base
        /\ \A j \in 1 .. Len(data[req[r].from]) :
              data[req[r].from][j] = req[r].body[req[r].base + j]
        /\ \A q \in Request : pc[q] \in Writing => req[q].path # req[r].part

(* What a reader with something to expect has seen so far. *)

ReaderOK(r) ==
    (pc[r] \in Reading \cup {"replied"} /\ req[r].want # Unknown) =>
        /\ req[r].want \in LeftType /\ req[r].size = Len(req[r].want.body)
        /\ pc[r] \in {"open", "getmeta"} =>
              promise[req[r].path] = req[r].want /\ req[r].body = <<>>
        /\ pc[r] = "getmeta" /\ req[r].op = "get" => req[r].ino = file[req[r].path]
        /\ pc[r] = "read" =>
              /\ data[req[r].ino] = req[r].want.body
              /\ Len(req[r].body) <= Len(req[r].want.body)
              /\ req[r].body = SubSeq(req[r].want.body, 1, Len(req[r].body))
              /\ \A q \in Request : pc[q] \in Writing => req[q].path # req[r].path
        /\ pc[r] \in {"read", "replied"} /\ req[r].want.meta # None =>
              req[r].meta = req[r].want.meta
        /\ pc[r] = "replied" /\ req[r].op = "get" => req[r].body = req[r].want.body

(* What is promised of one path; only objects have metadata. *)
Kept(p, left) ==
    /\ left = Gone => file[p] = None
    /\ left \notin {Unknown, Gone} =>
          /\ file[p] # None
          /\ data[file[p]] = left.body
          /\ left.meta # None => p \in Key /\ metaFile[p] = left.meta

AllKept == \A p \in Path : Kept(p, promise[p])

InodeInv == FilesDiffer /\ HoldersOwn /\ PartsOwn
HistoryInv == AloneOK /\ PromiseIdle
Locals == \A r \in Request : Shape(r) /\ WriterOK(r) /\ CopierOK(r) /\ ReaderOK(r)

IInv == TypeOK /\ InodeInv /\ HistoryInv /\ Locals /\ AllKept

---------------------------------------------------------------------------
(* Inodes. *)

(* An inode is a path or a spare one; None is neither. *)
LEMMA Basics ==
    /\ Key \subseteq Path /\ Path \subseteq Inode /\ None \notin Inode /\ None \notin Path
    /\ None \notin Meta /\ Blank \notin Meta \cup {None} /\ Unknown # Gone /\ Unknown \notin LeftType /\ Gone \notin LeftType
    /\ \A u \in Upload : PartsOf(u) \subseteq Path /\ PartsOf(u) \cap Key = {}
    /\ NoReq \in Local
  BY NoneAssumption, NameAssumption, EmptySeq
  DEF Path, Inode, PartsOf, Part, NoReq, Local, Promise

(* There are more inodes than paths and requests, so that os.Create finds   *)
(* a free one.                                                              *)
LEMMA FreeInodeExists ==
    ASSUME TypeOK, NEW p \in Path, file[p] = None
    PROVE  \E i \in Inode : i \notin Live
<1> DEFINE others == Path \ {p}
           occupied == {file[q] : q \in others}
           held == {req[q].ino : q \in Request}
           copied == {req[q].from : q \in Request}
<1>1. IsFiniteSet(others) /\ Cardinality(others) = Cardinality(Path) - 1
  BY InodeAssumption, FS_RemoveElement
<1>2. IsFiniteSet(occupied) /\ Cardinality(occupied) <= Cardinality(others)
  <2> DEFINE f == [q \in others |-> file[q]]
  <2>1. f \in Surjection(others, occupied)
    BY DEF Surjection
  <2> HIDE DEF occupied, others, f
  <2> QED BY <1>1, <2>1, FS_Surjection
<1>3. IsFiniteSet(held) /\ Cardinality(held) <= Cardinality(Request)
  <2> DEFINE f == [q \in Request |-> req[q].ino]
  <2>1. f \in Surjection(Request, held)
    BY DEF Surjection
  <2> HIDE DEF held, f
  <2> QED BY <2>1, InodeAssumption, FS_Surjection
<1>4. Live \subseteq (occupied \cup held) \cup copied
  BY NoneAssumption DEF Live
<1>9. IsFiniteSet(copied) /\ Cardinality(copied) <= Cardinality(Request)
  <2> DEFINE f == [q \in Request |-> req[q].from]
  <2>1. f \in Surjection(Request, copied)
    BY DEF Surjection
  <2> HIDE DEF copied, f
  <2> QED BY <2>1, InodeAssumption, FS_Surjection
<1> HIDE DEF others, occupied, held, copied
<1>5. /\ IsFiniteSet(Path \cup Spare)
      /\ Cardinality(Path \cup Spare) = Cardinality(Path) + Cardinality(Spare)
  <2>1. Path \cap Spare = {}
    BY InodeAssumption
  <2>2. Cardinality(Path \cap Spare) = 0
    BY <2>1, FS_EmptySet
  <2>3. /\ IsFiniteSet(Path \cup Spare)
        /\ Cardinality(Path \cup Spare) =
              Cardinality(Path) + Cardinality(Spare) - Cardinality(Path \cap Spare)
    BY InodeAssumption, FS_Union
  <2>4. Cardinality(Path) \in Nat /\ Cardinality(Spare) \in Nat
    BY InodeAssumption, FS_CardinalityType
  <2> QED BY <2>2, <2>3, <2>4
<1>6. /\ IsFiniteSet(occupied \cup held)
      /\ Cardinality(occupied \cup held) <= Cardinality(occupied) + Cardinality(held)
  <2>1. /\ IsFiniteSet(occupied \cup held) /\ IsFiniteSet(occupied \cap held)
        /\ Cardinality(occupied \cup held) =
              Cardinality(occupied) + Cardinality(held) - Cardinality(occupied \cap held)
    BY <1>2, <1>3, FS_Union, FS_Intersection
  <2> QED BY <1>2, <1>3, <2>1, FS_CardinalityType
<1>10. /\ IsFiniteSet((occupied \cup held) \cup copied)
       /\ Cardinality((occupied \cup held) \cup copied) <=
             Cardinality(occupied \cup held) + Cardinality(copied)
  <2> DEFINE both == occupied \cup held
  <2> HIDE DEF both
  <2>1. IsFiniteSet(both)
    BY <1>6 DEF both
  <2>2. /\ IsFiniteSet(both \cup copied) /\ IsFiniteSet(both \cap copied)
        /\ Cardinality(both \cup copied) =
              Cardinality(both) + Cardinality(copied) - Cardinality(both \cap copied)
    BY <2>1, <1>9, FS_Union, FS_Intersection
  <2>3. /\ IsFiniteSet(both \cup copied)
        /\ Cardinality(both \cup copied) <= Cardinality(both) + Cardinality(copied)
    BY <1>9, <2>1, <2>2, FS_CardinalityType
  <2> QED BY <2>3 DEF both
<1>7. /\ Cardinality(Path) \in Nat /\ Cardinality(Spare) \in Nat /\ Cardinality(Request) \in Nat
      /\ Cardinality(occupied) \in Nat /\ Cardinality(held) \in Nat
      /\ Cardinality(occupied \cup held) \in Nat /\ Cardinality(copied) \in Nat
      /\ Cardinality((occupied \cup held) \cup copied) \in Nat
  BY <1>2, <1>3, <1>6, <1>9, <1>10, InodeAssumption, FS_CardinalityType
<1> SUFFICES ASSUME Path \cup Spare \subseteq (occupied \cup held) \cup copied PROVE FALSE
  BY <1>4 DEF Inode
<1>8. Cardinality(Path \cup Spare) <= Cardinality((occupied \cup held) \cup copied)
  BY <1>10, FS_Subset
<1>11. Cardinality(Spare) >= 2 * Cardinality(Request)
  BY InodeAssumption
<1> QED BY <1>1, <1>2, <1>3, <1>5, <1>6, <1>7, <1>8, <1>9, <1>10, <1>11

(* os.Create gives the path its own inode: the one it has, or one nobody    *)
(* has.                                                                     *)
LEMMA CreatedLemma ==
    ASSUME TypeOK, InodeInv, NEW p \in Path
    PROVE  /\ Created(p) \in Inode
           /\ \A q \in Path : file[q] = Created(p) => q = p
           /\ \A r \in Request : req[r].ino = Created(p) => req[r].path = p
           /\ \A r \in Request : req[r].from = Created(p) => req[r].part = p
<1>1. CASE file[p] # None
  BY <1>1 DEF Created, TypeOK, InodeInv, FilesDiffer, HoldersOwn, PartsOwn
<1>2. CASE file[p] = None
  <2>1. Created(p) \in Inode /\ Created(p) \notin Live
    <3>1. \E i \in Inode : i \notin Live
      BY <1>2, FreeInodeExists
    <3> QED BY <1>2, <3>1, Basics DEF Created, FreeInode
  <2> QED BY <2>1 DEF Live
<1> QED BY <1>1, <1>2

---------------------------------------------------------------------------
(* Frames: a request whose own step it is not keeps its locals, but may     *)
(* lose its claims.                                                         *)

Same(q) ==
    /\ pc'[q] = pc[q]
    /\ req'[q].op = req[q].op /\ req'[q].on = req[q].on /\ req'[q].path = req[q].path
    /\ req'[q].ino = req[q].ino /\ req'[q].pos = req[q].pos /\ req'[q].body = req[q].body
    /\ req'[q].meta = req[q].meta /\ req'[q].upload = req[q].upload
    /\ req'[q].size = req[q].size /\ req'[q].part = req[q].part
    /\ req'[q].from = req[q].from /\ req'[q].base = req[q].base
    /\ req'[q].alone => req[q].alone
    /\ req'[q].want # Unknown => req'[q].want = req[q].want

(* A request that loses a claim at most is the same. *)
LEMMA SameLemma ==
    ASSUME NEW q, pc'[q] = pc[q], req[q] \in Local,
           \/ req'[q] = req[q]
           \/ req'[q] = [req[q] EXCEPT !.alone = FALSE, !.want = Unknown]
    PROVE  Same(q) /\ req'[q] \in Local
  BY DEF Same, Local, Promise

(* What a request is about depends on its locals only. *)
LEMMA ShapeFrame ==
    ASSUME NEW q, Shape(q), Same(q)
    PROVE  Shape(q)'
  BY DEF Shape, Same

(* A writer's claim rests on its path's file and the content of its inode.  *)
LEMMA WriterFrame ==
    ASSUME NEW q, WriterOK(q), Same(q),
           req'[q].alone =>
              /\ pc[q] \in {"copy", "meta", "write_meta", "assemble", "del_meta"} =>
                    file'[req[q].path] = file[req[q].path]
              /\ pc[q] \in {"copy", "meta", "write_meta", "assemble"} =>
                    data'[req[q].ino] = data[req[q].ino]
              /\ pc[q] = "write_meta" => metaFile'[req[q].path] = metaFile[req[q].path]
    PROVE  WriterOK(q)'
  BY DEF WriterOK, Same

(* What a copier expects rests on the content of the part it has open, and  *)
(* on nobody starting to write to that.                                     *)
LEMMA CopierFrame ==
    ASSUME NEW q, CopierOK(q), Same(q),
           req'[q].alone /\ req[q].part # None =>
              /\ data'[req[q].from] = data[req[q].from]
              /\ \A o \in Request : pc'[o] \in Writing =>
                    \/ req'[o].path # req[q].part
                    \/ pc[o] \in Writing /\ req'[o].path = req[o].path
    PROVE  CopierOK(q)'
  BY DEF CopierOK, Same

(* A reader's claim rests on the promise and the file of its path before    *)
(* that is open, then on the content of its inode.                          *)
LEMMA ReaderFrame ==
    ASSUME NEW q, ReaderOK(q), Same(q),
           pc[q] \in Reading /\ req'[q].want # Unknown =>
              /\ pc[q] \in {"open", "getmeta"} =>
                    /\ promise'[req[q].path] = promise[req[q].path]
                    /\ file'[req[q].path] = file[req[q].path]
              /\ pc[q] = "read" =>
                    /\ data'[req[q].ino] = data[req[q].ino]
                    /\ \A o \in Request : pc'[o] \in Writing =>
                          \/ req'[o].path # req[q].path
                          \/ pc[o] \in Writing /\ req'[o].path = req[o].path
    PROVE  ReaderOK(q)'
  BY DEF ReaderOK, Same, Reading

(* That of every path is AcknowledgedIsKept. *)
LEMMA KeptIs == AllKept => AcknowledgedIsKept
  BY DEF AllKept, AcknowledgedIsKept, Kept

(* ... and is kept where promise, file, content and metadata are.           *)
LEMMA KeptFrame ==
    ASSUME NEW p \in Path, Kept(p, promise[p]),
           promise'[p] # Unknown =>
              /\ promise'[p] = promise[p] /\ file'[p] = file[p]
              /\ file[p] # None => data'[file[p]] = data[file[p]]
              /\ p \in Key => metaFile'[p] = metaFile[p]
    PROVE  Kept(p, promise[p])'
  BY Basics DEF Kept

---------------------------------------------------------------------------
(* A request that changes the files ps begins. *)

(* What a request that begins with ps leaves elsewhere, pr. *)
Leaves(r, ps, pr) ==
    /\ pr \in [Path -> Promise]
    /\ promise' = [p \in Path |-> IF p \in ps THEN Unknown ELSE pr[p]]
    /\ \A p \in Path : pr[p] # promise[p] =>
          /\ promise[p] = Unknown /\ Kept(p, pr[p])
          /\ \A q \in Request : q # r => ~Works(q, p)

(* That is nothing new for one that just begins. *)
LEMMA ForgetLeaves ==
    ASSUME TypeOK, NEW r, NEW ps, Forget(ps)
    PROVE  Leaves(r, ps, promise)
  BY DEF Leaves, Forget, TypeOK

(* Everybody at work on ps loses its claims, and what was promised of ps    *)
(* lapses.                                                                  *)
LEMMA BeginFacts ==
    ASSUME TypeOK, HistoryInv, NEW r \in Request, NEW ps \in SUBSET Path, NEW unlink \in BOOLEAN,
           NEW new \in Local, NEW l \in Changing, NEW pr,
           Begin(r, ps, unlink, new), Leaves(r, ps, pr), Goto(r, l)
    PROVE  /\ req' \in [Request -> Local] /\ promise' \in [Path -> Promise]
           /\ pc' \in [Request -> Pcs] /\ pc'[r] = l
           /\ \E a \in BOOLEAN : req'[r] = [new EXCEPT !.on = ps, !.alone = a]
           /\ \A q \in Request : q # r => Same(q)
           /\ \A q \in Request : q # r /\ req[q].on \cap ps # {} =>
                 /\ pc[q] \in Changing => ~req'[q].alone
                 /\ pc[q] \in {"open", "getmeta"} => req'[q].want = Unknown
                 /\ pc[q] = "read" /\ ~unlink => req'[q].want = Unknown
           /\ \A q \in Request : q # r /\ req[q].part \in ps /\ ~unlink => ~req'[q].alone
           /\ \A p \in Path : promise'[p] = IF p \in ps THEN Unknown ELSE pr[p]
           /\ HistoryInv'
<1> DEFINE a == \A o \in Request \ {r} : ~(pc[o] \in Changing /\ req[o].on \cap ps # {})
           new2 == [new EXCEPT !.on = ps, !.alone = a]
<1>1. /\ pc' \in [Request -> Pcs] /\ pc'[r] = l
      /\ \A q \in Request : q # r => pc'[q] = pc[q]
  BY DEF TypeOK, Goto, Pcs
<1>2. new2 \in Local /\ new2.on = ps /\ new2.alone = a /\ req'[r] = new2
  <2>1. req'[r] = new2
    BY DEF Begin
  <2>2. \A z \in BOOLEAN : LET n == [new EXCEPT !.on = ps, !.alone = z]
                           IN  n \in Local /\ n.on = ps /\ n.alone = z
    BY DEF Local
  <2>3. a \in BOOLEAN
    OBVIOUS
  <2> HIDE DEF a
  <2> QED BY <2>1, <2>2, <2>3
<1>3. \A q \in Request : q # r =>
         req'[q] = IF Disturbed(q, ps, unlink)
                   THEN [req[q] EXCEPT !.alone = FALSE, !.want = Unknown] ELSE req[q]
  BY DEF Begin
<1>4. DOMAIN req' = Request /\ req' = [q \in Request |-> req'[q]]
  BY DEF Begin
<1>5. \A q \in Request : req[q] \in Local
  BY DEF TypeOK
<1>6. ASSUME NEW q \in Request, q # r PROVE Same(q) /\ req'[q] \in Local
  BY <1>1, <1>3, <1>5, <1>6, SameLemma
<1>7. req' \in [Request -> Local]
  BY <1>2, <1>4, <1>6
<1>8. ASSUME NEW q \in Request, q # r, Disturbed(q, ps, unlink)
      PROVE  ~req'[q].alone /\ req'[q].want = Unknown
  BY <1>3, <1>5, <1>8 DEF Local
<1>9. /\ promise' \in [Path -> Promise]
      /\ \A p \in Path : promise'[p] = IF p \in ps THEN Unknown ELSE pr[p]
      /\ \A p \in Path : pr[p] # promise[p] => \A q \in Request : q # r => ~Works(q, p)
  BY DEF Leaves, Promise
<1>10. \A q \in Request : q # r /\ req[q].on \cap ps # {} =>
         /\ pc[q] \in Changing => ~req'[q].alone
         /\ pc[q] \in {"open", "getmeta"} => req'[q].want = Unknown
         /\ pc[q] = "read" /\ ~unlink => req'[q].want = Unknown
  BY <1>8 DEF Disturbed, Reading
<1>16. \A q \in Request : q # r /\ req[q].part \in ps /\ ~unlink => ~req'[q].alone
  BY <1>8 DEF Disturbed
<1>11. \A q \in Request, p \in Path : q # r => (Works(q, p)' <=> Works(q, p))
  BY <1>6 DEF Works, Same
<1>12. \A p \in Path : Works(r, p)' <=> p \in ps
  BY <1>1, <1>2 DEF Works
<1> HIDE DEF new2
<1>13. AloneOK'
  <2> SUFFICES ASSUME NEW b \in Request, NEW c \in Request, NEW p \in Path, b # c,
                      req'[b].alone, Works(b, p)', Works(c, p)'
               PROVE  FALSE
    BY DEF AloneOK
  <2>1. CASE b = r
    BY <1>2, <1>11, <1>12, <2>1 DEF Works
  <2>2. CASE c = r
    BY <1>10, <1>11, <1>12, <2>2 DEF Works
  <2>3. CASE b # r /\ c # r
    BY <1>6, <1>11, <2>3 DEF HistoryInv, AloneOK, Same
  <2> QED BY <2>1, <2>2, <2>3
<1>14. PromiseIdle'
  BY <1>9, <1>11, <1>12 DEF HistoryInv, PromiseIdle
<1>15. \E b \in BOOLEAN : req'[r] = [new EXCEPT !.on = ps, !.alone = b]
  BY <1>2 DEF new2
<1> HIDE DEF a
<1> QED BY <1>1, <1>6, <1>7, <1>9, <1>10, <1>13, <1>14, <1>15, <1>16 DEF HistoryInv

(* A request that creates the file of its path. *)
LEMMA CreateStep ==
    ASSUME IInv, NEW r \in Request, NEW p \in Path, NEW l \in Writing, NEW new \in Local,
           pc[r] = "idle", new.path = p, new.ino = Created(p), new.pos = 0, new.want = Unknown,
           new.part = None, new.from = None,
           l = "copy" /\ new.meta # None => p \in Key,
           l = "assemble" => /\ p \in Key /\ new.upload \in Upload
                             /\ new.meta = None /\ new.body = <<>>,
           Begin(r, {p}, FALSE, new), CreateFile(p), Forget({p}), Goto(r, l),
           UNCHANGED <<metaFile, dirs, used>>
    PROVE  IInv'
<1> DEFINE i == Created(p)
<1>1. TypeOK /\ InodeInv /\ HistoryInv /\ Locals /\ AllKept /\ l \in Changing
  BY DEF IInv, Writing, Changing
<1>2. /\ i \in Inode /\ \A q \in Path : file[q] = i => q = p
      /\ \A q \in Request : req[q].ino = i => req[q].path = p
      /\ \A q \in Request : req[q].from = i => req[q].part = p
  BY <1>1, CreatedLemma
<1>3. /\ req' \in [Request -> Local] /\ promise' \in [Path -> Promise]
      /\ pc' \in [Request -> Pcs] /\ pc'[r] = l
      /\ \E a \in BOOLEAN : req'[r] = [new EXCEPT !.on = {p}, !.alone = a]
      /\ \A q \in Request : q # r => Same(q)
      /\ \A q \in Request : q # r /\ req[q].on \cap {p} # {} =>
            /\ pc[q] \in Changing => ~req'[q].alone
            /\ pc[q] \in {"open", "getmeta"} => req'[q].want = Unknown
            /\ pc[q] = "read" /\ ~FALSE => req'[q].want = Unknown
      /\ \A q \in Request : q # r /\ req[q].part \in {p} /\ ~FALSE => ~req'[q].alone
      /\ \A q \in Path : promise'[q] = IF q \in {p} THEN Unknown ELSE promise[q]
      /\ HistoryInv'
  <2>1. {p} \in SUBSET Path /\ FALSE \in BOOLEAN /\ Leaves(r, {p}, promise)
    BY <1>1, ForgetLeaves
  <2> QED BY <1>1, <2>1, BeginFacts, ZenonT(60)
<1> HIDE DEF i
<1>4. /\ req'[r].path = p /\ req'[r].ino = i /\ req'[r].pos = 0 /\ req'[r].want = Unknown
      /\ req'[r].on = {p} /\ req'[r].meta = new.meta /\ req'[r].body = new.body
      /\ req'[r].upload = new.upload /\ new.body \in Seq(Block)
      /\ req'[r].part = None /\ req'[r].from = None
  BY <1>3 DEF Local, i
<1>5. /\ file' \in [Path -> Inode \cup {None}] /\ file'[p] = i
      /\ \A q \in Path : q # p => file'[q] = file[q]
      /\ data' \in [Inode -> Seq(Block)] /\ data'[i] = <<>>
      /\ \A j \in Inode : j # i => data'[j] = data[j]
  BY <1>1, <1>2 DEF TypeOK, CreateFile, i
<1>6. TypeOK'
  BY <1>1, <1>3, <1>5 DEF TypeOK
<1>7. InodeInv'
  <2>1. FilesDiffer'
    BY <1>1, <1>2, <1>5, <1>6 DEF InodeInv, FilesDiffer
  <2>2. \A q \in Request : q # r => /\ req'[q].ino = req[q].ino /\ req'[q].path = req[q].path
                                   /\ req'[q].from = req[q].from /\ req'[q].part = req[q].part
    BY <1>3 DEF Same
  <2>4. PartsOwn'
    <3> SUFFICES ASSUME NEW x \in Request, req'[x].from # None
                 PROVE  /\ \A q \in Path : file'[q] = req'[x].from => q = req'[x].part
                        /\ \A q \in Request : req'[q].ino = req'[x].from => req'[q].path = req'[x].part
      BY DEF PartsOwn
    <3>1. x # r /\ req'[x].from = req[x].from /\ req'[x].part = req[x].part
      BY <1>4, <2>2
    <3>2. \A q \in Path : file[q] = req[x].from => q = req[x].part
      BY <1>1, <3>1 DEF InodeInv, PartsOwn
    <3>3. \A q \in Request : req[q].ino = req[x].from => req[q].path = req[x].part
      BY <1>1, <3>1 DEF InodeInv, PartsOwn
    <3>4. \A q \in Path : file'[q] = req[x].from => q = req[x].part
      BY <1>2, <1>5, <3>2
    <3>5. \A q \in Request : req'[q].ino = req[x].from => req'[q].path = req[x].part
      BY <1>2, <1>4, <2>2, <3>3
    <3> QED BY <3>1, <3>4, <3>5
  <2>5. \A q \in Request : q # r => req'[q].ino = req[q].ino /\ req'[q].path = req[q].path
    BY <2>2
  <2>3. HoldersOwn'
    <3> SUFFICES ASSUME NEW x \in Request, req'[x].ino # None
                 PROVE  /\ \A q \in Path : file'[q] = req'[x].ino => q = req'[x].path
                        /\ \A q \in Request : req'[q].ino = req'[x].ino => req'[q].path = req'[x].path
      BY DEF HoldersOwn
    <3>1. req'[r].ino = i /\ req'[r].path = p
      BY <1>4
    <3>2. CASE x = r
      BY <1>2, <1>5, <2>5, <3>1, <3>2
    <3>3. CASE x # r
      <4>1. /\ \A q \in Path : file[q] = req[x].ino => q = req[x].path
            /\ \A q \in Request : req[q].ino = req[x].ino => req[q].path = req[x].path
            /\ req[x].ino = i => req[x].path = p
        BY <1>1, <1>2, <2>5, <3>3 DEF InodeInv, HoldersOwn
      <4> QED BY <1>5, <2>5, <3>1, <3>3, <4>1
    <3> QED BY <3>2, <3>3
  <2> QED BY <2>1, <2>3, <2>4 DEF InodeInv
<1>8. ASSUME NEW q \in Request, q # r PROVE (Shape(q) /\ WriterOK(q) /\ CopierOK(q) /\ ReaderOK(q))'
  <2>1. Shape(q) /\ WriterOK(q) /\ CopierOK(q) /\ ReaderOK(q) /\ Same(q) /\ req[q].ino \in Inode \cup {None}
    BY <1>1, <1>3, <1>8 DEF Locals, TypeOK, Local
  <2>8. CopierOK(q)'
    <3> SUFFICES ASSUME req'[q].alone, req[q].part # None
                 PROVE  /\ data'[req[q].from] = data[req[q].from]
                        /\ \A o \in Request : pc'[o] \in Writing =>
                              \/ req'[o].path # req[q].part
                              \/ pc[o] \in Writing /\ req'[o].path = req[o].path
      BY <2>1, CopierFrame
    <3>1. req[q].part # p /\ req[q].from \in Inode
      BY <1>3, <1>8, <2>1 DEF Shape
    <3>2. ASSUME NEW o \in Request, pc'[o] \in Writing
          PROVE  \/ req'[o].path # req[q].part
                 \/ pc[o] \in Writing /\ req'[o].path = req[o].path
      <4>1. CASE o = r
        BY <1>4, <3>1, <4>1
      <4>2. CASE o # r
        BY <1>3, <3>2, <4>2 DEF Same
      <4> QED BY <4>1, <4>2
    <3> QED BY <1>2, <1>5, <3>1, <3>2
  <2>2. Shape(q)'
    BY <2>1, ShapeFrame
  <2>3. pc[q] \in {"copy", "meta", "write_meta", "assemble", "del_meta"} \cup Reading =>
           req[q].on = {req[q].path} /\ req[q].path \in Path
    BY <2>1, Basics DEF Shape
  <2>4. /\ req'[q].alone /\ pc[q] \in {"copy", "meta", "write_meta", "assemble", "del_meta"} =>
              req[q].path # p
        /\ pc[q] \in Reading /\ req'[q].want # Unknown => req[q].path # p
    BY <1>3, <1>8, <2>3 DEF Changing, Reading
  <2>5. pc[q] \in {"copy", "meta", "write_meta", "assemble", "read"} => req[q].ino \in Inode
    BY <2>1 DEF Shape
  <2>6. WriterOK(q)'
    BY <1>2, <1>5, <2>1, <2>3, <2>4, <2>5, WriterFrame
  <2>7. ReaderOK(q)'
    <3>1. pc[q] \in {"open", "getmeta"} /\ req'[q].want # Unknown =>
             promise'[req[q].path] = promise[req[q].path] /\ file'[req[q].path] = file[req[q].path]
      BY <1>3, <1>5, <2>3, <2>4 DEF Reading
    <3>2. ASSUME pc[q] = "read", req'[q].want # Unknown, NEW o \in Request, pc'[o] \in Writing
          PROVE  \/ req'[o].path # req[q].path
                 \/ pc[o] \in Writing /\ req'[o].path = req[o].path
      <4>1. CASE o = r
        BY <1>4, <2>4, <3>2, <4>1 DEF Reading
      <4>2. CASE o # r
        BY <1>3, <3>2, <4>2 DEF Same
      <4> QED BY <4>1, <4>2
    <3>3. pc[q] = "read" /\ req'[q].want # Unknown => data'[req[q].ino] = data[req[q].ino]
      BY <1>2, <1>5, <2>4, <2>5 DEF Reading
    <3> QED BY <2>1, <3>1, <3>2, <3>3, ReaderFrame
  <2> QED BY <2>2, <2>6, <2>7, <2>8
<1>9. (Shape(r) /\ WriterOK(r) /\ CopierOK(r) /\ ReaderOK(r))'
  <2>1. Shape(r)'
    BY <1>2, <1>3, <1>4, Basics DEF Shape, Writing, Reading
  <2>2. WriterOK(r)'
    <3>1. SubSeq(new.body, 1, 0) = <<>> /\ Len(new.body) \in Nat /\ Len(<<>>) = 0
      BY <1>4, SubSeqEmpty, LenProperties, EmptySeq
    <3>2. /\ pc'[r] \in {"copy", "assemble"} /\ file'[req'[r].path] = req'[r].ino
          /\ data'[req'[r].ino] = <<>> /\ req'[r].pos = 0 /\ 0 <= Len(req'[r].body)
          /\ SubSeq(req'[r].body, 1, 0) = <<>>
          /\ pc'[r] = "assemble" => req'[r].body = <<>>
      BY <1>3, <1>4, <1>5, <3>1 DEF Writing
    <3> QED BY <3>1, <3>2 DEF WriterOK
  <2>3. ReaderOK(r)' /\ CopierOK(r)'
    BY <1>4 DEF ReaderOK, CopierOK
  <2> QED BY <2>1, <2>2, <2>3
<1>10. ASSUME NEW q \in Path PROVE Kept(q, promise[q])'
  <2>1. promise'[q] # Unknown => /\ promise'[q] = promise[q] /\ file'[q] = file[q]
                                 /\ file[q] # None => data'[file[q]] = data[file[q]]
    BY <1>1, <1>2, <1>3, <1>5 DEF TypeOK
  <2> QED BY <1>1, <2>1, KeptFrame DEF AllKept
<1> QED BY <1>3, <1>6, <1>7, <1>8, <1>9, <1>10 DEF IInv, Locals, AllKept

(* A request that removes files begins: whoever reads an open one goes on.  *)
LEMMA RemoveBegins ==
    ASSUME IInv, NEW r \in Request, NEW ps \in SUBSET Path, NEW us \in SUBSET ps,
           NEW l \in {"del_meta", "rmall"}, NEW new \in Local, NEW pr,
           new.ino = None, new.want = Unknown, new.part = None, new.from = None,
           l = "del_meta" => new.path \in Key /\ ps = {new.path} /\ (new.op = "delete" => us = ps),
           Begin(r, ps, TRUE, new), Leaves(r, ps, pr), Goto(r, l),
           file' = [p \in Path |-> IF p \in us THEN None ELSE file[p]],
           UNCHANGED <<data, metaFile, dirs, used>>
    PROVE  IInv'
<1>1. TypeOK /\ InodeInv /\ HistoryInv /\ Locals /\ AllKept /\ l \in Changing /\ TRUE \in BOOLEAN
  BY DEF IInv, Changing
<1>2. /\ req' \in [Request -> Local] /\ promise' \in [Path -> Promise]
      /\ pc' \in [Request -> Pcs] /\ pc'[r] = l
      /\ \E a \in BOOLEAN : req'[r] = [new EXCEPT !.on = ps, !.alone = a]
      /\ \A q \in Request : q # r => Same(q)
      /\ \A q \in Request : q # r /\ req[q].on \cap ps # {} =>
            /\ pc[q] \in Changing => ~req'[q].alone
            /\ pc[q] \in {"open", "getmeta"} => req'[q].want = Unknown
            /\ pc[q] = "read" /\ ~TRUE => req'[q].want = Unknown
      /\ \A q \in Request : q # r /\ req[q].part \in ps /\ ~TRUE => ~req'[q].alone
      /\ \A q \in Path : promise'[q] = IF q \in ps THEN Unknown ELSE pr[q]
      /\ HistoryInv'
  BY <1>1, BeginFacts, ZenonT(60)
<1>3. /\ req'[r].path = new.path /\ req'[r].ino = None /\ req'[r].want = Unknown
      /\ req'[r].on = ps /\ req'[r].op = new.op /\ req'[r].part = None /\ req'[r].from = None
  BY <1>2 DEF Local
<1>10. \A q \in Path : pr[q] # promise[q] => promise[q] = Unknown /\ Kept(q, pr[q])
  BY DEF Leaves
<1>4. /\ file' \in [Path -> Inode \cup {None}]
      /\ \A q \in us : file'[q] = None
      /\ \A q \in Path : q \notin us => file'[q] = file[q]
      /\ \A q \in Path : file'[q] # None => file'[q] = file[q]
  BY <1>1 DEF TypeOK
<1>5. TypeOK'
  BY <1>1, <1>2, <1>4 DEF TypeOK
<1>6. InodeInv'
  <2>1. FilesDiffer'
    BY <1>1, <1>4 DEF InodeInv, FilesDiffer
  <2>2. /\ \A q \in Request : q # r => /\ req'[q].ino = req[q].ino /\ req'[q].path = req[q].path
                                      /\ req'[q].from = req[q].from /\ req'[q].part = req[q].part
        /\ req'[r].ino = None /\ req'[r].from = None
    BY <1>2, <1>3 DEF Same
  <2>3. HoldersOwn'
    BY <1>1, <1>4, <2>2 DEF InodeInv, HoldersOwn
  <2>4. PartsOwn'
    BY <1>1, <1>4, <2>2 DEF InodeInv, PartsOwn
  <2> QED BY <2>1, <2>3, <2>4 DEF InodeInv
<1>7. ASSUME NEW q \in Request, q # r PROVE (Shape(q) /\ WriterOK(q) /\ CopierOK(q) /\ ReaderOK(q))'
  <2>1. Shape(q) /\ WriterOK(q) /\ CopierOK(q) /\ ReaderOK(q) /\ Same(q)
    BY <1>1, <1>2, <1>7 DEF Locals
  <2>2. Shape(q)'
    BY <2>1, ShapeFrame
  <2>3. pc[q] \in {"copy", "meta", "write_meta", "assemble", "del_meta"} \cup Reading =>
           req[q].on = {req[q].path} /\ req[q].path \in Path
    BY <2>1, Basics DEF Shape
  <2>4. /\ req'[q].alone /\ pc[q] \in {"copy", "meta", "write_meta", "assemble", "del_meta"} =>
              req[q].path \notin ps
        /\ pc[q] \in {"open", "getmeta"} /\ req'[q].want # Unknown => req[q].path \notin ps
    BY <1>2, <1>7, <2>3 DEF Changing, Reading
  <2>5. WriterOK(q)'
    BY <1>4, <2>1, <2>3, <2>4, WriterFrame
  <2>7. ASSUME NEW o \in Request, pc'[o] \in Writing
        PROVE  pc[o] \in Writing /\ req'[o].path = req[o].path
    BY <1>2, <2>7 DEF Same, Writing
  <2>6. ReaderOK(q)'
    <3>1. pc[q] \in {"open", "getmeta"} /\ req'[q].want # Unknown =>
             promise'[req[q].path] = promise[req[q].path] /\ file'[req[q].path] = file[req[q].path]
      <4> SUFFICES ASSUME pc[q] \in {"open", "getmeta"}, req'[q].want # Unknown
                   PROVE  /\ promise'[req[q].path] = promise[req[q].path]
                          /\ file'[req[q].path] = file[req[q].path]
        OBVIOUS
      <4>1. promise[req[q].path] # Unknown
        BY <2>1 DEF ReaderOK, Reading, Same
      <4> QED BY <1>2, <1>4, <1>10, <2>3, <2>4, <4>1 DEF Reading
    <3> QED BY <2>1, <2>7, <3>1, ReaderFrame
  <2>8. CopierOK(q)'
    BY <2>1, <2>7, CopierFrame
  <2> QED BY <2>2, <2>5, <2>6, <2>8
<1>8. (Shape(r) /\ WriterOK(r) /\ CopierOK(r) /\ ReaderOK(r))'
  <2>1. Shape(r)'
    BY <1>2, <1>3 DEF Shape, Reading
  <2>2. WriterOK(r)'
    BY <1>2, <1>3, <1>4 DEF WriterOK
  <2>3. ReaderOK(r)' /\ CopierOK(r)'
    BY <1>3 DEF ReaderOK, CopierOK
  <2> QED BY <2>1, <2>2, <2>3
<1>9. ASSUME NEW q \in Path PROVE Kept(q, promise[q])'
  <2>1. promise'[q] # Unknown => promise'[q] = pr[q] /\ file'[q] = file[q] /\ Kept(q, pr[q])
    BY <1>1, <1>2, <1>4, <1>10 DEF AllKept
  <2> QED BY <2>1, Basics DEF Kept
<1> QED BY <1>2, <1>5, <1>6, <1>7, <1>8, <1>9 DEF IInv, Locals, AllKept

(* Nothing is gone yet when os.RemoveAll begins. *)
LEMMA RemoveAllBegins ==
    ASSUME IInv, NEW r \in Request, NEW ps \in SUBSET Path, NEW pr,
           Begin(r, ps, TRUE, NoReq), Leaves(r, ps, pr), Goto(r, "rmall"),
           UNCHANGED <<file, data, metaFile, dirs, used>>
    PROVE  IInv'
<1>1. file' = [p \in Path |-> IF p \in {} THEN None ELSE file[p]] /\ {} \in SUBSET ps
  BY DEF IInv, TypeOK
<1>2. /\ NoReq \in Local /\ NoReq.ino = None /\ NoReq.want = Unknown
      /\ NoReq.part = None /\ NoReq.from = None
  BY Basics DEF NoReq
<1>3. "rmall" \in {"del_meta", "rmall"} /\ "rmall" # "del_meta"
  OBVIOUS
<1> QED BY <1>1, <1>2, <1>3, RemoveBegins

(* The requests that begin by creating a file ... *)
LEMMA CreatingStep ==
    ASSUME IInv, NEW r \in Request,
           \/ \E k \in Key : PutObject(r, k)
           \/ \E u \in Upload, n \in PartNo : UploadPart(r, u, n)
           \/ \E k \in Key, u \in Upload : CompleteMultipartUpload(r, k, u)
    PROVE  IInv'
<1>1. TypeOK /\ InodeInv /\ \A p \in Path : Created(p) \in Inode
  BY CreatedLemma DEF IInv
<1>2. ASSUME NEW k \in Key, PutObject(r, k) PROVE IInv'
  <2>1. PICK b \in Contents, m \in Meta \cup {None} :
           Begin(r, {k}, FALSE, [NoReq EXCEPT !.op = "put", !.path = k,
                                   !.ino = Created(k), !.body = b, !.meta = m])
    BY <1>2 DEF PutObject
  <2> DEFINE new == [NoReq EXCEPT !.op = "put", !.path = k, !.ino = Created(k),
                                  !.body = b, !.meta = m]
  <2>2. /\ new \in Local /\ new.path = k /\ new.ino = Created(k) /\ new.pos = 0
        /\ new.want = Unknown /\ k \in Path /\ new.part = None /\ new.from = None
    BY <1>1, Basics, ContentAssumption DEF Local, NoReq, Ops
  <2>3. "copy" \in Writing /\ "copy" # "assemble"
    BY DEF Writing
  <2> HIDE DEF new
  <2> QED BY <1>2, <2>1, <2>2, <2>3, CreateStep DEF PutObject, new
<1>3. ASSUME NEW u \in Upload, NEW n \in PartNo, UploadPart(r, u, n) PROVE IInv'
  <2> DEFINE p == <<u, n>>
  <2>1. PICK b \in PartContents[n] :
           Begin(r, {p}, FALSE, [NoReq EXCEPT !.op = "part", !.path = p,
                                   !.ino = Created(p), !.body = b])
    BY <1>3 DEF UploadPart
  <2> DEFINE new == [NoReq EXCEPT !.op = "part", !.path = p, !.ino = Created(p), !.body = b]
  <2>2. p \in Path
    BY DEF Path, Part
  <2>3. /\ new \in Local /\ new.path = p /\ new.ino = Created(p) /\ new.pos = 0
        /\ new.want = Unknown /\ new.meta = None /\ new.part = None /\ new.from = None
    <3> HIDE DEF p
    <3> QED BY <1>1, <2>2, Basics, ContentAssumption DEF Local, NoReq, Ops
  <2>4. "copy" \in Writing /\ "copy" # "assemble"
    BY DEF Writing
  <2>5. /\ pc[r] = "idle" /\ CreateFile(p) /\ Forget({p}) /\ Goto(r, "copy")
        /\ UNCHANGED <<metaFile, dirs, used>> /\ Begin(r, {p}, FALSE, new)
    BY <1>3, <2>1 DEF UploadPart
  <2> HIDE DEF new, p
  <2> QED BY <2>2, <2>3, <2>4, <2>5, CreateStep
<1>4. ASSUME NEW k \in Key, NEW u \in Upload, CompleteMultipartUpload(r, k, u) PROVE IInv'
  <2>1. PICK ps \in PartLists :
           Begin(r, {k}, FALSE, [NoReq EXCEPT !.op = "complete", !.path = k,
                                   !.ino = Created(k), !.upload = u, !.parts = ps])
    BY <1>4 DEF CompleteMultipartUpload
  <2> DEFINE new == [NoReq EXCEPT !.op = "complete", !.path = k, !.ino = Created(k),
                                  !.upload = u, !.parts = ps]
  <2>2. /\ new \in Local /\ new.path = k /\ new.ino = Created(k) /\ new.pos = 0
        /\ new.want = Unknown /\ k \in Path /\ new.upload = u /\ new.meta = None
        /\ new.body = <<>> /\ new.part = None /\ new.from = None
    BY <1>1, Basics, PartListAssumption DEF Local, NoReq, Ops
  <2>3. "assemble" \in Writing /\ "copy" # "assemble"
    BY DEF Writing
  <2> HIDE DEF new
  <2> QED BY <1>4, <2>1, <2>2, <2>3, CreateStep DEF CompleteMultipartUpload, new
<1> QED BY <1>2, <1>3, <1>4

(* ... or removing one. *)
LEMMA RemovingStep ==
    ASSUME IInv, NEW r \in Request,
           \/ \E k \in Key : DeleteObject(r, k) \/ DeleteObjectFails(r, k)
           \/ \E u \in Upload : AbortMultipartUpload(r, u)
           \/ DeleteBucket(r)
    PROVE  IInv'
<1>1. file = [p \in Path |-> IF p \in {} THEN None ELSE file[p]] /\ TypeOK
  BY DEF IInv, TypeOK
<1>2. ASSUME NEW k \in Key, DeleteObject(r, k) \/ DeleteObjectFails(r, k) PROVE IInv'
  <2>1. PICK op \in {"delete", "delete_fails"} :
           /\ Begin(r, {k}, TRUE, [NoReq EXCEPT !.op = op, !.path = k])
           /\ \/ op = "delete" /\ file' = [p \in Path |-> IF p \in {k} THEN None ELSE file[p]]
              \/ op = "delete_fails" /\ file' = file
    BY <1>2 DEF DeleteObject, DeleteObjectFails, Unlink, fsVars
  <2> DEFINE new == [NoReq EXCEPT !.op = op, !.path = k]
  <2>2. /\ new \in Local /\ new.path = k /\ new.ino = None /\ new.want = Unknown /\ new.op = op
        /\ k \in Path /\ {k} \in SUBSET Path /\ {k} \in SUBSET {k} /\ {} \in SUBSET {k}
        /\ new.part = None /\ new.from = None
    BY Basics DEF Local, NoReq, Ops
  <2>3. /\ Leaves(r, {k}, promise) /\ Goto(r, "del_meta") /\ Begin(r, {k}, TRUE, new)
        /\ UNCHANGED <<data, metaFile, dirs, used>>
    BY <1>1, <1>2, <2>1, ForgetLeaves DEF DeleteObject, DeleteObjectFails, fsVars
  <2>4. "del_meta" \in {"del_meta", "rmall"} /\ "del_meta" # "rmall"
    OBVIOUS
  <2> HIDE DEF new
  <2>5. CASE op = "delete"
    BY <2>1, <2>2, <2>3, <2>4, <2>5, RemoveBegins
  <2>6. CASE op = "delete_fails"
    BY <1>1, <2>1, <2>2, <2>3, <2>4, <2>6, RemoveBegins
  <2> QED BY <2>5, <2>6
<1>3. ASSUME DeleteBucket(r) PROVE IInv'
  <2>1. /\ Path \in SUBSET Path /\ Leaves(r, Path, promise) /\ Goto(r, "rmall")
        /\ Begin(r, Path, TRUE, NoReq) /\ UNCHANGED <<file, data, metaFile, dirs, used>>
    BY <1>1, <1>3, ForgetLeaves DEF DeleteBucket, fsVars
  <2> QED BY <2>1, RemoveAllBegins
<1>4. ASSUME NEW u \in Upload, AbortMultipartUpload(r, u) PROVE IInv'
  <2>1. /\ PartsOf(u) \in SUBSET Path /\ Leaves(r, PartsOf(u), promise) /\ Goto(r, "rmall")
        /\ Begin(r, PartsOf(u), TRUE, NoReq) /\ UNCHANGED <<file, data, metaFile, dirs, used>>
    BY <1>1, <1>4, ForgetLeaves, Basics DEF AbortMultipartUpload, fsVars
  <2> QED BY <2>1, RemoveAllBegins
<1> QED BY <1>2, <1>3, <1>4

---------------------------------------------------------------------------
(* A request goes on. *)

(* What the requests other than r keep when r alone moves, under the        *)
(* condition on files and contents that the step meets.                     *)
LEMMA OthersKeep ==
    ASSUME TypeOK, InodeInv, HistoryInv, Locals, NEW r \in Request, NEW q \in Request, q # r,
           Same(q), pc'[r] \in Writing => pc[r] \in Writing /\ req'[r].path = req[r].path,
           \A o \in Request : o # r => pc'[o] = pc[o] /\ req'[o].path = req[o].path,
           pc[q] \in Reading /\ promise[req[q].path] # Unknown =>
              promise'[req[q].path] = promise[req[q].path],
           pc[q] \in {"copy", "meta", "write_meta", "assemble", "del_meta"} /\ req'[q].alone =>
              file'[req[q].path] = file[req[q].path],
           pc[q] \in Reading /\ promise[req[q].path] # Unknown =>
              file'[req[q].path] = file[req[q].path],
           pc[q] = "write_meta" /\ req'[q].alone =>
              metaFile'[req[q].path] = metaFile[req[q].path],
           \A i \in Inode : data'[i] # data[i] => pc[r] \in Writing /\ i = req[r].ino
    PROVE  (Shape(q) /\ WriterOK(q) /\ CopierOK(q) /\ ReaderOK(q))'
<1>1. Shape(q) /\ WriterOK(q) /\ CopierOK(q) /\ ReaderOK(q) /\ Shape(r)
  BY DEF Locals
<1>2. Shape(q)'
  BY <1>1, ShapeFrame
<1>3. pc[q] \in {"copy", "meta", "write_meta", "assemble", "read"} =>
         /\ req[q].ino \in Inode /\ req[q].ino # None /\ req[q].on = {req[q].path}
         /\ req[q].path \in Path
  BY <1>1, Basics DEF Shape, Reading
<1>4. pc[r] \in Writing => /\ req[r].ino \in Inode /\ req[r].ino # None
                           /\ req[r].path \in Path /\ Works(r, req[r].path)
  BY <1>1, Basics DEF Shape, Writing, Works, Changing
<1>5. pc[q] \in {"copy", "meta", "write_meta", "assemble"} /\ req'[q].alone =>
         data'[req[q].ino] = data[req[q].ino]
  <2> SUFFICES ASSUME pc[q] \in {"copy", "meta", "write_meta", "assemble"}, req[q].alone,
                      pc[r] \in Writing, req[q].ino = req[r].ino
               PROVE  FALSE
    BY <1>3 DEF Same
  <2>1. req[q].path = req[r].path
    BY <1>3 DEF InodeInv, HoldersOwn
  <2>2. Works(q, req[q].path)
    BY <1>3 DEF Works, Changing
  <2> QED BY <1>3, <1>4, <2>1, <2>2 DEF HistoryInv, AloneOK
<1>6. pc[q] = "read" /\ req[q].want # Unknown => data'[req[q].ino] = data[req[q].ino]
  <2> SUFFICES ASSUME pc[q] = "read", req[q].want # Unknown,
                      pc[r] \in Writing, req[q].ino = req[r].ino
               PROVE  FALSE
    BY <1>3
  <2>1. req[q].path = req[r].path
    BY <1>3 DEF InodeInv, HoldersOwn
  <2> QED BY <1>1, <2>1 DEF ReaderOK, Reading
<1>7. WriterOK(q)'
  BY <1>1, <1>5, WriterFrame
<1>8. pc[q] \in {"open", "getmeta"} /\ req'[q].want # Unknown =>
         /\ promise'[req[q].path] = promise[req[q].path]
         /\ file'[req[q].path] = file[req[q].path]
  BY <1>1 DEF ReaderOK, Reading, Same
<1>9. req'[q].want # Unknown => req[q].want # Unknown
  BY DEF Same
<1>10. \A o \in Request : pc'[o] \in Writing => pc[o] \in Writing /\ req'[o].path = req[o].path
  OBVIOUS
<1>11. ReaderOK(q)'
  BY <1>1, <1>6, <1>8, <1>9, <1>10, ReaderFrame
<1>12. CopierOK(q)'
  <2> SUFFICES ASSUME req'[q].alone, req[q].part # None
               PROVE  data'[req[q].from] = data[req[q].from]
    BY <1>1, <1>10, CopierFrame
  <2>1. req[q].from \in Inode /\ req[q].from # None /\ req[q].alone
    BY <1>1, Basics DEF Shape, Same
  <2> SUFFICES ASSUME pc[r] \in Writing, req[q].from = req[r].ino PROVE FALSE
    BY <2>1
  <2>2. req[r].path = req[q].part
    BY <2>1 DEF InodeInv, PartsOwn
  <2> QED BY <1>1, <2>1, <2>2 DEF CopierOK
<1> QED BY <1>2, <1>7, <1>11, <1>12

(* A step of r that leaves all other requests as they are. *)
Only(r) ==
    \A q \in Request : q # r => pc'[q] = pc[q] /\ req'[q] = req[q]

(* They are the same. *)
LEMMA OnlyFacts ==
    ASSUME NEW r \in Request, Only(r), TypeOK
    PROVE  \A q \in Request : q # r => Same(q)
  BY SameLemma DEF Only, TypeOK

(* The .meta file that a request alone is about to write is nobody else's.  *)
LEMMA MetaKept ==
    ASSUME HistoryInv, Locals, NEW r \in Request, NEW q \in Request, q # r, Same(q),
           \A p \in req[r].on : Works(r, p),
           \A k \in Key : k \notin req[r].on => metaFile'[k] = metaFile[k],
           pc[q] = "write_meta", req'[q].alone
    PROVE  metaFile'[req[q].path] = metaFile[req[q].path]
<1>1. req[q].alone /\ req[q].path \in Key /\ req[q].path \in Path /\ Works(q, req[q].path)
  BY Basics DEF Locals, Shape, Same, Works, Changing
<1> QED BY <1>1 DEF HistoryInv, AloneOK

(* A request that changes files ends: what it was alone on is as it says.   *)
LEMMA EndStep ==
    ASSUME IInv, NEW r \in Request, pc[r] \in Changing, NEW ps \in SUBSET req[r].on,
           NEW left \in {Gone} \cup LeftType, Return(r),
           promise' = [p \in Path |-> IF p \in ps /\ req[r].alone THEN left ELSE promise[p]],
           metaFile' \in [Key -> Meta \cup {None, Blank}],
           \A k \in Key : k \notin req[r].on => metaFile'[k] = metaFile[k],
           UNCHANGED <<file, data, dirs, used>>,
           req[r].alone => \A p \in ps : Kept(p, left)'
    PROVE  IInv'
<1>1. /\ TypeOK /\ InodeInv /\ HistoryInv /\ Locals /\ AllKept
      /\ req[r] \in Local /\ req[r].on \subseteq Path
  BY DEF IInv, TypeOK, Local
<1>2. /\ pc' \in [Request -> Pcs] /\ req' \in [Request -> Local] /\ Only(r)
      /\ pc'[r] = "idle" /\ req'[r] = NoReq
  BY <1>1, Basics DEF TypeOK, Return, Pcs, Only
<1>3. /\ promise' \in [Path -> Promise]
      /\ \A p \in Path : promise'[p] = IF p \in ps /\ req[r].alone THEN left ELSE promise[p]
  BY <1>1 DEF TypeOK, Promise
<1>4. TypeOK'
  BY <1>1, <1>2, <1>3 DEF TypeOK
<1>5. /\ req'[r].ino = None /\ req'[r].want = Unknown /\ ~req'[r].alone
      /\ req'[r].part = None /\ req'[r].from = None
  BY <1>2 DEF NoReq
<1>6. InodeInv'
  BY <1>1, <1>2, <1>5 DEF InodeInv, FilesDiffer, HoldersOwn, PartsOwn, Only
<1>7. \A p \in req[r].on : Works(r, p) /\ promise[p] = Unknown
  BY <1>1 DEF Works, HistoryInv, PromiseIdle
<1>8. HistoryInv'
  <2>1. /\ \A q \in Request, p \in Path : q # r => (Works(q, p)' <=> Works(q, p))
        /\ \A p \in Path : ~Works(r, p)'
    BY <1>2 DEF Works, Only, Changing
  <2>2. AloneOK'
    BY <1>1, <1>2, <1>5, <2>1 DEF HistoryInv, AloneOK, Only
  <2>3. PromiseIdle'
    <3> SUFFICES ASSUME NEW p \in Path, NEW q \in Request, promise'[p] # Unknown, Works(q, p)'
                 PROVE  FALSE
      BY DEF PromiseIdle
    <3>1. q # r /\ Works(q, p)
      BY <2>1
    <3>2. CASE p \in ps /\ req[r].alone
      BY <1>1, <1>7, <3>1, <3>2 DEF HistoryInv, AloneOK
    <3>3. CASE ~(p \in ps /\ req[r].alone)
      BY <1>1, <1>3, <3>1, <3>3 DEF HistoryInv, PromiseIdle
    <3> QED BY <3>2, <3>3
  <2> QED BY <2>2, <2>3 DEF HistoryInv
<1>9. ASSUME NEW q \in Request, q # r PROVE (Shape(q) /\ WriterOK(q) /\ CopierOK(q) /\ ReaderOK(q))'
  <2>1. \A o \in Request : o # r => pc'[o] = pc[o] /\ req'[o].path = req[o].path
    BY <1>2 DEF Only
  <2>2. pc[q] \in Reading => req[q].path \in Path
    BY <1>1, Basics DEF Locals, Shape
  <2>3. pc[q] \in Reading /\ promise[req[q].path] # Unknown =>
           promise'[req[q].path] = promise[req[q].path]
    BY <1>3, <1>7, <2>2
  <2>4. Same(q) /\ pc'[r] \notin Writing
    BY <1>1, <1>2, <1>9, OnlyFacts DEF Writing
  <2>5. pc[q] = "write_meta" /\ req'[q].alone => metaFile'[req[q].path] = metaFile[req[q].path]
    BY <1>1, <1>7, <1>9, <2>4, MetaKept
  <2> QED BY <1>1, <1>9, <2>1, <2>3, <2>4, <2>5, OthersKeep
<1>10. (Shape(r) /\ WriterOK(r) /\ CopierOK(r) /\ ReaderOK(r))'
  BY <1>2, <1>5 DEF Shape, WriterOK, CopierOK, ReaderOK, Reading
<1>11. ASSUME NEW p \in Path PROVE Kept(p, promise[p])'
  <2>1. CASE p \in ps /\ req[r].alone
    BY <1>3, <2>1
  <2>2. CASE ~(p \in ps /\ req[r].alone)
    <3>1. promise'[p] # Unknown => p \notin req[r].on
      BY <1>3, <1>7, <2>2
    <3> QED BY <1>1, <1>3, <2>2, <3>1, KeptFrame DEF AllKept
  <2> QED BY <2>1, <2>2
<1> QED BY <1>4, <1>6, <1>8, <1>9, <1>10, <1>11 DEF IInv, Locals, AllKept

(* The requests that end so. *)
LEMMA EndingStep ==
    ASSUME IInv, NEW r \in Request,
           \/ CopyDone(r) /\ req[r].meta = None
           \/ WriteMeta(r) \/ WriteFails(r) \/ DeleteMeta(r)
           \/ RemoveDone(r) \/ RemoveFails(r) \/ CompletePartFails(r)
    PROVE  IInv'
<1>1. /\ TypeOK /\ Shape(r) /\ WriterOK(r) /\ req[r] \in Local
      /\ metaFile \in [Key -> Meta \cup {None, Blank}] /\ promise \in [Path -> Promise]
  BY DEF IInv, Locals, TypeOK
<1>2. PICK left \in LeftType : left = Left(r) /\ left.body = req[r].body /\ left.meta = req[r].meta
  <2>1. Left(r) \in LeftType
    BY <1>1 DEF Left, LeftType, Local
  <2>2. Left(r).body = req[r].body /\ Left(r).meta = req[r].meta
    BY DEF Left
  <2> QED BY <2>1, <2>2
<1>3. ASSUME CopyDone(r), req[r].meta = None PROVE IInv'
  <2>1. /\ pc[r] = "copy" /\ req[r].pos = Len(req[r].body) /\ Succeed(r, {req[r].path}, left)
        /\ UNCHANGED <<file, data, metaFile, dirs, used>>
    BY <1>2, <1>3 DEF CopyDone, fsVars
  <2>2. /\ {req[r].path} \in SUBSET req[r].on /\ pc[r] \in Changing
        /\ left \in {Gone} \cup LeftType
    BY <1>1, <2>1 DEF Shape, Changing
  <2>3. req[r].alone => \A p \in {req[r].path} : Kept(p, left)'
    <3> SUFFICES ASSUME req[r].alone, NEW p, p = req[r].path PROVE Kept(p, left)'
      OBVIOUS
    <3>1. /\ file[req[r].path] = req[r].ino /\ req[r].ino \in Inode
          /\ data[req[r].ino] = SubSeq(req[r].body, 1, Len(req[r].body))
      BY <1>1, <2>1 DEF WriterOK, Shape
    <3>2. SubSeq(req[r].body, 1, Len(req[r].body)) = req[r].body
      BY <1>1 DEF Local
    <3> QED BY <1>2, <1>3, <2>1, <3>1, <3>2, Basics DEF Kept
  <2> QED BY <1>1, <2>1, <2>2, <2>3, EndStep DEF Succeed
<1>4. ASSUME WriteMeta(r) PROVE IInv'
  <2>1. /\ pc[r] = "write_meta" /\ req[r].pos = Len(req[r].body)
        /\ Succeed(r, {req[r].path}, left)
        /\ UNCHANGED <<file, data, dirs, used>>
    BY <1>1, <1>2, <1>4 DEF WriteMeta, Shape
  <2>2. /\ {req[r].path} \in SUBSET req[r].on /\ pc[r] \in Changing
        /\ left \in {Gone} \cup LeftType /\ req[r].path \in Key /\ req[r].meta \in Meta
    BY <1>1, <2>1 DEF Shape, Changing
  <2>5. PICK m \in MetaWritten(req[r].path, req[r].meta) :
           metaFile' = [metaFile EXCEPT ![req[r].path] = m]
    BY <1>4 DEF WriteMeta
  <2>6. m \in Meta \cup {None, Blank} /\ (req[r].alone => m = req[r].meta)
    BY <1>1, <2>1, <2>2, <2>5, Basics DEF MetaWritten, WriterOK
  <2>3. /\ metaFile' \in [Key -> Meta \cup {None, Blank}] /\ metaFile'[req[r].path] = m
        /\ \A k \in Key : k \notin req[r].on => metaFile'[k] = metaFile[k]
    BY <1>1, <2>2, <2>5, <2>6
  <2>4. req[r].alone => \A p \in {req[r].path} : Kept(p, left)'
    <3> SUFFICES ASSUME req[r].alone, NEW p, p = req[r].path PROVE Kept(p, left)'
      OBVIOUS
    <3>1. /\ file[req[r].path] = req[r].ino /\ req[r].ino \in Inode
          /\ data[req[r].ino] = SubSeq(req[r].body, 1, Len(req[r].body))
      BY <1>1, <2>1 DEF WriterOK, Shape
    <3>2. SubSeq(req[r].body, 1, Len(req[r].body)) = req[r].body
      BY <1>1 DEF Local
    <3> QED BY <1>2, <2>1, <2>2, <2>3, <2>6, <3>1, <3>2, Basics DEF Kept
  <2> QED BY <2>1, <2>2, <2>3, <2>4, EndStep DEF Succeed
<1>5. ASSUME WriteFails(r) \/ CompletePartFails(r) \/ RemoveFails(r) PROVE IInv'
  <2>1. /\ pc[r] \in Changing /\ Return(r) /\ promise' = promise
        /\ UNCHANGED <<file, data, metaFile, dirs, used>>
    BY <1>5 DEF WriteFails, CompletePartFails, RemoveFails, Fail, Changing, fsVars
  <2>2. /\ promise' = [p \in Path |-> IF p \in {} /\ req[r].alone THEN Gone ELSE promise[p]]
        /\ {} \in SUBSET req[r].on /\ Gone \in {Gone} \cup LeftType
    BY <1>1, <2>1
  <2> QED BY <1>1, <2>1, <2>2, EndStep
<1>6. ASSUME DeleteMeta(r) PROVE IInv'
  <2>1. /\ pc[r] = "del_meta"
        /\ UNCHANGED <<file, data, dirs, used>>
    BY <1>6 DEF DeleteMeta
  <2>2. /\ {req[r].path} \in SUBSET req[r].on /\ {} \in SUBSET req[r].on /\ pc[r] \in Changing
        /\ Gone \in {Gone} \cup LeftType /\ req[r].path \in Key
    BY <1>1, <2>1 DEF Shape, Changing
  <2>3. /\ metaFile' \in [Key -> Meta \cup {None, Blank}]
        /\ \A k \in Key : k \notin req[r].on => metaFile'[k] = metaFile[k]
    BY <1>1, <1>6, <2>2 DEF DeleteMeta
  <2>4. CASE req[r].op = "delete" /\ Succeed(r, {req[r].path}, Gone)
    <3>1. req[r].alone => \A p \in {req[r].path} : Kept(p, Gone)'
      BY <1>1, <2>1, <2>4 DEF WriterOK, Kept
    <3>2. /\ Return(r)
          /\ promise' = [p \in Path |-> IF p \in {req[r].path} /\ req[r].alone
                                        THEN Gone ELSE promise[p]]
      BY <2>4 DEF Succeed
    <3> QED BY <2>1, <2>2, <2>3, <3>1, <3>2, EndStep
  <2>5. CASE Fail(r)
    <3>1. promise' = [p \in Path |-> IF p \in {} /\ req[r].alone THEN Gone ELSE promise[p]]
      BY <1>1, <2>5 DEF Fail
    <3>2. Return(r) /\ \A p \in {} : Kept(p, Gone)'
      BY <2>5 DEF Fail
    <3> QED BY <2>1, <2>2, <2>3, <3>1, <3>2, EndStep
  <2> QED BY <1>6, <2>4, <2>5 DEF DeleteMeta
<1>7. ASSUME RemoveDone(r) PROVE IInv'
  <2>1. /\ pc[r] = "rmall" /\ \A p \in req[r].on : file[p] = None
        /\ Succeed(r, req[r].on, Gone) /\ UNCHANGED <<file, data, metaFile, dirs, used>>
    BY <1>7 DEF RemoveDone, fsVars
  <2>2. req[r].on \in SUBSET req[r].on /\ pc[r] \in Changing /\ Gone \in {Gone} \cup LeftType
    BY <1>1, <2>1 DEF Changing
  <2>3. \A p \in req[r].on : Kept(p, Gone)'
    BY <2>1 DEF Kept
  <2> QED BY <1>1, <2>1, <2>2, <2>3, EndStep DEF Succeed
<1> QED BY <1>3, <1>4, <1>5, <1>6, <1>7

---------------------------------------------------------------------------
(* A writer goes on. *)

(* A write of blocks leaves blocks; at the end of the file it appends. *)
LEMMA WriteAtType ==
    ASSUME NEW s \in Seq(Block), NEW b \in Seq(Block), NEW off \in Nat
    PROVE  WriteAt(s, off, b) \in Seq(Block)
<1> DEFINE n == IF Len(s) > off + Len(b) THEN Len(s) ELSE off + Len(b)
<1>1. n \in Nat /\ Len(s) \in Nat /\ Len(b) \in Nat /\ Hole \in Block
  BY DEF Block
<1>2. ASSUME NEW j \in 1 .. n
      PROVE (IF j > off /\ j <= off + Len(b) THEN b[j - off]
             ELSE IF j <= Len(s) THEN s[j] ELSE Hole) \in Block
  <2>1. CASE j > off /\ j <= off + Len(b)
    <3>1. j - off \in 1 .. Len(b)
      BY <1>1, <1>2, <2>1
    <3> QED BY <2>1, <3>1
  <2>2. CASE ~(j > off /\ j <= off + Len(b)) /\ j <= Len(s)
    <3>1. j \in 1 .. Len(s)
      BY <1>1, <1>2, <2>2
    <3> QED BY <2>2, <3>1
  <2>3. CASE ~(j > off /\ j <= off + Len(b)) /\ ~(j <= Len(s))
    BY <1>1, <2>3
  <2> QED BY <2>1, <2>2, <2>3
<1>3. WriteAt(s, off, b) = [j \in 1 .. n |->
          IF j > off /\ j <= off + Len(b) THEN b[j - off]
          ELSE IF j <= Len(s) THEN s[j] ELSE Hole]
  BY DEF WriteAt
<1> HIDE DEF n
<1>4. WriteAt(s, off, b) \in [1 .. n -> Block]
  BY <1>2, <1>3
<1> QED BY <1>1, <1>4, SeqDef

(* A write at the end of the file appends. *)
LEMMA WriteAtEnd ==
    ASSUME NEW s \in Seq(Block), NEW b \in Seq(Block)
    PROVE  WriteAt(s, Len(s), b) = s \o b
<1>1. Len(s) \in Nat /\ Len(b) \in Nat
  OBVIOUS
<1>2. DOMAIN WriteAt(s, Len(s), b) = 1 .. Len(s) + Len(b)
  BY <1>1 DEF WriteAt
<1>3. /\ s \o b \in Seq(Block) /\ Len(s \o b) = Len(s) + Len(b)
      /\ WriteAt(s, Len(s), b) \in Seq(Block)
  BY <1>1, WriteAtType
<1>4. Len(WriteAt(s, Len(s), b)) = Len(s) + Len(b)
  BY <1>1, <1>2, <1>3
<1>5. ASSUME NEW j \in 1 .. Len(s) + Len(b) PROVE WriteAt(s, Len(s), b)[j] = (s \o b)[j]
  BY <1>1, <1>5 DEF WriteAt
<1> QED BY <1>1, <1>3, <1>4, <1>5, SeqEqual

(* One more block of the body extends what was written of it. *)
LEMMA NextBlock ==
    ASSUME NEW body \in Seq(Block), NEW pos \in Nat, pos < Len(body)
    PROVE  WriteAt(SubSeq(body, 1, pos), pos, <<body[pos + 1]>>) = SubSeq(body, 1, pos + 1)
<1>1. /\ SubSeq(body, 1, pos) \in Seq(Block) /\ Len(SubSeq(body, 1, pos)) = pos
      /\ <<body[pos + 1]>> \in Seq(Block) /\ body[pos + 1] \in Block
  OBVIOUS
<1>2. WriteAt(SubSeq(body, 1, pos), pos, <<body[pos + 1]>>) =
         SubSeq(body, 1, pos) \o <<body[pos + 1]>>
  BY <1>1, WriteAtEnd
<1>3. SubSeq(body, 1, pos) \o <<body[pos + 1]>> = SubSeq(body, 1, pos + 1)
  OBVIOUS
<1> QED BY <1>2, <1>3

(* A step of a request that goes on changing files disturbs nobody: what is *)
(* promised, read or written by others alone is in other inodes.            *)
LEMMA GoOn ==
    ASSUME IInv, NEW r \in Request, Only(r), pc[r] \in Changing, pc'[r] \in Changing, TypeOK',
           req'[r].on = req[r].on, req'[r].path = req[r].path, req'[r].ino = req[r].ino,
           \/ req'[r].from = req[r].from /\ req'[r].part = req[r].part
           \/ req'[r].from = None
           \/ req'[r].part \in Path /\ req'[r].from = file[req'[r].part],
           req'[r].alone => req[r].alone, pc'[r] \in Writing => pc[r] \in Writing,
           UNCHANGED <<file, promise>>,
           \A k \in Key : k \notin req[r].on => metaFile'[k] = metaFile[k],
           \A i \in Inode : data'[i] # data[i] => pc[r] \in Writing /\ i = req[r].ino,
           Shape(r)', WriterOK(r)', CopierOK(r)'
    PROVE  IInv'
<1>1. TypeOK /\ InodeInv /\ HistoryInv /\ Locals /\ AllKept
  BY DEF IInv
<1>7. \A p \in req[r].on : p \in Path /\ Works(r, p)
  BY <1>1 DEF Works, TypeOK, Local
<1>2. InodeInv'
  <2>1. FilesDiffer' /\ HoldersOwn'
    BY <1>1 DEF InodeInv, FilesDiffer, HoldersOwn, Only
  <2>2. ASSUME NEW q \in Request, req'[q].from # None
        PROVE  /\ \A p \in Path : file[p] = req'[q].from => p = req'[q].part
               /\ \A o \in Request : req[o].ino = req'[q].from => req[o].path = req'[q].part
    <3>1. CASE req'[q].from = req[q].from /\ req'[q].part = req[q].part
      BY <1>1, <2>2, <3>1 DEF InodeInv, PartsOwn
    <3>2. CASE req'[q].part \in Path /\ req'[q].from = file[req'[q].part]
      BY <1>1, <2>2, <3>2 DEF InodeInv, FilesDiffer, HoldersOwn
    <3> QED BY <2>2, <3>1, <3>2 DEF Only
  <2>3. \A o \in Request : req'[o].ino = req[o].ino /\ req'[o].path = req[o].path
    BY DEF Only
  <2>4. PartsOwn'
    BY <2>2, <2>3 DEF PartsOwn
  <2> QED BY <2>1, <2>4 DEF InodeInv
<1>3. HistoryInv'
  <2>1. \A q \in Request, p \in Path : Works(q, p)' <=> Works(q, p)
    BY DEF Works, Only
  <2> QED BY <1>1, <2>1 DEF HistoryInv, AloneOK, PromiseIdle, Only
<1>4. ASSUME NEW q \in Request, q # r PROVE (Shape(q) /\ WriterOK(q) /\ CopierOK(q) /\ ReaderOK(q))'
  <2>1. Same(q) /\ \A o \in Request : o # r => pc'[o] = pc[o] /\ req'[o].path = req[o].path
    BY <1>1, <1>4, OnlyFacts DEF Only
  <2>2. pc[q] = "write_meta" /\ req'[q].alone => metaFile'[req[q].path] = metaFile[req[q].path]
    BY <1>1, <1>4, <1>7, <2>1, MetaKept
  <2> QED BY <1>1, <1>4, <2>1, <2>2, OthersKeep
<1>5. ReaderOK(r)'
  BY DEF ReaderOK, Reading, Changing
<1>6. ASSUME NEW p \in Path PROVE Kept(p, promise[p])'
  <2>1. file[p] # None /\ promise[p] # Unknown => data'[file[p]] = data[file[p]]
    <3> SUFFICES ASSUME file[p] # None, promise[p] # Unknown, pc[r] \in Writing, file[p] = req[r].ino
                 PROVE  FALSE
      BY <1>1 DEF TypeOK
    <3>1. p = req[r].path /\ req[r].on = {req[r].path}
      BY <1>1 DEF InodeInv, HoldersOwn, Locals, Shape, Writing
    <3> QED BY <1>1, <3>1 DEF HistoryInv, PromiseIdle, Works
  <2>2. promise[p] # Unknown => p \notin req[r].on
    BY <1>1, <1>7 DEF HistoryInv, PromiseIdle
  <2> QED BY <1>1, <2>1, <2>2, KeptFrame DEF AllKept
<1> QED BY <1>1, <1>2, <1>3, <1>4, <1>5, <1>6 DEF IInv, Locals, AllKept

(* The steps of PutObject, UploadPart and CompleteMultipartUpload that do   *)
(* not end them.                                                            *)
LEMMA WritingStep ==
    ASSUME IInv, NEW r \in Request,
           \/ CopyBlock(r)
           \/ CopyDone(r) /\ req[r].meta # None
           \/ PutMeta(r) \/ OpenPart(r) \/ CopyPart(r) \/ ClosePart(r)
    PROVE  IInv'
<1>1. /\ TypeOK /\ Shape(r) /\ WriterOK(r) /\ CopierOK(r) /\ req[r] \in Local /\ AllKept
      /\ req \in [Request -> Local] /\ pc \in [Request -> Pcs] /\ data \in [Inode -> Seq(Block)]
  BY DEF IInv, Locals, TypeOK
<1>2. /\ req[r].pos \in Nat /\ req[r].body \in Seq(Block) /\ req[r].alone \in BOOLEAN
      /\ req[r].parts \in Seq(PartNo) /\ Len(req[r].body) \in Nat /\ req[r].base \in Nat
  BY <1>1 DEF Local
<1>3. ASSUME CopyBlock(r) PROVE IInv'
  <2> DEFINE pos == req[r].pos
             body == req[r].body
             ino == req[r].ino
  <2>1. /\ pc[r] = "copy" /\ pos < Len(body) /\ ino \in Inode
        /\ UNCHANGED <<file, metaFile, dirs, used, pc, promise>>
    BY <1>1, <1>3 DEF CopyBlock, Shape
  <2>2. req' = [req EXCEPT ![r].pos = pos + 1]
    BY <1>3 DEF CopyBlock
  <2>3. data' = [data EXCEPT ![ino] = WriteAt(data[ino], pos, <<body[pos + 1]>>)]
    BY <1>3 DEF CopyBlock
  <2>4. /\ req' \in [Request -> Local] /\ req'[r] = [req[r] EXCEPT !.pos = pos + 1] /\ Only(r)
    <3> DEFINE x == [req[r] EXCEPT !.pos = pos + 1]
    <3>1. x \in Local
      <4>1. \A n \in Nat : [req[r] EXCEPT !.pos = n] \in Local
        BY <1>1 DEF Local
      <4>2. pos + 1 \in Nat
        BY <1>2
      <4> QED BY <4>1, <4>2
    <3>2. req' = [req EXCEPT ![r] = x]
      BY <1>1, <2>2 DEF Local
    <3> HIDE DEF x
    <3>3. req' \in [Request -> Local] /\ req'[r] = x /\ Only(r)
      BY <1>1, <2>1, <3>1, <3>2 DEF Only
    <3> QED BY <3>3 DEF x
  <2>5. /\ req'[r].on = req[r].on /\ req'[r].path = req[r].path /\ req'[r].ino = ino
        /\ req'[r].alone = req[r].alone /\ req'[r].pos = pos + 1 /\ req'[r].body = body
        /\ req'[r].meta = req[r].meta /\ req'[r].part = req[r].part /\ req'[r].from = req[r].from
    BY <1>1, <2>4 DEF Local
  <2>6. <<body[pos + 1]>> \in Seq(Block)
    BY <1>2, <2>1
  <2>7. /\ data' \in [Inode -> Seq(Block)]
        /\ data'[ino] = WriteAt(data[ino], pos, <<body[pos + 1]>>)
        /\ \A i \in Inode : data'[i] # data[i] => i = ino
    <3>1. WriteAt(data[ino], pos, <<body[pos + 1]>>) \in Seq(Block)
      BY <1>1, <1>2, <2>1, <2>6, WriteAtType
    <3> HIDE DEF ino, pos, body
    <3> QED BY <1>1, <2>1, <2>3, <3>1
  <2>8. TypeOK'
    BY <1>1, <2>1, <2>4, <2>7 DEF TypeOK
  <2>9. Shape(r)'
    BY <1>1, <2>1, <2>5 DEF Shape, Reading
  <2>10. WriterOK(r)'
    <3> SUFFICES ASSUME req[r].alone
                 PROVE  /\ file[req[r].path] = ino /\ pos + 1 <= Len(body)
                        /\ data'[ino] = SubSeq(body, 1, pos + 1)
      BY <2>1, <2>5 DEF WriterOK
    <3>1. file[req[r].path] = ino /\ data[ino] = SubSeq(body, 1, pos)
      BY <1>1, <2>1 DEF WriterOK
    <3>2. WriteAt(SubSeq(body, 1, pos), pos, <<body[pos + 1]>>) = SubSeq(body, 1, pos + 1)
      BY <1>2, <2>1, NextBlock
    <3>3. pos + 1 <= Len(body)
      BY <1>2, <2>1
    <3> QED BY <2>7, <3>1, <3>2, <3>3
  <2>11. pc[r] \in Writing /\ pc[r] \in Changing
    BY <2>1 DEF Writing, Changing
  <2>12. CopierOK(r)'
    BY <1>1, <2>1, <2>5 DEF CopierOK, Shape
  <2> HIDE DEF ino, pos, body
  <2> QED BY <2>1, <2>4, <2>5, <2>7, <2>8, <2>9, <2>10, <2>11, <2>12, GoOn DEF ino
<1>4. ASSUME CopyDone(r), req[r].meta # None PROVE IInv'
  <2>1. /\ pc[r] = "copy" /\ req[r].pos = Len(req[r].body) /\ Goto(r, "meta")
        /\ UNCHANGED <<file, data, metaFile, dirs, used, req, promise>>
    <3>1. ~Succeed(r, {req[r].path}, Left(r)) \/ req[r].meta # None
      BY <1>4
    <3> QED BY <1>4 DEF CopyDone, fsVars
  <2>2. pc' \in [Request -> Pcs] /\ pc'[r] = "meta" /\ Only(r)
    BY <1>1, <2>1 DEF Goto, Pcs, Changing, Only
  <2>3. TypeOK'
    BY <1>1, <2>1, <2>2 DEF TypeOK
  <2>4. Shape(r)'
    BY <1>1, <1>4, <2>1, <2>2 DEF Shape, Reading, Local
  <2>5. WriterOK(r)' /\ CopierOK(r)'
    BY <1>1, <2>1, <2>2 DEF WriterOK, CopierOK, Shape
  <2>6. pc[r] \in Changing /\ pc'[r] \in Changing /\ pc'[r] \notin Writing
    BY <2>1, <2>2 DEF Changing, Writing
  <2> QED BY <2>1, <2>2, <2>3, <2>4, <2>5, <2>6, GoOn
<1>5. ASSUME PutMeta(r) PROVE IInv'
  <2>1. /\ pc[r] = "meta" /\ Goto(r, "write_meta") /\ req[r].path \in Key
        /\ req[r].on = {req[r].path} /\ UNCHANGED <<file, data, dirs, used, req, promise>>
        /\ metaFile' = [metaFile EXCEPT ![req[r].path] = Blank]
    BY <1>1, <1>5 DEF PutMeta, Shape
  <2>2. pc' \in [Request -> Pcs] /\ pc'[r] = "write_meta" /\ Only(r)
    BY <1>1, <2>1 DEF Goto, Pcs, Changing, Only
  <2>3. /\ TypeOK' /\ metaFile'[req[r].path] = Blank
        /\ \A k \in Key : k \notin req[r].on => metaFile'[k] = metaFile[k]
    BY <1>1, <2>1, <2>2 DEF TypeOK
  <2>4. Shape(r)'
    BY <1>1, <2>1, <2>2 DEF Shape, Reading
  <2>5. WriterOK(r)' /\ CopierOK(r)'
    BY <1>1, <2>1, <2>2, <2>3 DEF WriterOK, CopierOK, Shape
  <2>6. pc[r] \in Changing /\ pc'[r] \in Changing /\ pc'[r] \notin Writing
    BY <2>1, <2>2 DEF Changing, Writing
  <2> QED BY <2>1, <2>2, <2>3, <2>4, <2>5, <2>6, GoOn
<1>6. ASSUME OpenPart(r) PROVE IInv'
  <2> DEFINE p == <<req[r].upload, Head(req[r].parts)>>
             known == promise[p] \notin {Unknown, Gone}
             more == data[file[p]]
             body2 == IF known THEN req[r].body \o promise[p].body ELSE req[r].body
             alone2 == req[r].alone /\ known
             pos == req[r].pos
  <2>1. /\ pc[r] = "assemble" /\ req[r].parts # <<>> /\ file[p] # None /\ req[r].part = None
        /\ req[r].upload \in Upload /\ UNCHANGED <<file, data, metaFile, dirs, used, pc, promise>>
    BY <1>1, <1>6 DEF OpenPart, Shape, fsVars
  <2>2. req' = [req EXCEPT ![r].part = p, ![r].from = file[p], ![r].base = pos,
                           ![r].parts = Tail(req[r].parts), ![r].alone = alone2,
                           ![r].body = body2]
    BY <1>6 DEF OpenPart
  <2>4. p \in Path
    BY <1>2, <2>1 DEF Path, Part
  <2> HIDE DEF p
  <2>5. /\ more \in Seq(Block) /\ file[p] \in Inode /\ promise[p] \in Promise
        /\ Len(more) \in Nat
    BY <1>1, <2>1, <2>4 DEF TypeOK
  <2>6. known => more = promise[p].body
    BY <1>1, <2>4 DEF AllKept, Kept
  <2>7. body2 \in Seq(Block) /\ Tail(req[r].parts) \in Seq(PartNo) /\ alone2 \in BOOLEAN
    BY <1>2, <2>1, <2>5, <2>6
  <2>8. body2 = IF known THEN req[r].body \o more ELSE req[r].body
    BY <2>6
  <2>3. known => \A q \in Request : pc[q] \in Writing => req[q].path # p
    <3>1. ASSUME NEW q \in Request, pc[q] \in Writing, req[q].path = p PROVE Works(q, p)
      BY <3>1 DEF IInv, Locals, Shape, Works, Writing, Changing
    <3> QED BY <2>4, <3>1 DEF IInv, HistoryInv, PromiseIdle
  <2> HIDE DEF known, more, alone2, body2, pos
  <2> DEFINE x == [req[r] EXCEPT !.part = p, !.from = file[p], !.base = pos,
                                 !.parts = Tail(req[r].parts), !.alone = alone2, !.body = body2]
  <2>9. x \in Local /\ req' = [req EXCEPT ![r] = x]
    BY <1>1, <1>2, <2>2, <2>4, <2>5, <2>7 DEF Local, pos
  <2>10. /\ x.part = p /\ x.from = file[p] /\ x.base = pos /\ x.alone = alone2 /\ x.body = body2
         /\ x.on = req[r].on /\ x.path = req[r].path /\ x.ino = req[r].ino /\ x.pos = pos
         /\ x.meta = req[r].meta /\ x.upload = req[r].upload
    BY <1>1 DEF Local, pos
  <2> HIDE DEF x
  <2>11. req'[r] = x /\ Only(r) /\ req' \in [Request -> Local]
    BY <1>1, <2>1, <2>9 DEF Only
  <2>12. TypeOK'
    BY <1>1, <2>1, <2>11 DEF TypeOK
  <2>13. Shape(r)'
    <3>1. pos <= pos
      BY <1>2 DEF pos
    <3> QED BY <1>1, <2>1, <2>4, <2>5, <2>10, <2>11, <3>1, Basics DEF Shape, Reading
  <2>14. alone2 => /\ known /\ file[req[r].path] = req[r].ino /\ pos = Len(req[r].body)
                   /\ pos <= Len(req[r].body)
                   /\ data[req[r].ino] = SubSeq(req[r].body, 1, pos)
    BY <1>1, <2>1 DEF WriterOK, alone2, pos
  <2>15. alone2 => /\ pos \in Nat /\ pos <= Len(body2) /\ Len(body2) - pos = Len(more)
                   /\ \A j \in 1 .. Len(more) : body2[pos + j] = more[j]
                   /\ SubSeq(body2, 1, pos) = SubSeq(req[r].body, 1, pos)
    <3> SUFFICES ASSUME alone2
                 PROVE  /\ pos \in Nat /\ pos <= Len(body2) /\ Len(body2) - pos = Len(more)
                        /\ \A j \in 1 .. Len(more) : body2[pos + j] = more[j]
                        /\ SubSeq(body2, 1, pos) = SubSeq(req[r].body, 1, pos)
      OBVIOUS
    <3>1. PICK s \in Seq(Block), m \in Seq(Block) : s = req[r].body /\ m = more
      BY <1>2, <2>5
    <3>2. body2 = s \o m /\ pos = Len(s)
      BY <2>8, <2>14, <3>1
    <3>3. /\ Len(s \o m) = Len(s) + Len(m) /\ Len(s) \in Nat /\ Len(m) \in Nat
          /\ \A j \in 1 .. Len(m) : (s \o m)[Len(s) + j] = m[j]
      OBVIOUS
    <3>4. SubSeq(s \o m, 1, Len(s)) = SubSeq(s, 1, Len(s))
      OBVIOUS
    <3> QED BY <3>1, <3>2, <3>3, <3>4
  <2>16. WriterOK(r)'
    BY <2>1, <2>4, <2>10, <2>11, <2>14, <2>15, Basics DEF WriterOK
  <2>17. \A q \in Request : pc'[q] \in Writing => pc[q] \in Writing /\ req'[q].path = req[q].path
    BY <2>1, <2>10, <2>11 DEF Only
  <2>18. CopierOK(r)'
    <3> SUFFICES ASSUME alone2
                 PROVE  /\ Len(data[file[p]]) = Len(body2) - pos
                        /\ \A j \in 1 .. Len(data[file[p]]) : data[file[p]][j] = body2[pos + j]
                        /\ \A q \in Request : pc'[q] \in Writing => req'[q].path # p
      BY <2>1, <2>10, <2>11 DEF CopierOK
    <3> QED BY <2>3, <2>14, <2>15, <2>17 DEF more
  <2>19. pc[r] \in Writing /\ pc[r] \in Changing
    BY <2>1 DEF Writing, Changing
  <2>20. x.alone => req[r].alone
    BY <2>10 DEF alone2
  <2> QED BY <2>1, <2>4, <2>10, <2>11, <2>12, <2>13, <2>16, <2>18, <2>19, <2>20, GoOn
<1>7. ASSUME CopyPart(r) PROVE IInv'
  <2> DEFINE pos == req[r].pos
             body == req[r].body
             base == req[r].base
             ino == req[r].ino
             part == data[req[r].from]
             b == part[(pos - base) + 1]
  <2>1. /\ pc[r] = "assemble" /\ req[r].part # None /\ pos - base < Len(part) /\ ino \in Inode
        /\ base <= pos /\ req[r].from \in Inode /\ UNCHANGED <<file, metaFile, dirs, used, pc, promise>>
    BY <1>1, <1>7 DEF CopyPart, Shape, PartLeft
  <2>2. req' = [req EXCEPT ![r].pos = pos + 1]
    BY <1>7 DEF CopyPart
  <2>3. data' = [data EXCEPT ![ino] = WriteAt(data[ino], pos, <<b>>)]
    BY <1>7 DEF CopyPart, NextOfPart
  <2>4. part \in Seq(Block) /\ data[ino] \in Seq(Block)
    BY <1>1, <2>1
  <2>5. /\ (pos - base) + 1 \in 1 .. Len(part) /\ pos + 1 \in Nat /\ base <= pos + 1
        /\ base + ((pos - base) + 1) = pos + 1
    <3>1. pos \in Nat /\ base \in Nat /\ Len(part) \in Nat
      BY <1>2, <2>4
    <3> HIDE DEF pos, base, part
    <3> QED BY <2>1, <3>1
  <2>6. <<b>> \in Seq(Block)
    BY <2>4, <2>5
  <2>7. WriteAt(data[ino], pos, <<b>>) \in Seq(Block)
    BY <1>2, <2>4, <2>6, WriteAtType
  <2> DEFINE x == [req[r] EXCEPT !.pos = pos + 1]
  <2>8. x \in Local /\ req' = [req EXCEPT ![r] = x]
    <3>1. \A n \in Nat : [req[r] EXCEPT !.pos = n] \in Local
      BY <1>1 DEF Local
    <3> QED BY <1>1, <2>2, <2>5, <3>1 DEF Local
  <2>9. /\ x.part = req[r].part /\ x.from = req[r].from /\ x.base = base /\ x.body = body
        /\ x.on = req[r].on /\ x.path = req[r].path /\ x.ino = ino /\ x.pos = pos + 1
        /\ x.meta = req[r].meta /\ x.upload = req[r].upload /\ x.alone = req[r].alone
    BY <1>1 DEF Local
  <2> HIDE DEF x
  <2>10. req'[r] = x /\ Only(r) /\ req' \in [Request -> Local]
    BY <1>1, <2>1, <2>8 DEF Only
  <2>11. /\ data' \in [Inode -> Seq(Block)] /\ data'[ino] = WriteAt(data[ino], pos, <<b>>)
         /\ \A i \in Inode : data'[i] # data[i] => i = ino
    <3> HIDE DEF ino, pos, b
    <3> QED BY <1>1, <2>1, <2>3, <2>7
  <2>12. TypeOK'
    BY <1>1, <2>1, <2>10, <2>11 DEF TypeOK
  <2>13. Shape(r)'
    BY <1>1, <2>1, <2>5, <2>9, <2>10 DEF Shape, Reading
  <2>14. req[r].alone => /\ Len(part) = Len(body) - base /\ b = body[pos + 1]
                         /\ pos < Len(body)
    <3> SUFFICES ASSUME req[r].alone
                 PROVE  Len(part) = Len(body) - base /\ b = body[pos + 1] /\ pos < Len(body)
      OBVIOUS
    <3>1. /\ Len(part) = Len(body) - base
          /\ \A j \in 1 .. Len(part) : part[j] = body[base + j]
      BY <1>1, <2>1 DEF CopierOK
    <3>2. b = body[base + ((pos - base) + 1)]
      BY <2>5, <3>1
    <3> QED BY <1>2, <2>1, <2>5, <3>1, <3>2
  <2>15. req[r].alone => file[req[r].path] = ino /\ data[ino] = SubSeq(body, 1, pos)
    BY <1>1, <2>1 DEF WriterOK
  <2>16. req[r].alone => data'[ino] = SubSeq(body, 1, pos + 1) /\ pos + 1 <= Len(body)
    <3> HIDE DEF ino, pos, body, b
    <3>1. pos \in Nat /\ body \in Seq(Block) /\ Len(body) \in Nat
      BY <1>2 DEF pos, body
    <3> SUFFICES ASSUME req[r].alone
                 PROVE  data'[ino] = SubSeq(body, 1, pos + 1) /\ pos + 1 <= Len(body)
      OBVIOUS
    <3>2. pos < Len(body) /\ b = body[pos + 1] /\ data[ino] = SubSeq(body, 1, pos)
      BY <2>14, <2>15
    <3>3. WriteAt(SubSeq(body, 1, pos), pos, <<body[pos + 1]>>) = SubSeq(body, 1, pos + 1)
      BY <3>1, <3>2, NextBlock
    <3> QED BY <2>11, <3>1, <3>2, <3>3
  <2> HIDE DEF b
  <2>17. WriterOK(r)'
    BY <2>1, <2>9, <2>10, <2>15, <2>16 DEF WriterOK
  <2>18. \A q \in Request : pc'[q] \in Writing => pc[q] \in Writing /\ req'[q].path = req[q].path
    BY <2>1, <2>9, <2>10 DEF Only
  <2>19. req[r].alone => data'[req[r].from] = data[req[r].from]
    <3> SUFFICES ASSUME req[r].alone, req[r].from = req[r].ino PROVE FALSE
      BY <2>1, <2>11
    <3>1. req[r].path = req[r].part
      BY <2>1, Basics DEF IInv, InodeInv, PartsOwn
    <3> QED BY <1>1, <2>1, <3>1 DEF CopierOK, Writing
  <2>20. CopierOK(r)'
    BY <1>1, <2>9, <2>10, <2>18, <2>19 DEF CopierOK
  <2>21. pc[r] \in Writing /\ pc[r] \in Changing
    BY <2>1 DEF Writing, Changing
  <2> HIDE DEF pos, body, base, part
  <2> QED BY <2>1, <2>9, <2>10, <2>11, <2>12, <2>13, <2>17, <2>20, <2>21, GoOn
<1>8. ASSUME ClosePart(r) PROVE IInv'
  <2>1. /\ pc[r] = "assemble" /\ req[r].part # None /\ ~PartLeft(r) /\ req[r].from \in Inode
        /\ req[r].base <= req[r].pos
        /\ UNCHANGED <<file, data, metaFile, dirs, used, pc, promise>>
    BY <1>1, <1>8 DEF ClosePart, fsVars, Shape
  <2> DEFINE x == [req[r] EXCEPT !.part = None, !.from = None, !.base = 0]
  <2>2. x \in Local /\ req' = [req EXCEPT ![r] = x]
    BY <1>1, <1>8 DEF Local, ClosePart
  <2>3. /\ x.part = None /\ x.from = None /\ x.body = req[r].body
        /\ x.on = req[r].on /\ x.path = req[r].path /\ x.ino = req[r].ino /\ x.pos = req[r].pos
        /\ x.meta = req[r].meta /\ x.upload = req[r].upload /\ x.alone = req[r].alone
    BY <1>1 DEF Local
  <2> HIDE DEF x
  <2>4. req'[r] = x /\ Only(r) /\ req' \in [Request -> Local]
    BY <1>1, <2>1, <2>2 DEF Only
  <2>5. TypeOK'
    BY <1>1, <2>1, <2>4 DEF TypeOK
  <2>6. Shape(r)' /\ CopierOK(r)'
    BY <1>1, <2>1, <2>3, <2>4 DEF Shape, Reading, CopierOK
  <2>7. req[r].alone => req[r].pos = Len(req[r].body)
    <3> SUFFICES ASSUME req[r].alone PROVE req[r].pos = Len(req[r].body)
      OBVIOUS
    <3>1. /\ Len(data[req[r].from]) = Len(req[r].body) - req[r].base
          /\ req[r].pos <= Len(req[r].body)
      BY <1>1, <2>1 DEF CopierOK, WriterOK
    <3>2. ~(req[r].pos - req[r].base < Len(data[req[r].from]))
      BY <2>1 DEF PartLeft
    <3> QED BY <1>2, <3>1, <3>2
  <2>8. WriterOK(r)'
    BY <1>1, <2>1, <2>3, <2>4, <2>7 DEF WriterOK
  <2>9. pc[r] \in Writing /\ pc[r] \in Changing
    BY <2>1 DEF Writing, Changing
  <2> QED BY <2>1, <2>3, <2>4, <2>5, <2>6, <2>8, <2>9, GoOn
<1> QED BY <1>3, <1>4, <1>5, <1>6, <1>7, <1>8

(* CompleteMultipartUpload is done with the object and goes on to remove    *)
(* the parts.                                                               *)
LEMMA AssembledStep ==
    ASSUME IInv, NEW r \in Request, CompleteAssembled(r)
    PROVE  IInv'
<1> DEFINE u == req[r].upload
           k == req[r].path
           pr == [promise EXCEPT ![k] = IF req[r].alone THEN Left(r) ELSE promise[k]]
<1>1. /\ TypeOK /\ HistoryInv /\ Shape(r) /\ WriterOK(r) /\ AllKept /\ req[r] \in Local
      /\ promise \in [Path -> Promise]
  BY DEF IInv, Locals, TypeOK
<1>2. /\ pc[r] = "assemble" /\ req[r].part = None /\ Begin(r, PartsOf(u), TRUE, NoReq)
      /\ Goto(r, "rmall") /\ UNCHANGED <<file, data, metaFile, dirs, used>>
      /\ promise' = [p \in Path |-> IF p \in PartsOf(u) THEN Unknown
                                    ELSE IF p = k /\ req[r].alone THEN Left(r) ELSE promise[p]]
  BY DEF CompleteAssembled, fsVars
<1>3. /\ k \in Key /\ k \in Path /\ req[r].on = {k} /\ u \in Upload /\ req[r].meta = None
      /\ req[r].ino \in Inode /\ PartsOf(u) \in SUBSET Path
  BY <1>1, <1>2, Basics DEF Shape
<1>4. Left(r) \in LeftType /\ Left(r).body = req[r].body /\ Left(r).meta = None
  BY <1>1, <1>3 DEF Left, LeftType, Local
<1>5. Works(r, k) /\ promise[k] = Unknown
  BY <1>1, <1>2, <1>3 DEF Works, Changing, HistoryInv, PromiseIdle
<1>6. req[r].alone => Kept(k, Left(r)) /\ \A q \in Request : q # r => ~Works(q, k)
  <2> SUFFICES ASSUME req[r].alone
               PROVE  Kept(k, Left(r)) /\ \A q \in Request : q # r => ~Works(q, k)
    OBVIOUS
  <2>1. /\ file[k] = req[r].ino /\ req[r].pos = Len(req[r].body)
        /\ data[req[r].ino] = SubSeq(req[r].body, 1, req[r].pos)
    BY <1>1, <1>2 DEF WriterOK
  <2>2. SubSeq(req[r].body, 1, Len(req[r].body)) = req[r].body
    BY <1>1 DEF Local
  <2>3. Kept(k, Left(r))
    BY <1>3, <1>4, <2>1, <2>2, Basics DEF Kept
  <2> QED BY <1>1, <1>3, <1>5, <2>3 DEF HistoryInv, AloneOK
<1>7. /\ pr \in [Path -> Promise]
      /\ \A p \in Path : pr[p] = IF p = k /\ req[r].alone THEN Left(r) ELSE promise[p]
  BY <1>1, <1>3, <1>4 DEF Promise
<1> HIDE DEF pr, u, k
<1>8. promise' = [p \in Path |-> IF p \in PartsOf(u) THEN Unknown ELSE pr[p]]
  BY <1>2, <1>7
<1>9. Leaves(r, PartsOf(u), pr)
  BY <1>5, <1>6, <1>7, <1>8 DEF Leaves
<1> QED BY <1>2, <1>3, <1>9, RemoveAllBegins

(* os.RemoveAll is at work on all it removes, so that nobody else is alone  *)
(* there and nothing is promised.                                           *)
LEMMA RemoveOneStep ==
    ASSUME IInv, NEW r \in Request, RemoveOne(r)
    PROVE  IInv'
<1> DEFINE on == req[r].on
<1>1. /\ TypeOK /\ InodeInv /\ HistoryInv /\ Locals /\ AllKept /\ pc[r] = "rmall"
      /\ UNCHANGED <<data, used, pc, req, promise>> /\ req \in [Request -> Local]
      /\ on \subseteq Path
  BY DEF IInv, RemoveOne, TypeOK, Local
<1>2. /\ file' \in [Path -> Inode \cup {None}] /\ metaFile' \in [Key -> Meta \cup {None, Blank}]
      /\ dirs' \subseteq Upload /\ \A p \in Path : file'[p] # None => file'[p] = file[p]
      /\ \A p \in Path : p \notin on => file'[p] = file[p]
      /\ \A p \in Key : p \notin on => metaFile'[p] = metaFile[p]
  BY <1>1 DEF RemoveOne, TypeOK, Unlink
<1>3. \A p \in on : Works(r, p) /\ promise[p] = Unknown
  <2>1. \A p \in on : Works(r, p)
    BY <1>1 DEF Works, Changing
  <2> QED BY <1>1, <2>1 DEF HistoryInv, PromiseIdle
<1>4. \A q \in Request, p \in Path : q # r /\ Works(q, p) /\ req[q].alone => p \notin on
  BY <1>1, <1>3 DEF HistoryInv, AloneOK
<1>5. TypeOK'
  BY <1>1, <1>2 DEF TypeOK
<1>6. InodeInv'
  BY <1>1, <1>2 DEF InodeInv, FilesDiffer, HoldersOwn, PartsOwn
<1>7. HistoryInv'
  BY <1>1 DEF HistoryInv, AloneOK, PromiseIdle, Works
<1>8. ASSUME NEW q \in Request, q # r
      PROVE (Shape(q) /\ WriterOK(q) /\ CopierOK(q) /\ ReaderOK(q))'
  <2>1. Same(q) /\ pc'[r] \notin Writing
    BY <1>1, SameLemma DEF Writing
  <2>2. pc[q] \in Reading => req[q].path \in Path
    BY <1>1, Basics DEF Locals, Shape
  <2>3. pc[q] \in {"copy", "meta", "write_meta", "assemble", "del_meta"} =>
           Works(q, req[q].path) /\ req[q].path \in Path
    BY <1>1, Basics DEF Locals, Shape, Works, Changing
  <2>4. pc[q] \in {"copy", "meta", "write_meta", "assemble", "del_meta"} /\ req'[q].alone =>
           file'[req[q].path] = file[req[q].path]
    BY <1>1, <1>2, <1>4, <1>8, <2>3
  <2>5. \A o \in Request : o # r => pc'[o] = pc[o] /\ req'[o].path = req[o].path
    BY <1>1
  <2>6. \A i \in Inode : data'[i] = data[i]
    BY <1>1
  <2>7. /\ pc[q] \in Reading /\ promise[req[q].path] # Unknown =>
              file'[req[q].path] = file[req[q].path]
        /\ promise' = promise
    BY <1>1, <1>2, <1>3, <2>2
  <2>8. pc[q] = "write_meta" /\ req'[q].alone => metaFile'[req[q].path] = metaFile[req[q].path]
    BY <1>1, <1>2, <1>3, <1>8, <2>1, MetaKept
  <2> QED BY <1>1, <1>8, <2>1, <2>4, <2>5, <2>6, <2>7, <2>8, OthersKeep
<1>9. (Shape(r) /\ WriterOK(r) /\ CopierOK(r) /\ ReaderOK(r))'
  BY <1>1 DEF Locals, Shape, WriterOK, CopierOK, ReaderOK, Reading
<1>10. ASSUME NEW p \in Path PROVE Kept(p, promise[p])'
  <2>1. promise'[p] # Unknown => /\ promise'[p] = promise[p] /\ file'[p] = file[p]
                                 /\ file[p] # None => data'[file[p]] = data[file[p]]
                                 /\ p \in Key => metaFile'[p] = metaFile[p]
    BY <1>1, <1>2, <1>3
  <2> QED BY <1>1, <2>1, KeptFrame DEF AllKept
<1> QED BY <1>5, <1>6, <1>7, <1>8, <1>9, <1>10 DEF IInv, Locals, AllKept

---------------------------------------------------------------------------
(* Readers. *)

(* A step of a reader changes no file; it may open one. *)
LEMMA LookFrame ==
    ASSUME IInv, NEW r \in Request, Only(r), pc[r] \notin Changing,
           pc' \in [Request -> Pcs], pc'[r] \notin Changing,
           NEW new \in Local, req' = [req EXCEPT ![r] = new],
           UNCHANGED <<file, data, metaFile, dirs, used, promise>>,
           \/ new.ino = None
           \/ new.ino = req[r].ino /\ new.path = req[r].path
           \/ new.path \in Path /\ new.ino = file[new.path],
           new.part = None, new.from = None, Shape(r)', ReaderOK(r)'
    PROVE  IInv'
<1>1. TypeOK /\ InodeInv /\ HistoryInv /\ Locals /\ AllKept /\ req'[r] = new
  BY DEF IInv, TypeOK
<1>2. TypeOK'
  BY <1>1 DEF TypeOK
<1>3. \A q \in Request : q # r => req'[q] = req[q] /\ pc'[q] = pc[q]
  BY DEF Only
<1>4. InodeInv'
  <2>1. FilesDiffer'
    BY <1>1 DEF InodeInv, FilesDiffer
  <2>2. ASSUME NEW q \in Request, req'[q].ino # None, NEW p \in Path, file[p] = req'[q].ino
        PROVE  p = req'[q].path
    BY <1>1, <1>3, <2>2 DEF InodeInv, FilesDiffer, HoldersOwn
  <2>3. ASSUME NEW q \in Request, NEW o \in Request, q # r, o # r,
               req'[q].ino # None, req'[o].ino = req'[q].ino
        PROVE  req'[o].path = req'[q].path
    BY <1>1, <1>3, <2>3 DEF InodeInv, HoldersOwn
  <2>4. ASSUME NEW q \in Request, q # r, req'[q].ino # None, new.ino = req'[q].ino
        PROVE  new.path = req'[q].path
    BY <1>1, <1>3, <2>4 DEF InodeInv, HoldersOwn
  <2>5. HoldersOwn'
    BY <1>1, <2>2, <2>3, <2>4 DEF HoldersOwn
  <2>6. ASSUME NEW q \in Request, q # r, req'[q].from # None
        PROVE  /\ \A p \in Path : file[p] = req'[q].from => p = req'[q].part
               /\ \A o \in Request : req'[o].ino = req'[q].from => req'[o].path = req'[q].part
    BY <1>1, <1>3, <2>6 DEF InodeInv, PartsOwn
  <2>7. PartsOwn'
    BY <1>1, <2>6 DEF PartsOwn
  <2> QED BY <2>1, <2>5, <2>7 DEF InodeInv
<1>5. HistoryInv'
  <2>1. \A q \in Request, p \in Path : Works(q, p)' => q # r /\ Works(q, p)
    BY <1>3 DEF Works
  <2> QED BY <1>1, <1>3, <2>1 DEF HistoryInv, AloneOK, PromiseIdle
<1>6. ASSUME NEW q \in Request, q # r PROVE (Shape(q) /\ WriterOK(q) /\ CopierOK(q) /\ ReaderOK(q))'
  <2>1. Same(q) /\ \A o \in Request : o # r => pc'[o] = pc[o] /\ req'[o].path = req[o].path
    BY <1>1, <1>6, OnlyFacts DEF Only
  <2>2. pc'[r] \notin Writing
    BY DEF Writing, Changing
  <2> QED BY <1>1, <1>6, <2>1, <2>2, OthersKeep
<1>7. WriterOK(r)' /\ CopierOK(r)'
  BY <1>1 DEF WriterOK, CopierOK, Changing
<1>8. AllKept'
  BY <1>1 DEF AllKept, Kept
<1> QED BY <1>2, <1>4, <1>5, <1>6, <1>7, <1>8 DEF IInv, Locals

(* A request that returns without having changed anything. *)
LEMMA LookEnds ==
    ASSUME IInv, NEW r \in Request, pc[r] \notin Changing, Return(r),
           UNCHANGED <<file, data, metaFile, dirs, used, promise>>
    PROVE  IInv'
<1>1. /\ pc' \in [Request -> Pcs] /\ pc'[r] = "idle" /\ Only(r) /\ NoReq \in Local
      /\ req' = [req EXCEPT ![r] = NoReq] /\ req'[r] = NoReq
  BY Basics DEF IInv, TypeOK, Return, Pcs, Only
<1>2. NoReq.ino = None /\ NoReq.want = Unknown /\ NoReq.part = None /\ NoReq.from = None
  BY DEF NoReq
<1>3. Shape(r)' /\ ReaderOK(r)'
  BY <1>1, <1>2 DEF Shape, ReaderOK, Reading
<1>4. pc'[r] \notin Changing
  BY <1>1 DEF Changing
<1> QED BY <1>1, <1>2, <1>3, <1>4, LookFrame

(* Stat notes what is promised of the object and announces the length of    *)
(* the file.                                                                *)
LEMMA StatStep ==
    ASSUME IInv, NEW r \in Request, NEW k \in Key, NEW op \in {"get", "head"}, Stat(r, k, op)
    PROVE  IInv'
<1> DEFINE new == [NoReq EXCEPT !.op = op, !.on = {k}, !.path = k,
                                !.size = Len(data[file[k]]), !.want = promise[k]]
<1>1. /\ TypeOK /\ AllKept /\ k \in Path /\ pc[r] = "idle" /\ file[k] # None
      /\ req' = [req EXCEPT ![r] = new] /\ UNCHANGED <<file, data, metaFile, dirs, used, promise>>
  BY Basics DEF IInv, Stat, fsVars
<1>2. file[k] \in Inode /\ data[file[k]] \in Seq(Block) /\ promise[k] \in Promise
  BY <1>1 DEF TypeOK
<1>3. Len(data[file[k]]) \in Nat
  BY <1>2
<1>4. /\ new \in Local /\ new.op = op /\ new.on = {k} /\ new.path = k /\ new.ino = None
      /\ new.size = Len(data[file[k]]) /\ new.want = promise[k] /\ new.body = <<>>
      /\ new.part = None /\ new.from = None
  BY <1>1, <1>2, <1>3, Basics, EmptySeq DEF Local, NoReq, Ops
<1>5. /\ pc' \in [Request -> Pcs] /\ pc'[r] = IF op = "get" THEN "open" ELSE "getmeta"
      /\ \A q \in Request : q # r => pc'[q] = pc[q]
  BY <1>1 DEF Stat, Goto, TypeOK, Pcs, Reading
<1> HIDE DEF new
<1>6. req'[r] = new /\ Only(r)
  BY <1>1, <1>5 DEF TypeOK, Only
<1>7. Shape(r)'
  BY <1>4, <1>5, <1>6 DEF Shape, Reading
<1>8. new.want # Unknown => new.want \in LeftType /\ new.size = Len(new.want.body)
  BY <1>1, <1>2, <1>4 DEF AllKept, Kept, Promise
<1>9. ReaderOK(r)'
  BY <1>1, <1>4, <1>5, <1>6, <1>8 DEF ReaderOK
<1>10. pc[r] \notin Changing /\ pc'[r] \notin Changing
  BY <1>1, <1>5 DEF Changing
<1> QED BY <1>1, <1>4, <1>5, <1>6, <1>7, <1>9, <1>10, LookFrame

(* The body of an object that nobody changes is read in order. *)
LEMMA ReadNext ==
    ASSUME NEW want \in Seq(Block), NEW body \in Seq(Block), Len(body) < Len(want),
           body = SubSeq(want, 1, Len(body))
    PROVE  LET more == Append(body, want[Len(body) + 1]) IN
           /\ more \in Seq(Block) /\ Len(more) <= Len(want)
           /\ more = SubSeq(want, 1, Len(more))
<1> DEFINE n == Len(body)
<1>1. n \in Nat /\ n + 1 <= Len(want) /\ Len(want) \in Nat /\ want[n + 1] \in Block
  OBVIOUS
<1>2. Append(body, want[n + 1]) \in Seq(Block) /\ Len(Append(body, want[n + 1])) = n + 1
  BY <1>1
<1>3. SubSeq(want, 1, n + 1) = Append(SubSeq(want, 1, n), want[n + 1])
  BY <1>1
<1> QED BY <1>1, <1>2, <1>3

(* The steps of a reader after Stat. *)
LEMMA LookStep ==
    ASSUME IInv, NEW r \in Request, GetOpen(r) \/ GetMeta(r) \/ ReadBlock(r) \/ Finish(r)
    PROVE  IInv'
<1>1. /\ TypeOK /\ Shape(r) /\ ReaderOK(r) /\ AllKept /\ HistoryInv /\ Locals
      /\ req[r] \in Local /\ req \in [Request -> Local] /\ pc \in [Request -> Pcs]
      /\ pc[r] # "assemble" /\ req[r].part = None /\ req[r].from = None
  BY DEF IInv, Locals, TypeOK, Shape, GetOpen, GetMeta, ReadBlock, Finish
<1>2. UNCHANGED <<file, data, metaFile, dirs, used, promise>>
  BY DEF GetOpen, GetMeta, ReadBlock, Finish, fsVars
<1>3. ASSUME NEW x \in Local, NEW l \in {"getmeta", "read", "replied"},
             req' = [req EXCEPT ![r] = x], pc' = [pc EXCEPT ![r] = l]
      PROVE  /\ req'[r] = x /\ Only(r) /\ pc' \in [Request -> Pcs] /\ pc'[r] = l
             /\ pc'[r] \notin Changing
  BY <1>1, <1>3 DEF Only, Pcs, Reading, Changing
<1>4. ASSUME GetOpen(r) PROVE IInv'
  <2>1. pc[r] = "open" /\ pc[r] \notin Changing /\ req[r].path \in Path /\ req[r].path \in Key
    BY <1>1, <1>4, Basics DEF GetOpen, Changing, Shape, Reading
  <2>2. CASE Return(r)
    BY <1>2, <2>1, <2>2, LookEnds
  <2>3. CASE /\ file[req[r].path] # None /\ req' = [req EXCEPT ![r].ino = file[req[r].path]]
             /\ Goto(r, "getmeta")
    <3> DEFINE x == [req[r] EXCEPT !.ino = file[req[r].path]]
    <3>1. req' = [req EXCEPT ![r] = x] /\ pc' = [pc EXCEPT ![r] = "getmeta"]
      BY <1>1, <2>3 DEF Local, Goto
    <3>2. file[req[r].path] \in Inode
      BY <1>1, <2>1, <2>3 DEF TypeOK
    <3>3. /\ x \in Local /\ x.ino = file[req[r].path] /\ x.path = req[r].path
          /\ x.on = req[r].on /\ x.op = req[r].op /\ x.want = req[r].want /\ x.size = req[r].size
          /\ x.body = req[r].body /\ x.meta = req[r].meta /\ x.part = None /\ x.from = None
      BY <1>1, <3>2 DEF Local
    <3> HIDE DEF x
    <3>4. /\ req'[r] = x /\ Only(r) /\ pc' \in [Request -> Pcs] /\ pc'[r] = "getmeta"
          /\ pc'[r] \notin Changing
      BY <1>3, <3>1, <3>3
    <3>5. Shape(r)'
      BY <1>1, <2>1, <3>2, <3>3, <3>4 DEF Shape, Reading
    <3>6. ReaderOK(r)'
      BY <1>1, <1>2, <2>1, <3>3, <3>4 DEF ReaderOK, Reading
    <3> QED BY <1>2, <2>1, <3>1, <3>3, <3>4, <3>5, <3>6, LookFrame
  <2> QED BY <1>4, <2>2, <2>3 DEF GetOpen
<1>5. ASSUME GetMeta(r) PROVE IInv'
  <2> DEFINE l == IF req[r].op = "get" THEN "read" ELSE "replied"
             path == req[r].path
             m == Metadata(path)
             x == [req[r] EXCEPT !.meta = m]
  <2>1. /\ pc[r] = "getmeta" /\ pc[r] \notin Changing /\ path \in Path /\ path \in Key
        /\ req[r].on = {path}
    BY <1>1, <1>5, Basics DEF GetMeta, Changing, Shape, Reading
  <2>2. req' = [req EXCEPT ![r] = x] /\ pc' = [pc EXCEPT ![r] = l]
    BY <1>1, <1>5 DEF GetMeta, Local, Goto
  <2>3. /\ m \in Meta \cup {None} /\ l \in {"getmeta", "read", "replied"}
        /\ metaFile[path] \in Meta => m = metaFile[path]
    BY <1>1, <2>1, Basics DEF TypeOK, Metadata
  <2> HIDE DEF m
  <2>4. /\ x \in Local /\ x.part = None /\ x.from = None /\ x.ino = req[r].ino /\ x.path = path /\ x.on = req[r].on
        /\ x.op = req[r].op /\ x.want = req[r].want /\ x.size = req[r].size
        /\ x.body = req[r].body /\ x.meta = m
    BY <1>1, <2>3 DEF Local
  <2> HIDE DEF x
  <2>5. /\ req'[r] = x /\ Only(r) /\ pc' \in [Request -> Pcs] /\ pc'[r] = l
        /\ pc'[r] \notin Changing
    BY <1>3, <2>2, <2>3, <2>4
  <2>6. Shape(r)'
    BY <1>1, <2>1, <2>4, <2>5 DEF Shape, Reading
  <2>7. ReaderOK(r)'
    <3> SUFFICES ASSUME x.want # Unknown PROVE ReaderOK(r)'
      BY <2>5 DEF ReaderOK
    <3>1. /\ x.want \in LeftType /\ x.size = Len(x.want.body) /\ promise[path] = x.want
          /\ x.body = <<>> /\ (x.op = "get" => x.ino = file[path])
      BY <1>1, <2>1, <2>4 DEF ReaderOK, Reading
    <3>2. /\ file[path] # None /\ data[file[path]] = x.want.body
          /\ x.want.meta # None => x.meta = x.want.meta
      <4>1. x.want.meta \in Meta \cup {None}
        BY <3>1 DEF LeftType
      <4> QED BY <1>1, <2>1, <2>3, <2>4, <3>1, <4>1, Basics DEF AllKept, Kept
    <3>3. ASSUME NEW q \in Request, pc'[q] \in Writing PROVE req'[q].path # x.path
      <4>1. q # r /\ pc[q] \in Writing /\ req'[q] = req[q]
        BY <2>5, <3>3 DEF Only, Writing
      <4>2. req[q].on = {req[q].path} /\ pc[q] \in Changing
        BY <1>1, <4>1 DEF Locals, Shape, Writing, Changing
      <4> QED BY <1>1, <2>1, <2>4, <3>1, <4>1, <4>2 DEF HistoryInv, PromiseIdle, Works
    <3>4. /\ x.want.body \in Seq(Block) /\ Len(x.body) = 0 /\ 0 <= Len(x.want.body)
          /\ SubSeq(x.want.body, 1, 0) = <<>>
      BY <3>1, EmptySeq DEF LeftType
    <3>5. pc'[r] \notin {"open", "getmeta"} /\ (pc'[r] = "replied" => x.op # "get")
          /\ (pc'[r] = "read" => x.op = "get")
      BY <2>4, <2>5
    <3> HIDE DEF l, path
    <3> QED BY <1>2, <2>4, <2>5, <3>1, <3>2, <3>3, <3>4, <3>5 DEF ReaderOK
  <2> HIDE DEF l
  <2> QED BY <1>2, <2>1, <2>2, <2>4, <2>5, <2>6, <2>7, LookFrame
<1>6. ASSUME ReadBlock(r) PROVE IInv'
  <2> DEFINE s == data[req[r].ino]
             body == req[r].body
  <2>1. /\ pc[r] = "read" /\ pc[r] \notin Changing /\ req[r].ino \in Inode /\ s \in Seq(Block)
        /\ body \in Seq(Block)
    BY <1>1, <1>6 DEF ReadBlock, Changing, Shape, TypeOK, Local
  <2>2. req[r].want # Unknown => /\ req[r].want \in LeftType /\ s = req[r].want.body
                                 /\ Len(body) <= Len(s) /\ body = SubSeq(s, 1, Len(body))
    BY <1>1, <2>1 DEF ReaderOK, Reading
  <2>3. CASE /\ Len(body) < Len(s) /\ req' = [req EXCEPT ![r].body = Append(body, s[Len(body) + 1])]
             /\ UNCHANGED pc
    <3> DEFINE more == Append(body, s[Len(body) + 1])
               x == [req[r] EXCEPT !.body = more]
    <3>1. more \in Seq(Block)
      BY <2>1, <2>3
    <3>2. req' = [req EXCEPT ![r] = x] /\ pc' = [pc EXCEPT ![r] = "read"]
      BY <1>1, <2>1, <2>3 DEF Local
    <3>3. req[r].want # Unknown => Len(more) <= Len(s) /\ more = SubSeq(s, 1, Len(more))
      BY <2>1, <2>2, <2>3, ReadNext
    <3> HIDE DEF more
    <3>4. /\ x \in Local /\ x.ino = req[r].ino /\ x.path = req[r].path /\ x.on = req[r].on
          /\ x.op = req[r].op /\ x.want = req[r].want /\ x.size = req[r].size
          /\ x.body = more /\ x.meta = req[r].meta /\ x.part = None /\ x.from = None
      BY <1>1, <3>1 DEF Local
    <3> HIDE DEF x
    <3>5. /\ req'[r] = x /\ Only(r) /\ pc' \in [Request -> Pcs] /\ pc'[r] = "read"
          /\ pc'[r] \notin Changing
      BY <1>3, <3>2, <3>4
    <3>6. Shape(r)'
      BY <1>1, <2>1, <3>4, <3>5 DEF Shape, Reading
    <3>7. \A q \in Request : pc'[q] \in Writing => pc[q] \in Writing /\ req'[q].path = req[q].path
      BY <3>4, <3>5 DEF Only, Writing
    <3>8. ReaderOK(r)'
      BY <1>1, <1>2, <2>1, <2>2, <3>3, <3>4, <3>5, <3>7 DEF ReaderOK, Reading
    <3> QED BY <1>2, <2>1, <3>2, <3>4, <3>5, <3>6, <3>8, LookFrame
  <2>4. CASE Len(body) >= Len(s) /\ Goto(r, "replied") /\ UNCHANGED req
    <3>1. req' = [req EXCEPT ![r] = req[r]] /\ pc' = [pc EXCEPT ![r] = "replied"]
      BY <1>1, <2>4 DEF Goto
    <3>2. /\ req'[r] = req[r] /\ Only(r) /\ pc' \in [Request -> Pcs] /\ pc'[r] = "replied"
          /\ pc'[r] \notin Changing
      BY <1>1, <1>3, <3>1
    <3>3. Shape(r)'
      BY <1>1, <2>1, <3>2 DEF Shape, Reading
    <3>4. req[r].want # Unknown => body = s
      BY <2>1, <2>2, <2>4
    <3>5. ReaderOK(r)'
      BY <1>1, <2>1, <2>2, <3>2, <3>4 DEF ReaderOK, Reading
    <3> QED BY <1>1, <1>2, <2>1, <3>1, <3>2, <3>3, <3>5, LookFrame
  <2> QED BY <1>6, <2>3, <2>4 DEF ReadBlock
<1>7. ASSUME Finish(r) PROVE IInv'
  BY <1>2, <1>7, LookEnds DEF Finish, Changing
<1> QED BY <1>4, <1>5, <1>6, <1>7

---------------------------------------------------------------------------
(* The invariant holds initially ... *)
LEMMA InitInv == Init => IInv
<1> SUFFICES ASSUME Init PROVE IInv
  OBVIOUS
<1>1. TypeOK
  BY Basics, EmptySeq DEF Init, TypeOK, Pcs, Promise
<1>2. InodeInv
  BY DEF Init, InodeInv, FilesDiffer, HoldersOwn, PartsOwn, NoReq
<1>3. HistoryInv
  BY DEF Init, HistoryInv, AloneOK, PromiseIdle, Works, Changing
<1>4. Locals
  BY DEF Init, Locals, Shape, WriterOK, CopierOK, ReaderOK, NoReq, Reading
<1>5. AllKept
  BY Basics DEF Init, AllKept, Kept
<1> QED BY <1>1, <1>2, <1>3, <1>4, <1>5 DEF IInv

(* ... survives the process being killed ... *)
LEMMA CrashStep == IInv /\ Crash => IInv'
<1> SUFFICES ASSUME IInv, Crash PROVE IInv'
  OBVIOUS
<1>1. /\ TypeOK /\ InodeInv /\ AllKept /\ UNCHANGED <<file, data, metaFile, dirs, used, promise>>
      /\ \A q \in Request : pc'[q] = "idle" /\ req'[q] = NoReq
  BY DEF IInv, Crash, fsVars
<1>2. TypeOK'
  BY <1>1, Basics DEF Crash, TypeOK, Pcs
<1>3. InodeInv'
  BY <1>1 DEF InodeInv, FilesDiffer, HoldersOwn, PartsOwn, NoReq
<1>4. HistoryInv'
  BY <1>1 DEF HistoryInv, AloneOK, PromiseIdle, Works, Changing
<1>5. Locals'
  BY <1>1 DEF Locals, Shape, WriterOK, CopierOK, ReaderOK, NoReq, Reading
<1>6. AllKept'
  BY <1>1 DEF AllKept, Kept
<1> QED BY <1>2, <1>3, <1>4, <1>5, <1>6 DEF IInv

(* ... and every other step. *)
LEMMA NextInv == IInv /\ [Next]_vars => IInv'
<1> SUFFICES ASSUME IInv, [Next]_vars PROVE IInv'
  OBVIOUS
<1>1. ASSUME NEW r \in Request, Change(r) PROVE IInv'
  <2>1. CASE \/ \E k \in Key : PutObject(r, k)
             \/ \E u \in Upload, n \in PartNo : UploadPart(r, u, n)
             \/ \E k \in Key, u \in Upload : CompleteMultipartUpload(r, k, u)
    BY <2>1, CreatingStep
  <2>2. CASE \/ \E k \in Key : DeleteObject(r, k) \/ DeleteObjectFails(r, k)
             \/ \E u \in Upload : AbortMultipartUpload(r, u)
             \/ DeleteBucket(r)
    BY <2>2, RemovingStep
  <2>3. CASE CopyBlock(r) \/ PutMeta(r) \/ OpenPart(r) \/ CopyPart(r) \/ ClosePart(r)
    BY <2>3, WritingStep
  <2>4. CASE CopyDone(r)
    BY <2>4, WritingStep, EndingStep
  <2>5. CASE \/ WriteMeta(r) \/ WriteFails(r) \/ DeleteMeta(r)
             \/ RemoveDone(r) \/ RemoveFails(r) \/ CompletePartFails(r)
    BY <2>5, EndingStep
  <2>6. CASE RemoveOne(r)
    BY <2>6, RemoveOneStep
  <2>7. CASE CompleteAssembled(r)
    BY <2>7, AssembledStep
  <2> QED BY <1>1, <2>1, <2>2, <2>3, <2>4, <2>5, <2>6, <2>7 DEF Change
<1>2. ASSUME NEW r \in Request, Look(r) PROVE IInv'
  BY <1>2, StatStep, LookStep DEF Look, GetObject, HeadObject
<1>3. ASSUME NEW u \in Upload, InitiateMultipartUpload(u) PROVE IInv'
  <2>1. /\ UNCHANGED <<file, data, metaFile, pc, req, promise>>
        /\ dirs' = dirs \cup {u} /\ used' = used \cup {u}
    BY <1>3 DEF InitiateMultipartUpload
  <2> QED BY <2>1 DEF IInv, TypeOK, InodeInv, FilesDiffer, HoldersOwn, PartsOwn, HistoryInv, AloneOK,
                    PromiseIdle, Works, Locals, Shape, WriterOK, CopierOK, ReaderOK, AllKept, Kept
<1>5. CASE Crash
  BY <1>5, CrashStep
<1>6. CASE UNCHANGED vars
  BY <1>6 DEF vars, IInv, TypeOK, InodeInv, FilesDiffer, HoldersOwn, PartsOwn, HistoryInv, AloneOK,
              PromiseIdle, Works, Locals, Shape, WriterOK, CopierOK, ReaderOK, AllKept, Kept
<1> QED BY <1>1, <1>2, <1>3, <1>5, <1>6 DEF Next

---------------------------------------------------------------------------
(* The inductive invariant holds in every state the backend can reach. *)
THEOREM Invariance == Spec => []IInv
  BY InitInv, NextInv, PTL DEF Spec

(* What an acknowledged request of the filesystem backend left stays, as    *)
(* long as no other request that changes the same object or part begins:    *)
(* through crashes, and whatever is done to other keys, uploads, readers.   *)
THEOREM AcknowledgedStays == Spec => []AcknowledgedIsKept
<1>1. IInv => AcknowledgedIsKept
  BY KeptIs DEF IInv
<1> QED BY <1>1, Invariance, PTL

(* A GET that no change of its object crosses delivers the body and the     *)
(* metadata acknowledged, with the length announced, also when the object   *)
(* is deleted once it is open.                                              *)
THEOREM ReadsAreExact == Spec => []UndisturbedReadsAreExact
<1>1. IInv => UndisturbedReadsAreExact
  BY DEF IInv, Locals, ReaderOK, UndisturbedReadsAreExact
<1> QED BY <1>1, Invariance, PTL

---------------------------------------------------------------------------
(* ListParts. *)

(* A non-empty set of numbers has a least one. *)
LEMMA LeastNumber ==
    ASSUME NEW T, T \subseteq Nat, T # {}
    PROVE  \E x \in T : \A y \in T : x <= y
<1> DEFINE R == OpToRel(<, Nat)
<1>1. IsWellFoundedOn(R, Nat)
  BY NatLessThanWellFounded
<1>2. \A x, y \in Nat : y < x => <<y, x>> \in R
  BY DEF OpToRel
<1> HIDE DEF R
<1>3. PICK x \in T : \A y \in T : <<y, x>> \notin R
  BY <1>1, WFMin
<1>4. ASSUME NEW y \in T PROVE x <= y
  <2>1. x \in Nat /\ y \in Nat /\ ~(y < x)
    BY <1>2, <1>3
  <2> QED BY <2>1
<1> QED BY <1>4

(* So a set that has zero, and the successor of each of its members, has    *)
(* every number.                                                            *)
LEMMA Induction ==
    ASSUME NEW T, 0 \in T, \A n \in Nat : n \in T => n + 1 \in T
    PROVE  Nat \subseteq T
<1> SUFFICES ASSUME Nat \ T # {} PROVE FALSE
  OBVIOUS
<1>1. PICK m \in Nat \ T : \A y \in Nat \ T : m <= y
  BY LeastNumber
<1>2. m # 0 /\ m - 1 \in Nat
  BY <1>1
<1>3. m - 1 \in T
  BY <1>1, <1>2
<1>4. (m - 1) + 1 \in T
  BY <1>2, <1>3
<1> QED BY <1>1, <1>2, <1>4

(* The recursion that ListedAfter is defined by has a solution. *)
LEMMA ListedAfterExists ==
    ASSUME NEW u, NEW max, NEW from
    PROVE  \E f : f = [i \in Nat |->
              IF i = 0 THEN <<>> ELSE WithEntry(f[i - 1], u, NameOrder[i], max, from)]
<1> DEFINE On(s, i) == WithEntry(s, u, NameOrder[i], max, from)
           Good(g, n) == /\ g[0] = <<>>
                         /\ \A i \in 1 .. n : g[i] = On(g[i - 1], i)
<1> HIDE DEF On
<1>1. \A n \in Nat : \E g : Good(g, n)
  <2> DEFINE T == {n \in Nat : \E g : Good(g, n)}
  <2>1. 0 \in T
    <3>1. Good([i \in {0} |-> <<>>], 0)
      OBVIOUS
    <3> QED BY <3>1
  <2>2. ASSUME NEW n \in Nat, n \in T PROVE n + 1 \in T
    <3>1. PICK g : Good(g, n)
      BY <2>2
    <3> DEFINE h == [i \in 0 .. n + 1 |-> IF i = n + 1 THEN On(g[n], n + 1) ELSE g[i]]
    <3>2. h[0] = <<>>
      BY <3>1
    <3>3. ASSUME NEW i \in 1 .. n + 1 PROVE h[i] = On(h[i - 1], i)
      <4>1. CASE i = n + 1
        BY <4>1
      <4>2. CASE i # n + 1
        <5>1. i \in 1 .. n /\ i - 1 \in 0 .. n + 1 /\ i - 1 # n + 1 /\ i \in 0 .. n + 1
          BY <3>3, <4>2
        <5>2. h[i] = g[i] /\ h[i - 1] = g[i - 1]
          BY <5>1, <4>2
        <5> QED BY <3>1, <5>1, <5>2
      <4> QED BY <4>1, <4>2
    <3>4. Good(h, n + 1)
      BY <3>2, <3>3
    <3> HIDE DEF h, Good
    <3> QED BY <3>4
  <2> HIDE DEF T
  <2>3. Nat \subseteq T
    BY <2>1, <2>2, Induction
  <2> QED BY <2>3 DEF T
<1>2. ASSUME NEW n \in Nat, NEW g, NEW h, Good(g, n), Good(h, n)
      PROVE  \A i \in Nat : i <= n => g[i] = h[i]
  <2> DEFINE T == {i \in Nat : i <= n => g[i] = h[i]}
  <2>1. 0 \in T
    BY <1>2
  <2>2. ASSUME NEW i \in Nat, i \in T PROVE i + 1 \in T
    <3> SUFFICES ASSUME i + 1 <= n PROVE g[i + 1] = h[i + 1]
      OBVIOUS
    <3>1. i + 1 \in 1 .. n /\ (i + 1) - 1 = i /\ i <= n
      OBVIOUS
    <3> QED BY <1>2, <2>2, <3>1
  <2> HIDE DEF T
  <2>3. Nat \subseteq T
    BY <2>1, <2>2, Induction
  <2> QED BY <2>3 DEF T
<1> DEFINE G(n) == CHOOSE g : Good(g, n)
<1>3. \A n \in Nat : Good(G(n), n)
  BY <1>1
<1> HIDE DEF G
<1> DEFINE f == [i \in Nat |-> G(i)[i]]
<1>4. ASSUME NEW i \in Nat
      PROVE  f[i] = IF i = 0 THEN <<>> ELSE On(f[i - 1], i)
  <2>1. CASE i = 0
    BY <1>3, <2>1
  <2>2. CASE i # 0
    <3>1. i - 1 \in Nat /\ i \in 1 .. i /\ i - 1 <= i - 1
      BY <2>2
    <3>2. G(i)[i] = On(G(i)[i - 1], i)
      BY <1>3, <3>1
    <3>3. Good(G(i), i - 1)
      BY <1>3, <3>1
    <3>4. Good(G(i - 1), i - 1)
      BY <1>3, <3>1
    <3>5. G(i)[i - 1] = G(i - 1)[i - 1]
      <4> HIDE DEF Good
      <4> QED BY <1>2, <3>1, <3>3, <3>4
    <3> QED BY <2>2, <3>1, <3>2, <3>5
  <2> QED BY <2>1, <2>2
<1>5. f = [i \in Nat |-> IF i = 0 THEN <<>> ELSE On(f[i - 1], i)]
  BY <1>4
<1> HIDE DEF f
<1> QED BY <1>5 DEF On

(* So the loop begins with nothing and takes one entry after the other.     *)
LEMMA ListedAfterIs ==
    ASSUME NEW u, NEW max, NEW from
    PROVE  /\ ListedAfter(u, max, from)[0] = <<>>
           /\ \A i \in Nat : ListedAfter(u, max, from)[i + 1] =
                 WithEntry(ListedAfter(u, max, from)[i], u, NameOrder[i + 1], max, from)
<1> DEFINE step[i \in Nat] ==
            IF i = 0 THEN <<>> ELSE WithEntry(step[i - 1], u, NameOrder[i], max, from)
<1>1. ListedAfter(u, max, from) = step
  BY DEF ListedAfter
<1>2. step = [i \in Nat |-> IF i = 0 THEN <<>>
                            ELSE WithEntry(step[i - 1], u, NameOrder[i], max, from)]
  BY ListedAfterExists
<1> HIDE DEF step
<1>3. /\ step[0] = <<>>
      /\ \A i \in Nat : step[i + 1] = WithEntry(step[i], u, NameOrder[i + 1], max, from)
  BY <1>2
<1> QED BY <1>1, <1>3

(* After i entries the list has only parts that are there and, while it is  *)
(* not full, all of those beyond the marker.                                *)
ListsFirst(entries, i, u, max, from) ==
    /\ entries \in Seq(PartNo)
    /\ \A k \in 1 .. Len(entries) : file[<<u, entries[k]>>] # None
    /\ Len(entries) < max =>
          \A j \in 1 .. i : file[<<u, NameOrder[j]>>] # None /\ NameOrder[j] > from =>
              \E k \in 1 .. Len(entries) : entries[k] = NameOrder[j]

(* One more entry keeps to this. *)
LEMMA EntryStep ==
    ASSUME NEW u, NEW max \in Nat, NEW from \in Nat, NEW i \in Nat, i + 1 <= Len(NameOrder),
           NEW entries, ListsFirst(entries, i, u, max, from),
           NEW more, more = WithEntry(entries, u, NameOrder[i + 1], max, from)
    PROVE  ListsFirst(more, i + 1, u, max, from)
<1>1. PICK n \in PartNo : n = NameOrder[i + 1]
  <2>1. NameOrder \in Seq(PartNo) /\ Len(NameOrder) \in Nat
    BY OrderAssumption
  <2>2. i + 1 \in 1 .. Len(NameOrder)
    BY <2>1
  <2>3. NameOrder[i + 1] \in PartNo
    BY <2>1, <2>2, ElementOfSeq
  <2> QED BY <2>3
<1>2. entries \in Seq(PartNo) /\ Len(entries) \in Nat
  BY DEF ListsFirst
<1>3. CASE Len(entries) < max /\ file[<<u, n>>] # None /\ n > from
  <2>1. more = Append(entries, n)
    BY <1>1, <1>3 DEF WithEntry
  <2>2. /\ more \in Seq(PartNo) /\ Len(more) = Len(entries) + 1 /\ more[Len(entries) + 1] = n
        /\ \A k \in 1 .. Len(entries) : more[k] = entries[k]
    BY <1>2, <2>1
  <2>3. ASSUME NEW k \in 1 .. Len(more) PROVE file[<<u, more[k]>>] # None
    <3>1. CASE k = Len(entries) + 1
      BY <1>3, <2>2, <3>1
    <3>2. CASE k # Len(entries) + 1
      <4>1. k \in 1 .. Len(entries)
        BY <1>2, <2>2, <3>2
      <4> QED BY <2>2, <4>1 DEF ListsFirst
    <3> QED BY <3>1, <3>2
  <2>4. ASSUME NEW j \in 1 .. i + 1, file[<<u, NameOrder[j]>>] # None, NameOrder[j] > from
        PROVE  \E k \in 1 .. Len(more) : more[k] = NameOrder[j]
    <3>1. CASE j = i + 1
      <4>1. Len(entries) + 1 \in 1 .. Len(more)
        BY <1>2, <2>2
      <4> QED BY <1>1, <2>2, <3>1, <4>1
    <3>2. CASE j # i + 1
      <4>1. j \in 1 .. i
        BY <3>2
      <4>2. PICK k \in 1 .. Len(entries) : entries[k] = NameOrder[j]
        BY <1>3, <2>4, <4>1 DEF ListsFirst
      <4>3. k \in 1 .. Len(more)
        BY <1>2, <2>2
      <4> QED BY <2>2, <4>2, <4>3
    <3> QED BY <3>1, <3>2
  <2> QED BY <2>2, <2>3, <2>4 DEF ListsFirst
<1>4. CASE ~(Len(entries) < max /\ file[<<u, n>>] # None /\ n > from)
  <2>1. more = entries
    BY <1>1, <1>4 DEF WithEntry
  <2>2. ASSUME Len(entries) < max, NEW j \in 1 .. i + 1, file[<<u, NameOrder[j]>>] # None,
               NameOrder[j] > from
        PROVE  \E k \in 1 .. Len(entries) : entries[k] = NameOrder[j]
    <3>1. j # i + 1
      BY <1>1, <1>4, <2>2
    <3>2. j \in 1 .. i
      BY <3>1
    <3> QED BY <2>2, <3>2 DEF ListsFirst
  <2> QED BY <2>1, <2>2 DEF ListsFirst
<1> QED BY <1>3, <1>4

(* And so does the whole loop. *)
LEMMA ListedPartsAre ==
    ASSUME NEW u, NEW max \in Nat, NEW from \in Nat
    PROVE  ListsFirst(ListedParts(u, max, from), Len(NameOrder), u, max, from)
<1> DEFINE list == ListedAfter(u, max, from)
           T == {i \in Nat : i <= Len(NameOrder) => ListsFirst(list[i], i, u, max, from)}
<1>1. list[0] = <<>> /\ \A i \in Nat : list[i + 1] =
                           WithEntry(list[i], u, NameOrder[i + 1], max, from)
  BY ListedAfterIs
<1> HIDE DEF list
<1>2. 0 \in T
  <2>1. ListsFirst(<<>>, 0, u, max, from)
    BY DEF ListsFirst
  <2> QED BY <1>1, <2>1
<1>3. ASSUME NEW i \in Nat, i \in T PROVE i + 1 \in T
  <2> SUFFICES ASSUME i + 1 <= Len(NameOrder) PROVE ListsFirst(list[i + 1], i + 1, u, max, from)
    OBVIOUS
  <2>1. Len(NameOrder) \in Nat
    BY OrderAssumption
  <2>2. ListsFirst(list[i], i, u, max, from)
    BY <1>3, <2>1
  <2> QED BY <1>1, <2>2, EntryStep
<1> HIDE DEF T
<1>4. Len(NameOrder) \in T
  BY <1>2, <1>3, Induction, OrderAssumption
<1>5. ListedParts(u, max, from) = list[Len(NameOrder)]
  BY DEF ListedParts, list
<1> QED BY <1>4, <1>5, OrderAssumption DEF T

(* ListParts leaves out no acknowledged part beyond the marker when it says *)
(* that its list is complete, and lists none that is gone, whatever the     *)
(* order of the files' names.                                               *)
THEOREM EveryPartIsListed == Spec => []PartsAreListed
<1>1. AcknowledgedIsKept => PartsAreListed
  <2> SUFFICES ASSUME AcknowledgedIsKept, NEW u \in Upload, NEW max \in 1 .. MaxParts,
                      NEW from \in {0} \cup PartNo, NEW n \in PartNo, NEW entries,
                      entries = ListedParts(u, max, from)
               PROVE  /\ promise[<<u, n>>] = Gone => n \notin ToSet(entries)
                      /\ (~IsTruncated(u, max, from) /\ n > from
                           /\ promise[<<u, n>>] \notin {Gone, Unknown}) => n \in ToSet(entries)
    BY DEF PartsAreListed
  <2>1. max \in Nat /\ from \in Nat /\ <<u, n>> \in Path
    BY OrderAssumption DEF Path, Part
  <2>2. ListsFirst(entries, Len(NameOrder), u, max, from)
    BY <2>1, ListedPartsAre
  <2>3. entries \in Seq(PartNo) /\ ToSet(entries) = {entries[k] : k \in 1 .. Len(entries)}
    BY <2>2 DEF ListsFirst, ToSet
  <2>4. ASSUME promise[<<u, n>>] = Gone, n \in ToSet(entries) PROVE FALSE
    <3>1. file[<<u, n>>] = None
      BY <2>1, <2>4 DEF AcknowledgedIsKept
    <3> QED BY <2>2, <2>3, <2>4, <3>1 DEF ListsFirst
  <2>5. ASSUME ~IsTruncated(u, max, from), n > from, promise[<<u, n>>] \notin {Gone, Unknown}
        PROVE  n \in ToSet(entries)
    <3>1. file[<<u, n>>] # None
      BY <2>1, <2>5 DEF AcknowledgedIsKept
    <3>2. Len(entries) < max
      BY <2>1, <2>3, <2>5 DEF IsTruncated
    <3>3. PICK j \in 1 .. Len(NameOrder) : NameOrder[j] = n
      BY OrderAssumption DEF ToSet
    <3>4. \E k \in 1 .. Len(entries) : entries[k] = n
      BY <2>2, <2>5, <3>1, <3>2, <3>3 DEF ListsFirst
    <3> QED BY <2>3, <3>4
  <2> QED BY <2>4, <2>5
<1> QED BY <1>1, AcknowledgedStays, PTL

---------------------------------------------------------------------------
(* The order of keys and the order of the walk: both compare sequences by   *)
(* the first place where they differ, with R as the order of what is there. *)
Lex(s, t, R) ==
    \/ Len(s) < Len(t) /\ \A i \in 1 .. Len(s) : s[i] = t[i]
    \/ \E n \in 1 .. Len(s) :
          n <= Len(t) /\ (\A i \in 1 .. n - 1 : s[i] = t[i]) /\ <<s[n], t[n]>> \in R

(* A prefix agrees with what it is a prefix of. *)
LEMMA PrefixAgrees ==
    ASSUME NEW S, NEW s \in Seq(S), NEW t \in Seq(S)
    PROVE  /\ IsPrefix(s, t) <=> Len(s) <= Len(t) /\ \A i \in 1 .. Len(s) : s[i] = t[i]
           /\ IsStrictPrefix(s, t) <=> Len(s) < Len(t) /\ \A i \in 1 .. Len(s) : s[i] = t[i]
<1>1. Len(s) \in Nat /\ Len(t) \in Nat /\ DOMAIN s = 1 .. Len(s) /\ DOMAIN t = 1 .. Len(t)
  BY LenProperties
<1>2. IsPrefix(s, t) <=> Len(s) <= Len(t) /\ \A i \in 1 .. Len(s) : s[i] = t[i]
  <2> SUFFICES ASSUME Len(s) <= Len(t)
               PROVE  SubSeq(s, 1, Len(s)) = SubSeq(t, 1, Len(s)) <=>
                         \A i \in 1 .. Len(s) : s[i] = t[i]
    BY DEF IsPrefix
  <2>1. PICK m \in Nat : m = Len(s)
    BY <1>1
  <2>2. /\ SubSeq(s, 1, m) \in Seq(S) /\ Len(SubSeq(s, 1, m)) = m
        /\ \A i \in 1 .. m : SubSeq(s, 1, m)[i] = s[i]
    BY <1>1, <2>1, SubSeqProperties
  <2>3. /\ SubSeq(t, 1, m) \in Seq(S) /\ Len(SubSeq(t, 1, m)) = m
        /\ \A i \in 1 .. m : SubSeq(t, 1, m)[i] = t[i]
    BY <1>1, <2>1, SubSeqProperties
  <2>4. SubSeq(s, 1, m) = SubSeq(t, 1, m) <=> \A i \in 1 .. m : s[i] = t[i]
    BY <2>2, <2>3, SeqEqual
  <2> QED BY <2>1, <2>4
<1>3. ASSUME Len(s) = Len(t), \A i \in 1 .. Len(s) : s[i] = t[i] PROVE s = t
  BY <1>3, SeqEqual
<1>4. ASSUME Len(s) <= Len(t) PROVE Len(s) < Len(t) \/ Len(s) = Len(t)
  <2>1. PICK m \in Nat, n \in Nat : m = Len(s) /\ n = Len(t)
    BY <1>1
  <2> QED BY <1>4, <2>1
<1>5. ASSUME Len(s) < Len(t) PROVE s # t /\ Len(s) <= Len(t)
  BY <1>1, <1>5
<1>6. ASSUME IsStrictPrefix(s, t) PROVE Len(s) < Len(t) /\ \A i \in 1 .. Len(s) : s[i] = t[i]
  BY <1>2, <1>3, <1>4, <1>6 DEF IsStrictPrefix
<1>7. ASSUME Len(s) < Len(t), \A i \in 1 .. Len(s) : s[i] = t[i] PROVE IsStrictPrefix(s, t)
  BY <1>2, <1>5, <1>7 DEF IsStrictPrefix
<1> QED BY <1>2, <1>6, <1>7

(* And so do equal beginnings. *)
LEMMA SameStart ==
    ASSUME NEW S, NEW s \in Seq(S), NEW t \in Seq(S), NEW n \in 1 .. Len(s), n <= Len(t)
    PROVE  SubSeq(s, 1, n - 1) = SubSeq(t, 1, n - 1) <=> \A i \in 1 .. n - 1 : s[i] = t[i]
<1>1. Len(s) \in Nat /\ Len(t) \in Nat
  BY LenProperties
<1>2. PICK m \in Nat : m = n - 1 /\ m <= Len(s) /\ m <= Len(t)
  BY <1>1
<1>3. /\ SubSeq(s, 1, m) \in Seq(S) /\ Len(SubSeq(s, 1, m)) = m
      /\ \A i \in 1 .. m : SubSeq(s, 1, m)[i] = s[i]
  BY <1>1, <1>2, SubSeqProperties
<1>4. /\ SubSeq(t, 1, m) \in Seq(S) /\ Len(SubSeq(t, 1, m)) = m
      /\ \A i \in 1 .. m : SubSeq(t, 1, m)[i] = t[i]
  BY <1>1, <1>2, SubSeqProperties
<1>5. SubSeq(s, 1, m) = SubSeq(t, 1, m) <=> \A i \in 1 .. m : s[i] = t[i]
  BY <1>3, <1>4, SeqEqual
<1> QED BY <1>2, <1>5

(* Such an order is transitive if R is. *)
LEMMA LexTransitive ==
    ASSUME NEW S, NEW s \in Seq(S), NEW t \in Seq(S), NEW u \in Seq(S), NEW R,
           \A x, y, z \in S : <<x, y>> \in R /\ <<y, z>> \in R => <<x, z>> \in R,
           Lex(s, t, R), Lex(t, u, R)
    PROVE  Lex(s, u, R)
<1>1. /\ Len(s) \in Nat /\ Len(t) \in Nat /\ Len(u) \in Nat
      /\ \A i \in 1 .. Len(s) : s[i] \in S
      /\ \A i \in 1 .. Len(t) : t[i] \in S
      /\ \A i \in 1 .. Len(u) : u[i] \in S
  BY LenProperties, ElementOfSeq
<1>2. ASSUME NEW x \in Nat, NEW y \in Nat, x <= y PROVE \A i \in 1 .. x : i \in 1 .. y
  BY <1>2
<1>3. ASSUME NEW x \in Nat, NEW y \in Nat, x <= y, NEW i \in 1 .. x - 1
      PROVE  i \in 1 .. y /\ i \in 1 .. y - 1
  BY <1>3
<1>4. CASE Len(s) < Len(t) /\ \A i \in 1 .. Len(s) : s[i] = t[i]
  <2>1. CASE Len(t) < Len(u) /\ \A i \in 1 .. Len(t) : t[i] = u[i]
    <3>1. Len(s) < Len(u) /\ Len(s) <= Len(t)
      BY <1>1, <1>4, <2>1
    <3>2. \A i \in 1 .. Len(s) : s[i] = u[i]
      BY <1>1, <1>4, <1>2, <2>1, <3>1, Zenon
    <3> QED BY <3>1, <3>2 DEF Lex
  <2>2. ASSUME NEW n \in 1 .. Len(t), n <= Len(u), \A i \in 1 .. n - 1 : t[i] = u[i],
               <<t[n], u[n]>> \in R
        PROVE  Lex(s, u, R)
    <3>1. CASE n <= Len(s)
      <4>1. n \in 1 .. Len(s) /\ n \in Nat
        BY <1>1, <2>2, <3>1
      <4>2. (\A i \in 1 .. n - 1 : s[i] = u[i]) /\ s[n] = t[n]
        BY <1>1, <1>4, <1>3, <2>2, <3>1, <4>1, Zenon
      <4> QED BY <2>2, <4>1, <4>2 DEF Lex
    <3>2. CASE Len(s) < n
      <4>1. Len(s) < Len(u) /\ Len(s) <= Len(t)
        BY <1>1, <1>4, <2>2, <3>2
      <4>2. \A i \in 1 .. Len(s) : i \in 1 .. Len(t) /\ i \in 1 .. n - 1
        BY <1>1, <1>4, <2>2, <3>2
      <4>3. \A i \in 1 .. Len(s) : s[i] = u[i]
        BY <1>4, <2>2, <4>2, Zenon
      <4> QED BY <4>1, <4>3 DEF Lex
    <3> QED BY <1>1, <3>1, <3>2
  <2> QED BY <2>1, <2>2 DEF Lex
<1>5. ASSUME NEW m \in 1 .. Len(s), m <= Len(t), \A i \in 1 .. m - 1 : s[i] = t[i],
             <<s[m], t[m]>> \in R
      PROVE  Lex(s, u, R)
  <2>1. m \in 1 .. Len(t) /\ m \in Nat
    BY <1>1, <1>5
  <2>2. CASE Len(t) < Len(u) /\ \A i \in 1 .. Len(t) : t[i] = u[i]
    <3>1. m <= Len(u)
      BY <1>1, <1>5, <2>1, <2>2
    <3>2. (\A i \in 1 .. m - 1 : s[i] = u[i]) /\ u[m] = t[m]
      BY <1>1, <1>5, <1>3, <2>1, <2>2, Zenon
    <3> QED BY <1>5, <3>1, <3>2 DEF Lex
  <2>3. ASSUME NEW n \in 1 .. Len(t), n <= Len(u), \A i \in 1 .. n - 1 : t[i] = u[i],
               <<t[n], u[n]>> \in R
        PROVE  Lex(s, u, R)
    <3>1. n \in 1 .. Len(u) /\ n \in Nat
      BY <1>1, <2>3
    <3>2. CASE m < n
      <4>1. m <= Len(u) /\ m <= n /\ m \in 1 .. n - 1
        BY <1>1, <2>1, <2>3, <3>1, <3>2
      <4>2. (\A i \in 1 .. m - 1 : s[i] = u[i]) /\ u[m] = t[m]
        BY <1>5, <1>3, <2>1, <2>3, <3>1, <4>1, Zenon
      <4> QED BY <1>5, <4>1, <4>2 DEF Lex
    <3>3. CASE n < m
      <4>1. n \in 1 .. Len(s) /\ n <= m /\ n \in 1 .. m - 1
        BY <1>1, <1>5, <2>1, <2>3, <3>1, <3>3
      <4>2. (\A i \in 1 .. n - 1 : s[i] = u[i]) /\ s[n] = t[n]
        BY <1>5, <1>3, <2>1, <2>3, <3>1, <4>1, Zenon
      <4> QED BY <2>3, <4>1, <4>2 DEF Lex
    <3>4. CASE m = n
      <4>1. (\A i \in 1 .. n - 1 : s[i] = u[i]) /\ s[n] \in S /\ t[n] \in S /\ u[n] \in S
        BY <1>1, <1>5, <2>1, <2>3, <3>1, <3>4, Zenon
      <4>2. <<s[n], u[n]>> \in R
        BY <1>5, <2>3, <3>4, <4>1
      <4> QED BY <1>5, <2>3, <3>4, <4>1, <4>2 DEF Lex
    <3> QED BY <2>1, <3>1, <3>2, <3>3, <3>4
  <2> QED BY <2>2, <2>3 DEF Lex
<1> QED BY <1>4, <1>5 DEF Lex

LessBytes == {x \in Nat \X Nat : x[1] < x[2]}
LessNames == {x \in Name \X Name : Less(x[1], x[2])}

(* Keys are in such an order, *)
LEMMA LessIsLex ==
    ASSUME NEW s \in Seq(Nat), NEW t \in Seq(Nat)
    PROVE  Less(s, t) <=> Lex(s, t, LessBytes)
<1>1. /\ Len(s) \in Nat /\ DOMAIN s = 1 .. Len(s) /\ Len(t) \in Nat /\ DOMAIN t = 1 .. Len(t)
      /\ \A i \in 1 .. Len(s) : s[i] \in Nat
      /\ \A i \in 1 .. Len(t) : t[i] \in Nat
  BY LenProperties, ElementOfSeq
<1>2. IsStrictPrefix(s, t) <=> Len(s) < Len(t) /\ \A i \in 1 .. Len(s) : s[i] = t[i]
  BY PrefixAgrees
<1>3. ASSUME NEW n \in 1 .. Len(s), n <= Len(t)
      PROVE  /\ SubSeq(s, 1, n - 1) = SubSeq(t, 1, n - 1) <=> \A i \in 1 .. n - 1 : s[i] = t[i]
             /\ s[n] < t[n] <=> <<s[n], t[n]>> \in LessBytes
  <2>1. SubSeq(s, 1, n - 1) = SubSeq(t, 1, n - 1) <=> \A i \in 1 .. n - 1 : s[i] = t[i]
    BY <1>3, SameStart
  <2>2. s[n] \in Nat /\ t[n] \in Nat
    BY <1>1, <1>3
  <2>3. s[n] < t[n] <=> <<s[n], t[n]>> \in LessBytes
    BY <2>2 DEF LessBytes
  <2> QED BY <2>1, <2>3
<1>4. (\E n \in DOMAIN s \cap DOMAIN t : /\ SubSeq(s, 1, n - 1) = SubSeq(t, 1, n - 1)
                                         /\ s[n] < t[n])
      <=> \E n \in 1 .. Len(s) :
             n <= Len(t) /\ (\A i \in 1 .. n - 1 : s[i] = t[i]) /\ <<s[n], t[n]>> \in LessBytes
  <2>1. \A n : n \in DOMAIN s \cap DOMAIN t <=> n \in 1 .. Len(s) /\ n <= Len(t)
    BY <1>1
  <2> QED BY <1>3, <2>1
<1> QED BY <1>2, <1>4 DEF Less, Lex

(* which is strict *)
LEMMA LessIrreflexive ==
    ASSUME NEW s \in Seq(Nat)
    PROVE  ~Less(s, s)
<1>1. Len(s) \in Nat /\ \A i \in 1 .. Len(s) : s[i] \in Nat
  BY LenProperties, ElementOfSeq
<1>2. ~(Len(s) < Len(s)) /\ \A n \in 1 .. Len(s) : <<s[n], s[n]>> \notin LessBytes
  BY <1>1 DEF LessBytes
<1> QED BY <1>2, LessIsLex DEF Lex

(* and transitive. *)
LEMMA LessTransitive ==
    ASSUME NEW s \in Seq(Nat), NEW t \in Seq(Nat), NEW u \in Seq(Nat), Less(s, t), Less(t, u)
    PROVE  Less(s, u)
<1>1. \A x, y, z \in Nat :
          <<x, y>> \in LessBytes /\ <<y, z>> \in LessBytes => <<x, z>> \in LessBytes
  BY DEF LessBytes
<1>2. Lex(s, t, LessBytes) /\ Lex(t, u, LessBytes)
  BY LessIsLex
<1>3. Lex(s, u, LessBytes)
  BY <1>1, <1>2, LexTransitive
<1> QED BY <1>3, LessIsLex

(* And so are the paths of a walk. *)
LEMMA BeforeIsLex ==
    ASSUME NEW p \in Seq(Name), NEW q \in Seq(Name)
    PROVE  Before(p, q) <=> Lex(p, q, LessNames)
<1>1. /\ \A i \in 1 .. Len(p) : p[i] \in Name
      /\ \A i \in 1 .. Len(q) : q[i] \in Name
      /\ Len(p) \in Nat /\ Len(q) \in Nat
  BY LenProperties, ElementOfSeq
<1>2. IsStrictPrefix(p, q) <=> Len(p) < Len(q) /\ \A i \in 1 .. Len(p) : p[i] = q[i]
  BY PrefixAgrees
<1>3. ASSUME NEW n \in 1 .. Len(p), n <= Len(q)
      PROVE  /\ SubSeq(p, 1, n - 1) = SubSeq(q, 1, n - 1) <=> \A i \in 1 .. n - 1 : p[i] = q[i]
             /\ Less(p[n], q[n]) <=> <<p[n], q[n]>> \in LessNames
  <2>1. SubSeq(p, 1, n - 1) = SubSeq(q, 1, n - 1) <=> \A i \in 1 .. n - 1 : p[i] = q[i]
    BY <1>3, SameStart
  <2>2. p[n] \in Name /\ q[n] \in Name
    BY <1>1, <1>3
  <2>3. Less(p[n], q[n]) <=> <<p[n], q[n]>> \in LessNames
    BY <2>2 DEF LessNames
  <2> QED BY <2>1, <2>3
<1>4. (\E n \in 1 .. Len(p) : n <= Len(q) /\ SubSeq(p, 1, n - 1) = SubSeq(q, 1, n - 1)
                               /\ Less(p[n], q[n]))
      <=> \E n \in 1 .. Len(p) :
             n <= Len(q) /\ (\A i \in 1 .. n - 1 : p[i] = q[i]) /\ <<p[n], q[n]>> \in LessNames
  BY <1>3
<1> QED BY <1>2, <1>4 DEF Before, Lex

(* It is transitive too. *)
LEMMA BeforeTransitive ==
    ASSUME NEW p \in Seq(Name), NEW q \in Seq(Name), NEW r \in Seq(Name),
           Before(p, q), Before(q, r)
    PROVE  Before(p, r)
<1>1. ASSUME NEW x \in Name, NEW y \in Name, NEW z \in Name,
             <<x, y>> \in LessNames, <<y, z>> \in LessNames
      PROVE  <<x, z>> \in LessNames
  <2>1. x \in Seq(Nat) /\ y \in Seq(Nat) /\ z \in Seq(Nat) /\ Less(x, y) /\ Less(y, z)
    BY <1>1 DEF LessNames, Name
  <2>2. Less(x, z)
    BY <2>1, LessTransitive
  <2> QED BY <2>2 DEF LessNames
<1>2. Lex(p, q, LessNames) /\ Lex(q, r, LessNames)
  BY BeforeIsLex
<1>3. Lex(p, r, LessNames)
  BY <1>1, <1>2, LexTransitive
<1> QED BY <1>3, BeforeIsLex

(* And strict. *)
LEMMA BeforeIrreflexive ==
    ASSUME NEW p \in Seq(Name)
    PROVE  ~Before(p, p)
<1>1. Len(p) \in Nat /\ \A i \in 1 .. Len(p) : p[i] \in Seq(Nat)
  BY LenProperties, ElementOfSeq DEF Name
<1>2. ~(Len(p) < Len(p)) /\ \A n \in 1 .. Len(p) : <<p[n], p[n]>> \notin LessNames
  BY <1>1, LessIrreflexive DEF LessNames
<1> QED BY <1>2, BeforeIsLex DEF Lex

---------------------------------------------------------------------------
(* The inductive invariant of a listing. *)

(* What a listing has shown of an object. *)
Shown(o) ==
    \/ KeyOf(o) \in listed \cup ToSet(page)
    \/ query.delimiter /\ \E f \in folders : HasPrefix(KeyOf(o), f)

ListingType ==
    /\ files \subseteq Files /\ dirPaths \subseteq Paths
    /\ query \in Query /\ st \in {"idle", "walking", "done"}
    /\ todo \subseteq Paths \cup {Root}
    /\ marker \in Seq(Nat)
    /\ page \in Seq({KeyOf(f) : f \in Files})
    /\ listed \subseteq {KeyOf(f) : f \in Files}
    /\ kept \subseteq files \cap Object

(* The directories of an object that is there are there too. *)
TreeOK == \A o \in files \cap Object : Parents(o) \subseteq dirPaths

(* Before its first page a listing has nothing. *)
IdleOK == st = "idle" => marker = <<>> /\ page = <<>> /\ listed = {}

(* A page has keys beyond the marker, of files in the order of the walk,    *)
(* all before what is still to be visited.                                  *)
PageOK ==
    /\ \A i \in 1 .. Len(page), j \in 1 .. Len(page), f, g \in Files :
          i < j /\ page[i] = KeyOf(f) /\ page[j] = KeyOf(g) => Before(f, g)
    /\ \A i \in 1 .. Len(page) : AfterMarker(page[i])
    /\ \A i \in 1 .. Len(page), t \in todo, f \in Files : page[i] = KeyOf(f) => Before(f, t)

(* The walk met the file before one whose smaller key ended a page. *)
Again(f) == \E p \in Files : WentOnFrom(p) /\ OutOfOrder(f, p)

(* What was listed on earlier pages is up to the marker, but for such files. *)
MarkerOK ==
    /\ st # "done" /\ marker = <<>> => listed = {}
    /\ st # "done" => \A f \in Files : KeyOf(f) \in listed =>
          KeyOf(f) = marker \/ Less(KeyOf(f), marker) \/ Again(f)

(* Without a delimiter a page is full of keys.                              *)
CountOK ==
    /\ count \in Nat
    /\ ~query.delimiter => count = Len(page)

(* An object that was there all along has been shown, or is lost for a      *)
(* cause, or is beyond the marker, and then the walk will come to it, or    *)
(* the page was full before.                                                *)
Excused(o) ==
    \/ IsMeta(KeyOf(o))
    \/ \E p \in Files : WentOnFrom(p) /\ OutOfOrder(p, o)

Reachable(o) ==
    /\ AfterMarker(KeyOf(o))
    /\ \/ \E t \in todo : IsPrefix(t, o)
       \/ /\ count >= query.maxKeys
          /\ \A i \in 1 .. Len(page), f \in Files : page[i] = KeyOf(f) => Before(f, o)

Covered ==
    \A o \in kept : HasPrefix(KeyOf(o), query.prefix) =>
        /\ st = "walking" => Shown(o) \/ Excused(o) \/ Reachable(o)
        /\ st = "done" => Shown(o) \/ Excused(o) \/ (query.delimiter /\ stuck)

(* Once the listing is done nothing is left on the page. *)
DoneOK == st = "done" => page = <<>>

ListingIInv ==
    ListingType /\ TreeOK /\ IdleOK /\ PageOK /\ MarkerOK /\ CountOK /\ Covered /\ DoneOK
        /\ ListedOnce

(* What is assumed of paths. *)
LEMMA PathFacts ==
    /\ Files \subseteq Paths /\ Root \notin Paths /\ Paths \cup {Root} \subseteq Seq(Name)
    /\ \A p \in Paths : KeyOf(p) \in Seq(Nat) /\ KeyOf(p) # <<>>
    /\ \A p \in Files : Parents(p) \subseteq Paths
    /\ \A p, q \in Files : KeyOf(p) = KeyOf(q) => p = q
<1>1. Files \subseteq Paths /\ \A p \in Files : Parents(p) \subseteq Paths
  BY Zenon DEF Paths
<1>2. \A p \in Paths : p \in Seq(Name) /\ p # Root /\ KeyOf(p) \in Seq(Nat) /\ KeyOf(p) # <<>>
  BY PathAssumption, Zenon DEF Name
<1>3. Root \in Seq(Name)
  BY EmptySeq DEF Root
<1>4. \A p, q \in Files : KeyOf(p) = KeyOf(q) => p = q
  BY PathAssumption
<1> QED BY <1>1, <1>2, <1>3, <1>4, Zenon

(* Everything is below the root. *)
LEMMA RootIsPrefix ==
    ASSUME NEW o \in Paths
    PROVE  IsPrefix(Root, o)
<1>1. o \in Seq(Name) /\ Root \in Seq(Name)
  BY PathFacts
<1>2. Len(Root) = 0 /\ Len(o) \in Nat
  BY <1>1, LenProperties DEF Root
<1>3. Len(Root) <= Len(o) /\ \A i \in 1 .. Len(Root) : Root[i] = o[i]
  BY <1>2
<1> QED BY <1>1, <1>3, PrefixAgrees

(* What others do does not disturb a listing, as long as the directories of *)
(* objects are there.                                                       *)
LEMMA OthersStep ==
    ASSUME ListingIInv, UNCHANGED client, files' \subseteq Files, dirPaths' \subseteq Paths,
           kept' \subseteq kept, kept' \subseteq files' \cap Object, TreeOK'
    PROVE  ListingIInv'
<1>1. /\ query' = query /\ st' = st /\ todo' = todo /\ count' = count /\ marker' = marker
      /\ page' = page /\ listed' = listed /\ repeated' = repeated /\ ends' = ends
      /\ stuck' = stuck /\ folders' = folders /\ paged' = paged
  BY DEF client
<1>2. ListingType'
  BY <1>1 DEF ListingIInv, ListingType
<1>3. IdleOK' /\ MarkerOK' /\ DoneOK' /\ ListedOnce'
  BY <1>1 DEF ListingIInv, IdleOK, MarkerOK, Again, DoneOK, ListedOnce, WentOnFrom
<1>4. PageOK'
  BY <1>1 DEF ListingIInv, PageOK, AfterMarker
<1>5. CountOK'
  BY <1>1 DEF ListingIInv, CountOK
<1>6. \A o : (Shown(o)' <=> Shown(o)) /\ (Excused(o)' <=> Excused(o))
             /\ (Reachable(o)' <=> Reachable(o))
  BY <1>1 DEF Shown, Excused, WentOnFrom, Reachable, AfterMarker
<1>7. Covered'
  BY <1>1, <1>6 DEF ListingIInv, Covered
<1> QED BY <1>2, <1>3, <1>4, <1>5, <1>7 DEF ListingIInv

(* PutObject makes the directories it needs. *)
LEMMA PutKeeps == ASSUME ListingIInv, NEW p \in Files, Put(p) PROVE ListingIInv'
<1>1. /\ files' = files \cup {p} /\ dirPaths' = dirPaths \cup Parents(p) /\ UNCHANGED client
      /\ kept' = kept
  BY DEF Put
<1>2. TreeOK'
  BY <1>1 DEF ListingIInv, TreeOK
<1>3. files' \subseteq Files /\ dirPaths' \subseteq Paths /\ kept' \subseteq files' \cap Object
  BY <1>1, PathFacts DEF ListingIInv, ListingType
<1> QED BY <1>1, <1>2, <1>3, OthersStep

(* DeleteObject leaves them. *)
LEMMA DeleteKeeps == ASSUME ListingIInv, NEW p, Delete(p) PROVE ListingIInv'
<1>1. /\ files' = files \ {p} /\ dirPaths' = dirPaths /\ UNCHANGED client /\ kept' = kept \ {p}
  BY DEF Delete
<1>2. TreeOK'
  BY <1>1 DEF ListingIInv, TreeOK
<1>3. files' \subseteq Files /\ dirPaths' \subseteq Paths /\ kept' \subseteq files' \cap Object
  BY <1>1 DEF ListingIInv, ListingType
<1> QED BY <1>1, <1>2, <1>3, OthersStep

(* And the directory of an upload is none of an object's. *)
LEMMA RemoveUploadKeeps ==
    ASSUME ListingIInv, NEW p \in PartFile, RemoveUpload(p)
    PROVE  ListingIInv'
<1>1. /\ UNCHANGED client /\ kept' = kept
      /\ \/ files' = files \ {p} /\ dirPaths' = dirPaths
         \/ files' = files /\ dirPaths' = dirPaths \ {Front(p)}
  BY DEF RemoveUpload
<1>2. ASSUME NEW o \in files \cap Object
      PROVE  o # p /\ Front(p) \notin Parents(o)
  <2>1. o \in Files /\ o \in Seq(Name) /\ o # <<>> /\ Len(o) \in Nat
    BY <1>2, PathFacts, LenProperties DEF ListingIInv, ListingType, Root
  <2>2. ASSUME NEW n \in Nat, n <= Len(o) PROVE IsPrefix(SubSeq(o, 1, n), o)
    <3>1. /\ SubSeq(o, 1, n) \in Seq(Name) /\ Len(SubSeq(o, 1, n)) = n
          /\ \A i \in 1 .. n : SubSeq(o, 1, n)[i] = o[i]
      BY <2>1, <2>2, SubSeqProperties
    <3> QED BY <2>1, <2>2, <3>1, PrefixAgrees
  <2>3. ~IsPrefix(Front(p), o)
    BY <1>1, <1>2, KindAssumption
  <2>4. o # p
    BY <1>2, KindAssumption
  <2>5. Front(p) \notin Parents(o)
    <3> SUFFICES ASSUME NEW n \in 1 .. Len(o) - 1, Front(p) = SubSeq(o, 1, n) PROVE FALSE
      BY DEF Parents
    <3>1. n \in Nat /\ n <= Len(o)
      BY <2>1
    <3> QED BY <2>2, <2>3, <3>1
  <2> QED BY <2>4, <2>5
<1>3. TreeOK'
  BY <1>1, <1>2 DEF ListingIInv, TreeOK
<1>4. files' \subseteq Files /\ dirPaths' \subseteq Paths /\ kept' \subseteq files' \cap Object
  BY <1>1, <1>2 DEF ListingIInv, ListingType
<1> QED BY <1>1, <1>3, <1>4, OthersStep

(* The first walk starts at the root. *)
LEMMA StartKeeps == ASSUME ListingIInv, Start PROVE ListingIInv'
<1>1. /\ st = "idle" /\ st' = "walking" /\ todo' = {Root} /\ kept' = files \cap Object
      /\ files' = files /\ dirPaths' = dirPaths /\ query' = query /\ count' = count
      /\ marker' = marker /\ page' = page /\ listed' = listed /\ repeated' = repeated
      /\ ends' = ends /\ folders' = folders /\ paged' = paged
  BY DEF Start, bucket
<1>2. marker = <<>> /\ page = <<>> /\ listed = {}
  BY <1>1 DEF ListingIInv, IdleOK
<1>3. ListingType'
  BY <1>1 DEF ListingIInv, ListingType
<1>4. TreeOK' /\ IdleOK' /\ MarkerOK' /\ DoneOK' /\ ListedOnce'
  BY <1>1, <1>2 DEF ListingIInv, TreeOK, IdleOK, MarkerOK, DoneOK, ListedOnce, WentOnFrom
<1>5. PageOK'
  BY <1>1, <1>2 DEF PageOK
<1>6. CountOK'
  BY <1>1 DEF ListingIInv, CountOK
<1>7. ASSUME NEW o \in kept' PROVE Reachable(o)'
  <2>1. o \in Paths
    BY <1>1, PathFacts DEF ListingIInv, ListingType
  <2>2. IsPrefix(Root, o)
    BY <2>1, RootIsPrefix
  <2> QED BY <1>1, <1>2, <2>2 DEF Reachable, AfterMarker
<1>8. Covered'
  BY <1>1, <1>7 DEF Covered
<1> QED BY <1>3, <1>4, <1>5, <1>6, <1>8 DEF ListingIInv

---------------------------------------------------------------------------
(* A step of the walk. *)

(* A beginning of a path. *)
LEMMA Beginning ==
    ASSUME NEW S, NEW o \in Seq(S), NEW n \in Nat, n <= Len(o)
    PROVE  /\ SubSeq(o, 1, n) \in Seq(S) /\ Len(SubSeq(o, 1, n)) = n
           /\ \A i \in 1 .. n : SubSeq(o, 1, n)[i] = o[i]
           /\ IsPrefix(SubSeq(o, 1, n), o)
<1>1. Len(o) \in Nat
  BY LenProperties
<1>2. /\ SubSeq(o, 1, n) \in Seq(S) /\ Len(SubSeq(o, 1, n)) = n
      /\ \A i \in 1 .. n : SubSeq(o, 1, n)[i] = o[i]
  BY <1>1, SubSeqProperties
<1>3. IsPrefix(SubSeq(o, 1, n), o)
  BY <1>1, <1>2, PrefixAgrees
<1> QED BY <1>2, <1>3

(* What is read of a directory is in the bucket and comes after it. *)
LEMMA OpenedIsAfter ==
    ASSUME ListingIInv, NEW p \in Paths \cup {Root}, NEW c \in Opened(p)
    PROVE  c \in Paths /\ Before(p, c)
<1>1. c \in files \cup dirPaths /\ Len(c) = Len(p) + 1 /\ IsPrefix(p, c)
  BY DEF Opened, Children
<1>2. c \in Paths
  BY <1>1, PathFacts DEF ListingIInv, ListingType
<1>3. c # p
  <2>1. PICK n \in Nat : n = Len(p)
    BY PathFacts, LenProperties
  <2> QED BY <1>1, <2>1
<1> QED BY <1>1, <1>2, <1>3 DEF Before, IsStrictPrefix

(* It has the way to every object below the directory. *)
LEMMA OpenedLeadsOn ==
    ASSUME ListingIInv, NEW p \in Paths \cup {Root}, NEW o \in files \cap Object,
           IsPrefix(p, o), o # p
    PROVE  \E c \in Opened(p) : IsPrefix(c, o)
<1>1. p \in Seq(Name) /\ o \in Seq(Name) /\ Len(p) \in Nat /\ Len(o) \in Nat
  BY PathFacts, LenProperties DEF ListingIInv, ListingType
<1>2. Len(p) < Len(o) /\ \A i \in 1 .. Len(p) : p[i] = o[i]
  <2>1. IsStrictPrefix(p, o)
    BY DEF IsStrictPrefix
  <2> QED BY <1>1, <2>1, PrefixAgrees
<1>3. PICK m \in Nat, n \in Nat : m = Len(p) /\ n = Len(o)
  BY <1>1
<1>4. m < n /\ m + 1 \in Nat /\ m + 1 <= n /\ m <= n
  BY <1>2, <1>3
<1>5. \A k \in Nat : 1 <= k /\ k < n => SubSeq(o, 1, k) \in dirPaths
  <2> SUFFICES ASSUME NEW k \in Nat, 1 <= k, k < n PROVE SubSeq(o, 1, k) \in dirPaths
    OBVIOUS
  <2>1. k \in 1 .. Len(o) - 1
    BY <1>3
  <2>2. SubSeq(o, 1, k) \in Parents(o)
    BY <2>1 DEF Parents
  <2> QED BY <2>2 DEF ListingIInv, TreeOK
<1>6. p \in dirPaths \cup {Root}
  <2>1. CASE m = 0
    BY <1>1, <1>3, <2>1, EmptySeq DEF Root
  <2>2. CASE m # 0
    <3>1. SubSeq(o, 1, m) \in Seq(Name) /\ Len(SubSeq(o, 1, m)) = m
          /\ \A i \in 1 .. m : SubSeq(o, 1, m)[i] = o[i]
      BY <1>1, <1>3, <1>4, Beginning
    <3>2. p = SubSeq(o, 1, m)
      BY <1>1, <1>2, <1>3, <3>1, SeqEqual
    <3> QED BY <1>4, <1>5, <2>2, <3>2
  <2> QED BY <2>1, <2>2
<1> DEFINE c == SubSeq(o, 1, m + 1)
<1>7. /\ c \in Seq(Name) /\ Len(c) = m + 1 /\ (\A i \in 1 .. m + 1 : c[i] = o[i])
      /\ IsPrefix(c, o)
  BY <1>1, <1>3, <1>4, Beginning
<1>8. c \in files \cup dirPaths
  <2>1. CASE m + 1 = n
    <3>1. c = o
      BY <1>1, <1>3, <1>7, <2>1, SeqEqual
    <3> QED BY <3>1
  <2>2. CASE m + 1 # n
    BY <1>4, <1>5, <2>2
  <2> QED BY <2>1, <2>2
<1> HIDE DEF c
<1>9. IsPrefix(p, c)
  <2>1. Len(p) <= Len(c) /\ \A i \in 1 .. Len(p) : p[i] = c[i]
    BY <1>2, <1>3, <1>7
  <2> QED BY <1>1, <1>7, <2>1, PrefixAgrees
<1>10. c \in Opened(p)
  BY <1>3, <1>6, <1>7, <1>8, <1>9 DEF Opened, Children
<1> QED BY <1>7, <1>10

(* What every visit does, whatever becomes of the path. *)
LEMMA VisitStep ==
    ASSUME NEW p, Visit(p)
    PROVE  /\ st = "walking" /\ p \in todo /\ \A q \in todo \ {p} : Before(p, q)
           /\ todo' = (todo \ {p}) \cup Opened(p)
           /\ files' = files /\ dirPaths' = dirPaths /\ query' = query /\ st' = st
           /\ marker' = marker /\ listed' = listed /\ repeated' = repeated /\ kept' = kept
           /\ ends' = ends /\ stuck' = stuck
  BY DEF Visit, bucket

(* It leaves alone what the page and the walk do not touch. *)
LEMMA VisitFrame ==
    ASSUME ListingIInv, NEW p, Visit(p)
    PROVE  /\ TreeOK' /\ IdleOK' /\ MarkerOK' /\ DoneOK' /\ ListedOnce'
           /\ \A o : (Excused(o)' <=> Excused(o)) /\ (AfterMarker(o)' <=> AfterMarker(o))
<1>1. /\ st = "walking" /\ files' = files /\ dirPaths' = dirPaths /\ query' = query /\ st' = st
      /\ marker' = marker /\ listed' = listed /\ repeated' = repeated /\ kept' = kept
      /\ ends' = ends
  BY VisitStep
<1>2. TreeOK' /\ IdleOK' /\ DoneOK'
  BY <1>1 DEF ListingIInv, TreeOK, IdleOK, DoneOK
<1>3. MarkerOK' /\ ListedOnce'
  BY <1>1 DEF ListingIInv, MarkerOK, Again, ListedOnce, WentOnFrom
<1>4. \A o : (Excused(o)' <=> Excused(o)) /\ (AfterMarker(o)' <=> AfterMarker(o))
  BY <1>1 DEF Excused, WentOnFrom, AfterMarker
<1> QED BY <1>2, <1>3, <1>4

(* The walk goes on after the path, and so after all on the page; what it   *)
(* would have come to it comes to still, but the path itself.               *)
LEMMA VisitGoesOn ==
    ASSUME ListingIInv, NEW p, Visit(p)
    PROVE  /\ p \in Paths \cup {Root} /\ todo' \subseteq Paths \cup {Root}
           /\ \A t \in todo' : Before(p, t)
           /\ \A o \in kept : (\E t \in todo : IsPrefix(t, o)) =>
                 o = p \/ \E t \in todo' : IsPrefix(t, o)
           /\ \A i \in 1 .. Len(page), f \in Files : page[i] = KeyOf(f) => Before(f, p)
           /\ \A i \in 1 .. Len(page), t \in todo', f \in Files :
                 page[i] = KeyOf(f) => Before(f, t)
<1>1. p \in todo /\ (\A q \in todo \ {p} : Before(p, q)) /\ todo' = (todo \ {p}) \cup Opened(p)
  BY VisitStep
<1>2. p \in Paths \cup {Root} /\ todo \subseteq Paths \cup {Root}
  BY <1>1 DEF ListingIInv, ListingType
<1>3. todo' \subseteq Paths \cup {Root} /\ \A t \in todo' : Before(p, t)
  BY <1>1, <1>2, OpenedIsAfter
<1>4. ASSUME NEW o \in kept, NEW t \in todo, IsPrefix(t, o), o # p
      PROVE  \E u \in todo' : IsPrefix(u, o)
  <2>1. CASE t = p
    <3>1. o \in files \cap Object
      BY DEF ListingIInv, ListingType
    <3>2. \E c \in Opened(p) : IsPrefix(c, o)
      BY <1>2, <1>4, <2>1, <3>1, OpenedLeadsOn
    <3> QED BY <1>1, <3>2
  <2>2. CASE t # p
    BY <1>1, <1>4, <2>2
  <2> QED BY <2>1, <2>2
<1>5. ASSUME NEW i \in 1 .. Len(page), NEW f \in Files, page[i] = KeyOf(f)
      PROVE  Before(f, p)
  BY <1>1, <1>5 DEF ListingIInv, PageOK
<1>6. ASSUME NEW i \in 1 .. Len(page), NEW t \in todo', NEW f \in Files, page[i] = KeyOf(f)
      PROVE  Before(f, t)
  <2>1. f \in Seq(Name) /\ p \in Seq(Name) /\ t \in Seq(Name) /\ Before(p, t) /\ Before(f, p)
    BY <1>2, <1>3, <1>5, <1>6, PathFacts
  <2> QED BY <2>1, BeforeTransitive
<1> QED BY <1>2, <1>3, <1>4, <1>5, <1>6

(* A path that is passed over, gone, a .meta file or a plain directory.     *)
LEMMA PassingKeeps ==
    ASSUME ListingIInv, NEW p, Visit(p), UNCHANGED <<count, page, paged, folders>>,
           Passed(p) \/ p \notin files \/ IsMeta(KeyOf(p))
    PROVE  ListingIInv'
<1>1. /\ st = "walking" /\ files' = files /\ dirPaths' = dirPaths /\ query' = query /\ st' = st
      /\ marker' = marker /\ listed' = listed /\ kept' = kept /\ stuck' = stuck
      /\ count' = count /\ page' = page /\ paged' = paged /\ folders' = folders
  BY VisitStep
<1>2. /\ p \in Paths \cup {Root} /\ todo' \subseteq Paths \cup {Root}
      /\ \A o \in kept : (\E t \in todo : IsPrefix(t, o)) =>
            o = p \/ \E t \in todo' : IsPrefix(t, o)
      /\ \A i \in 1 .. Len(page), f \in Files : page[i] = KeyOf(f) => Before(f, p)
      /\ \A i \in 1 .. Len(page), t \in todo', f \in Files : page[i] = KeyOf(f) => Before(f, t)
  BY VisitGoesOn
<1>3. ListingType'
  BY <1>1, <1>2 DEF ListingIInv, ListingType
<1>4. /\ TreeOK' /\ IdleOK' /\ MarkerOK' /\ DoneOK' /\ ListedOnce'
      /\ \A o : (Excused(o)' <=> Excused(o)) /\ (AfterMarker(o)' <=> AfterMarker(o))
  BY VisitFrame
<1>5. PageOK'
  BY <1>1, <1>2, <1>4 DEF ListingIInv, PageOK
<1>6. CountOK'
  BY <1>1 DEF ListingIInv, CountOK
<1>7. ASSUME NEW o \in kept', HasPrefix(KeyOf(o), query.prefix)
      PROVE  Shown(o)' \/ Excused(o)' \/ Reachable(o)'
  <2>1. o \in kept /\ (Shown(o) \/ Excused(o) \/ Reachable(o)) /\ o \in files /\ o \in Files
    BY <1>1, <1>7 DEF ListingIInv, Covered, ListingType
  <2>2. CASE Shown(o)
    BY <1>1, <2>2 DEF Shown
  <2>3. CASE Excused(o)
    BY <1>4, <2>3
  <2>4. CASE AfterMarker(KeyOf(o)) /\ \E t \in todo' : IsPrefix(t, o)
    BY <1>1, <1>4, <2>4 DEF Reachable
  <2>5. CASE /\ AfterMarker(KeyOf(o)) /\ count >= query.maxKeys
             /\ \A i \in 1 .. Len(page), f \in Files : page[i] = KeyOf(f) => Before(f, o)
    BY <1>1, <1>4, <2>5 DEF Reachable
  <2>6. CASE AfterMarker(KeyOf(o)) /\ o = p
    <3>1. o # Root
      BY <2>1, PathFacts
    <3>2. count >= query.maxKeys \/ IsMeta(KeyOf(o))
      BY <1>7, <2>1, <2>6, <3>1 DEF Passed
    <3>3. CASE IsMeta(KeyOf(o))
      BY <1>4, <3>3 DEF Excused
    <3>4. CASE count >= query.maxKeys
      BY <1>2, <2>5, <2>6, <3>4
    <3> QED BY <3>2, <3>3, <3>4
  <2> QED BY <1>2, <2>1, <2>2, <2>3, <2>4, <2>5, <2>6 DEF Reachable
<1>8. Covered'
  BY <1>1, <1>7 DEF Covered
<1> QED BY <1>3, <1>4, <1>5, <1>6, <1>8 DEF ListingIInv

(* The common prefix of a key is a prefix of it. *)
LEMMA FolderIs ==
    ASSUME NEW key \in Seq(Nat), NEW n \in Nat, Delimiters(key, n) # {}
    PROVE  HasPrefix(key, CommonPrefix(key, n))
<1> DEFINE ds == Delimiters(key, n)
           m == CHOOSE i \in ds : \A j \in ds : i <= j
<1>1. ds \subseteq Nat /\ ds \subseteq n + 1 .. Len(key) /\ Len(key) \in Nat
  BY LenProperties DEF Delimiters
<1>2. m \in n + 1 .. Len(key)
  <2> HIDE DEF ds
  <2>1. \E i \in ds : \A j \in ds : i <= j
    BY <1>1, LeastNumber DEF ds
  <2>2. m \in ds
    BY <1>1, <2>1
  <2> QED BY <1>1, <2>2
<1>3. CommonPrefix(key, n) = SubSeq(key, 1, m)
  BY DEF CommonPrefix
<1> HIDE DEF m
<1>4. m \in Nat /\ m <= Len(key)
  BY <1>1, <1>2
<1>5. IsPrefix(SubSeq(key, 1, m), key)
  BY <1>4, Beginning
<1> QED BY <1>3, <1>5 DEF HasPrefix

(* A path that is folded into a common prefix. *)
LEMMA FoldingKeeps ==
    ASSUME ListingIInv, NEW p, Visit(p), ~Passed(p), Fold(KeyOf(p)), page' = page,
           NEW folder, folder = CommonPrefix(KeyOf(p), Len(query.prefix)),
           folders' = folders \cup {folder},
           count' = IF folder \in paged THEN count ELSE count + 1
    PROVE  ListingIInv'
<1>1. /\ st = "walking" /\ files' = files /\ dirPaths' = dirPaths /\ query' = query /\ st' = st
      /\ marker' = marker /\ listed' = listed /\ kept' = kept /\ stuck' = stuck
  BY VisitStep
<1>2. /\ p \in Paths \cup {Root} /\ todo' \subseteq Paths \cup {Root}
      /\ \A o \in kept : (\E t \in todo : IsPrefix(t, o)) =>
            o = p \/ \E t \in todo' : IsPrefix(t, o)
      /\ \A i \in 1 .. Len(page), t \in todo', f \in Files : page[i] = KeyOf(f) => Before(f, t)
  BY VisitGoesOn
<1>3. /\ ~(count >= query.maxKeys) /\ p \in Paths
      /\ query.delimiter /\ Delimiters(KeyOf(p), Len(query.prefix)) # {}
  BY <1>2 DEF Passed, Fold, Folds
<1>4. KeyOf(p) \in Seq(Nat) /\ Len(query.prefix) \in Nat
  BY <1>3, PathFacts, QueryAssumption, LenProperties DEF ListingIInv, ListingType
<1>5. HasPrefix(KeyOf(p), folder)
  BY <1>3, <1>4, FolderIs
<1>6. ListingType'
  BY <1>1, <1>2 DEF ListingIInv, ListingType
<1>7. /\ TreeOK' /\ IdleOK' /\ MarkerOK' /\ DoneOK' /\ ListedOnce'
      /\ \A o : (Excused(o)' <=> Excused(o)) /\ (AfterMarker(o)' <=> AfterMarker(o))
  BY VisitFrame
<1>8. PageOK'
  BY <1>1, <1>2, <1>7 DEF ListingIInv, PageOK
<1>9. CountOK'
  BY <1>1, <1>3 DEF ListingIInv, CountOK
<1>10. ASSUME NEW o \in kept', HasPrefix(KeyOf(o), query.prefix)
       PROVE  Shown(o)' \/ Excused(o)' \/ Reachable(o)'
  <2>1. o \in kept /\ (Shown(o) \/ Excused(o) \/ Reachable(o))
    BY <1>1, <1>10 DEF ListingIInv, Covered
  <2>2. CASE Shown(o)
    BY <1>1, <2>2 DEF Shown
  <2>3. CASE Excused(o)
    BY <1>7, <2>3
  <2>4. CASE Reachable(o) /\ \E t \in todo' : IsPrefix(t, o)
    BY <1>1, <1>7, <2>4 DEF Reachable
  <2>5. CASE o = p
    BY <1>1, <1>3, <1>5, <2>5 DEF Shown
  <2> QED BY <1>2, <1>3, <2>1, <2>2, <2>3, <2>4, <2>5 DEF Reachable
<1>11. Covered'
  BY <1>1, <1>10 DEF Covered
<1> QED BY <1>6, <1>7, <1>8, <1>9, <1>11 DEF ListingIInv

(* The keys of a page and one more. *)
LEMMA OneMoreKey ==
    ASSUME NEW S, NEW s \in Seq(S), NEW k \in S
    PROVE  /\ Append(s, k) \in Seq(S) /\ Len(Append(s, k)) = Len(s) + 1 /\ Len(s) \in Nat
           /\ \A i \in 1 .. Len(s) : Append(s, k)[i] = s[i]
           /\ Append(s, k)[Len(s) + 1] = k
           /\ ToSet(Append(s, k)) = ToSet(s) \cup {k}
<1>1. /\ Append(s, k) \in Seq(S) /\ Len(Append(s, k)) = Len(s) + 1 /\ Len(s) \in Nat
      /\ \A i \in 1 .. Len(s) : Append(s, k)[i] = s[i]
      /\ Append(s, k)[Len(s) + 1] = k
  BY AppendProperties, LenProperties
<1>2. DOMAIN s = 1 .. Len(s) /\ DOMAIN Append(s, k) = 1 .. Len(s) + 1
  BY <1>1, LenProperties
<1>3. \A x : x \in ToSet(Append(s, k)) <=> \E i \in 1 .. Len(s) + 1 : x = Append(s, k)[i]
  BY <1>2 DEF ToSet
<1>4. \A x : x \in ToSet(s) <=> \E i \in 1 .. Len(s) : x = s[i]
  BY <1>2 DEF ToSet
<1>5. \A i \in 1 .. Len(s) + 1 : i \in 1 .. Len(s) \/ i = Len(s) + 1
  BY <1>1
<1>6. Len(s) + 1 \in 1 .. Len(s) + 1 /\ \A i \in 1 .. Len(s) : i \in 1 .. Len(s) + 1
  BY <1>1
<1>7. \A x : x \in ToSet(Append(s, k)) <=> x \in ToSet(s) \/ x = k
  BY <1>1, <1>3, <1>4, <1>5, <1>6, Zenon
<1> QED BY <1>1, <1>7

(* A file whose key goes on the page. *)
LEMMA AppendingKeeps ==
    ASSUME ListingIInv, NEW p, Visit(p), ~Passed(p), ~Fold(KeyOf(p)), p \in files,
           page' = Append(page, KeyOf(p)), count' = count + 1, folders' = folders
    PROVE  ListingIInv'
<1> DEFINE key == KeyOf(p)
<1>1. /\ st = "walking" /\ files' = files /\ dirPaths' = dirPaths /\ query' = query /\ st' = st
      /\ marker' = marker /\ listed' = listed /\ kept' = kept /\ stuck' = stuck
  BY VisitStep
<1>2. /\ todo' \subseteq Paths \cup {Root} /\ \A t \in todo' : Before(p, t)
      /\ \A o \in kept : (\E t \in todo : IsPrefix(t, o)) =>
            o = p \/ \E t \in todo' : IsPrefix(t, o)
      /\ \A i \in 1 .. Len(page), f \in Files : page[i] = KeyOf(f) => Before(f, p)
      /\ \A i \in 1 .. Len(page), t \in todo', f \in Files : page[i] = KeyOf(f) => Before(f, t)
  BY VisitGoesOn
<1>3. /\ ~(count >= query.maxKeys) /\ AfterMarker(key) /\ p \in Files
      /\ \A f \in Files : key = KeyOf(f) => f = p
  BY PathFacts DEF Passed, ListingIInv, ListingType
<1>4. page \in Seq({KeyOf(f) : f \in Files}) /\ key \in {KeyOf(f) : f \in Files}
  BY <1>3 DEF ListingIInv, ListingType
<1> HIDE DEF key
<1>5. /\ page' \in Seq({KeyOf(f) : f \in Files}) /\ Len(page') = Len(page) + 1
      /\ Len(page) \in Nat
      /\ \A i \in 1 .. Len(page) : page'[i] = page[i]
      /\ page'[Len(page) + 1] = key
      /\ ToSet(page') = ToSet(page) \cup {key}
  BY <1>4, OneMoreKey DEF key
<1>6. \A i \in 1 .. Len(page') : i \in 1 .. Len(page) \/ i = Len(page) + 1
  BY <1>5
<1>7. ListingType'
  BY <1>1, <1>2, <1>5 DEF ListingIInv, ListingType
<1>8. /\ TreeOK' /\ IdleOK' /\ MarkerOK' /\ DoneOK' /\ ListedOnce'
      /\ \A o : (Excused(o)' <=> Excused(o)) /\ (AfterMarker(o)' <=> AfterMarker(o))
  BY VisitFrame
<1>9. PageOK'
  <2>1. ASSUME NEW i \in 1 .. Len(page'), NEW j \in 1 .. Len(page'), i < j,
               NEW f \in Files, NEW g \in Files, page'[i] = KeyOf(f), page'[j] = KeyOf(g)
        PROVE  Before(f, g)
    <3>1. i \in 1 .. Len(page) /\ page[i] = KeyOf(f)
      BY <1>5, <2>1
    <3>2. CASE j \in 1 .. Len(page)
      BY <1>5, <2>1, <3>1, <3>2 DEF ListingIInv, PageOK
    <3>3. CASE j = Len(page) + 1
      BY <1>2, <1>3, <1>5, <2>1, <3>1, <3>3
    <3> QED BY <1>6, <3>2, <3>3
  <2>2. ASSUME NEW i \in 1 .. Len(page') PROVE AfterMarker(page'[i])
    BY <1>3, <1>5, <1>6 DEF ListingIInv, PageOK
  <2>3. ASSUME NEW i \in 1 .. Len(page'), NEW t \in todo', NEW f \in Files, page'[i] = KeyOf(f)
        PROVE  Before(f, t)
    <3>1. CASE i \in 1 .. Len(page)
      BY <1>2, <1>5, <2>3, <3>1
    <3>2. CASE i = Len(page) + 1
      BY <1>2, <1>3, <1>5, <2>3, <3>2
    <3> QED BY <1>6, <3>1, <3>2
  <2>4. \A i \in 1 .. Len(page') : marker' = <<>> \/ Less(marker', page'[i])
    BY <1>1, <2>2 DEF AfterMarker
  <2> QED BY <2>1, <2>3, <2>4 DEF PageOK, AfterMarker
<1>10. CountOK'
  BY <1>1, <1>5 DEF ListingIInv, CountOK
<1>11. ASSUME NEW o \in kept', HasPrefix(KeyOf(o), query.prefix)
       PROVE  Shown(o)' \/ Excused(o)' \/ Reachable(o)'
  <2>1. o \in kept /\ (Shown(o) \/ Excused(o) \/ Reachable(o))
    BY <1>1, <1>11 DEF ListingIInv, Covered
  <2>2. CASE Shown(o)
    BY <1>1, <1>5, <2>2 DEF Shown
  <2>3. CASE Excused(o)
    BY <1>8, <2>3
  <2>4. CASE Reachable(o) /\ \E t \in todo' : IsPrefix(t, o)
    BY <1>1, <1>8, <2>4 DEF Reachable
  <2>5. CASE o = p
    BY <1>1, <1>5, <2>5 DEF Shown, key
  <2> QED BY <1>2, <1>3, <2>1, <2>2, <2>3, <2>4, <2>5 DEF Reachable
<1>12. Covered'
  BY <1>1, <1>11 DEF Covered
<1> QED BY <1>7, <1>8, <1>9, <1>10, <1>12 DEF ListingIInv

(* One of these is what a visit does. *)
LEMMA VisitKeeps == ASSUME ListingIInv, NEW p, Visit(p) PROVE ListingIInv'
<1> DEFINE folder == CommonPrefix(KeyOf(p), Len(query.prefix))
<1>1. CASE /\ Passed(p) \/ p \notin files \/ IsMeta(KeyOf(p))
           /\ UNCHANGED <<count, page, paged, folders>>
  BY <1>1, PassingKeeps
<1>2. CASE /\ ~Passed(p) /\ Fold(KeyOf(p)) /\ folders' = folders \cup {folder}
           /\ count' = IF folder \in paged THEN count ELSE count + 1
           /\ page' = page
  BY <1>2, FoldingKeeps
<1>3. CASE /\ ~Passed(p) /\ ~Fold(KeyOf(p)) /\ p \in files
           /\ page' = Append(page, KeyOf(p)) /\ count' = count + 1
           /\ UNCHANGED <<paged, folders>>
  BY <1>3, AppendingKeeps
<1> QED BY <1>1, <1>2, <1>3 DEF Visit, RegularFile

---------------------------------------------------------------------------
(* The end of a page. *)

(* A page has no key twice, and one that was listed before only if the walk *)
(* met it before one with a smaller key.                                    *)
LEMMA PageIsNew ==
    ASSUME ListingIInv, st = "walking"
    PROVE  /\ Twice(page) = {}
           /\ \A k \in ToSet(page) \cap listed : \E f \in Files : k = KeyOf(f) /\ Again(f)
<1>1. page \in Seq({KeyOf(f) : f \in Files}) /\ marker \in Seq(Nat)
  BY DEF ListingIInv, ListingType
<1>2. \A f \in Files : KeyOf(f) \in Seq(Nat) /\ f \in Seq(Name)
  BY PathFacts
<1>3. /\ Len(page) \in Nat /\ DOMAIN page = 1 .. Len(page)
      /\ \A i \in 1 .. Len(page) : \E f \in Files : page[i] = KeyOf(f)
  <2>1. Len(page) \in Nat /\ DOMAIN page = 1 .. Len(page)
    BY <1>1, LenProperties
  <2>2. \A i \in 1 .. Len(page) : page[i] \in {KeyOf(f) : f \in Files}
    BY <1>1, ElementOfSeq
  <2> QED BY <2>1, <2>2
<1>4. ASSUME NEW i \in 1 .. Len(page), NEW j \in 1 .. Len(page), page[i] = page[j], i < j
      PROVE  FALSE
  <2>1. PICK f \in Files : page[i] = KeyOf(f)
    BY <1>3
  <2>2. Before(f, f)
    BY <1>4, <2>1 DEF ListingIInv, PageOK
  <2> QED BY <1>2, <2>2, BeforeIrreflexive
<1>5. \A i, j \in 1 .. Len(page) : page[i] = page[j] => i = j
  <2> SUFFICES ASSUME NEW i \in 1 .. Len(page), NEW j \in 1 .. Len(page), page[i] = page[j],
                      i # j
               PROVE  FALSE
    OBVIOUS
  <2>1. i < j \/ j < i
    BY <1>3
  <2> QED BY <1>4, <2>1
<1>6. ASSUME NEW i \in 1 .. Len(page), page[i] \in listed
      PROVE  \E f \in Files : page[i] = KeyOf(f) /\ Again(f)
  <2>1. PICK f \in Files : page[i] = KeyOf(f)
    BY <1>3
  <2>2. AfterMarker(page[i])
    BY DEF ListingIInv, PageOK
  <2>3. marker # <<>> /\ (KeyOf(f) = marker \/ Less(KeyOf(f), marker) \/ Again(f))
    BY <1>6, <2>1 DEF ListingIInv, MarkerOK
  <2>4. Less(marker, KeyOf(f)) /\ KeyOf(f) \in Seq(Nat)
    BY <1>2, <2>1, <2>2, <2>3 DEF AfterMarker
  <2>5. ~Less(marker, marker)
    BY <1>1, LessIrreflexive
  <2>6. KeyOf(f) # marker /\ ~Less(KeyOf(f), marker)
    BY <1>1, <2>4, <2>5, LessTransitive
  <2> QED BY <2>1, <2>3, <2>6
<1>7. Twice(page) = {}
  BY <1>3, <1>5 DEF Twice
<1>8. ASSUME NEW k \in ToSet(page) \cap listed PROVE \E f \in Files : k = KeyOf(f) /\ Again(f)
  BY <1>3, <1>6 DEF ToSet
<1> QED BY <1>7, <1>8

(* What every answer does. *)
LEMMA AnswerStep ==
    ASSUME ListingIInv, EndPage, ends \subseteq ends'
    PROVE  /\ st = "walking" /\ todo = {} /\ listed' = listed \cup ToSet(page)
           /\ page' = <<>> /\ ToSet(page') = {} /\ count' = 0
           /\ files' = files /\ dirPaths' = dirPaths /\ query' = query /\ folders' = folders
           /\ kept' = kept /\ ListedOnce' /\ TreeOK' /\ CountOK' /\ PageOK'
           /\ \A o : (Shown(o)' <=> Shown(o)) /\ (Excused(o) => Excused(o)')
           /\ \A f : Again(f) => Again(f)'
           /\ listed' \subseteq {KeyOf(f) : f \in Files}
<1>1. /\ st = "walking" /\ todo = {} /\ listed' = listed \cup ToSet(page)
      /\ page' = <<>> /\ paged' = {} /\ count' = 0
      /\ files' = files /\ dirPaths' = dirPaths /\ query' = query /\ folders' = folders
      /\ kept' = kept
      /\ repeated' = repeated \cup Twice(page) \cup (ToSet(page) \cap listed)
  BY DEF EndPage, bucket
<1>2. ToSet(page') = {} /\ Len(page') = 0
  BY <1>1 DEF ToSet
<1>3. \A p : WentOnFrom(p) => WentOnFrom(p)'
  BY DEF WentOnFrom
<1>4. (\A f : Again(f) => Again(f)') /\ \A o : Excused(o) => Excused(o)'
  BY <1>3 DEF Again, Excused
<1>5. ASSUME NEW k \in repeated' PROVE \E f \in Files : k = KeyOf(f) /\ Again(f)
  <2>1. CASE k \in repeated
    BY <2>1 DEF ListingIInv, ListedOnce, Again
  <2>2. CASE k \in ToSet(page) \cap listed
    BY <1>1, <2>2, PageIsNew
  <2> QED BY <1>1, <2>1, <2>2, PageIsNew
<1>6. ListedOnce'
  BY <1>4, <1>5 DEF ListedOnce, Again
<1>7. TreeOK' /\ CountOK' /\ PageOK'
  BY <1>1, <1>2 DEF ListingIInv, TreeOK, CountOK, PageOK
<1>8. \A o : Shown(o)' <=> Shown(o)
  BY <1>1, <1>2 DEF Shown
<1>9. listed' \subseteq {KeyOf(f) : f \in Files}
  <2>1. page \in Seq({KeyOf(f) : f \in Files}) /\ listed \subseteq {KeyOf(f) : f \in Files}
    BY DEF ListingIInv, ListingType
  <2>2. ToSet(page) \subseteq {KeyOf(f) : f \in Files}
    BY <2>1, LenProperties, ElementOfSeq DEF ToSet
  <2> QED BY <1>1, <2>1, <2>2
<1> QED BY <1>1, <1>2, <1>4, <1>6, <1>7, <1>8, <1>9

(* A full page is followed by one that begins after its last key. *)
LEMMA NextPageKeeps ==
    ASSUME ListingIInv, EndPage, page # <<>>, marker' = Last(page), todo' = {Root}, st' = st,
           ends' = ends \cup {Last(page)}
    PROVE  ListingIInv'
<1>1. /\ st = "walking" /\ todo = {} /\ listed' = listed \cup ToSet(page)
      /\ page' = <<>> /\ ToSet(page') = {} /\ count' = 0
      /\ files' = files /\ dirPaths' = dirPaths /\ query' = query /\ folders' = folders
      /\ kept' = kept /\ ListedOnce' /\ TreeOK' /\ CountOK' /\ PageOK'
      /\ \A o : (Shown(o)' <=> Shown(o)) /\ (Excused(o) => Excused(o)')
      /\ \A f : Again(f) => Again(f)'
      /\ listed' \subseteq {KeyOf(f) : f \in Files}
  BY AnswerStep
<1>2. /\ page \in Seq({KeyOf(f) : f \in Files}) /\ marker \in Seq(Nat)
  BY DEF ListingIInv, ListingType
<1>3. PICK n \in Nat : n = Len(page) /\ n \in 1 .. Len(page) /\ DOMAIN page = 1 .. Len(page)
  <2>1. Len(page) \in Nat \ {0} /\ DOMAIN page = 1 .. Len(page)
    BY <1>2, EmptySeq, LenProperties
  <2>2. PICK m \in Nat : m = Len(page) /\ m # 0
    BY <2>1
  <2>3. m \in 1 .. m
    BY <2>2
  <2> QED BY <2>1, <2>2, <2>3
<1>4. PICK g \in Files : page[n] = KeyOf(g)
  <2>1. page[n] \in {KeyOf(f) : f \in Files}
    BY <1>2, <1>3, ElementOfSeq
  <2> QED BY <2>1
<1>5. \A f \in Files : KeyOf(f) \in Seq(Nat) /\ KeyOf(f) # <<>>
  BY PathFacts
<1>6. /\ marker' = KeyOf(g) /\ marker' \in Seq(Nat) /\ marker' # <<>>
      /\ WentOnFrom(g)'
  BY <1>3, <1>4, <1>5 DEF Last, WentOnFrom
<1>7. ListingType'
  <2>1. page' \in Seq({KeyOf(f) : f \in Files})
    BY <1>1, EmptySeq
  <2> QED BY <1>1, <1>6, <2>1 DEF ListingIInv, ListingType
<1>8. ASSUME NEW f \in Files, KeyOf(f) \in listed'
      PROVE  KeyOf(f) = marker' \/ Less(KeyOf(f), marker') \/ Again(f)'
  <2>1. CASE KeyOf(f) \in listed
    <3>1. marker # <<>> /\ (KeyOf(f) = marker \/ Less(KeyOf(f), marker) \/ Again(f))
      BY <1>1, <2>1 DEF ListingIInv, MarkerOK
    <3>2. Less(marker, marker')
      BY <1>3, <1>4, <1>6, <3>1 DEF ListingIInv, PageOK, AfterMarker
    <3> QED BY <1>1, <1>2, <1>5, <1>6, <3>1, <3>2, LessTransitive
  <2>2. CASE KeyOf(f) \in ToSet(page)
    <3>1. PICK i \in 1 .. Len(page) : KeyOf(f) = page[i]
      BY <1>3, <2>2 DEF ToSet
    <3>2. CASE i = n
      BY <1>4, <1>6, <3>1, <3>2
    <3>3. CASE i < n
      <4>1. Before(f, g)
        BY <1>3, <1>4, <3>1, <3>3 DEF ListingIInv, PageOK
      <4>2. ~Less(KeyOf(f), KeyOf(g)) => Again(f)'
        BY <1>6, <4>1 DEF Again, OutOfOrder
      <4> QED BY <1>6, <4>2
    <3> QED BY <1>3, <3>2, <3>3
  <2> QED BY <1>1, <1>8, <2>1, <2>2
<1>9. IdleOK' /\ MarkerOK' /\ DoneOK'
  BY <1>1, <1>6, <1>8 DEF IdleOK, MarkerOK, DoneOK
<1>10. ASSUME NEW o \in kept', HasPrefix(KeyOf(o), query.prefix)
       PROVE  Shown(o)' \/ Excused(o)' \/ Reachable(o)'
  <2>1. o \in kept /\ (Shown(o) \/ Excused(o) \/ Reachable(o)) /\ o \in Paths
    BY <1>1, <1>10, PathFacts DEF ListingIInv, Covered, ListingType
  <2>2. CASE Shown(o) \/ Excused(o)
    BY <1>1, <2>2
  <2>3. CASE Reachable(o)
    <3>1. Before(g, o)
      BY <1>1, <1>3, <1>4, <2>3 DEF Reachable
    <3>2. IsPrefix(Root, o)
      BY <2>1, RootIsPrefix
    <3>3. CASE Less(KeyOf(g), KeyOf(o))
      BY <1>6, <3>2, <3>3 DEF Reachable, AfterMarker
    <3>4. CASE ~Less(KeyOf(g), KeyOf(o))
      BY <1>6, <3>1, <3>4 DEF Excused, OutOfOrder
    <3> QED BY <3>3, <3>4
  <2> QED BY <2>1, <2>2, <2>3
<1>11. Covered'
  BY <1>1, <1>10 DEF Covered
<1> QED BY <1>1, <1>7, <1>9, <1>11 DEF ListingIInv

(* One that is not full, or has no key, is the last: nothing is left, or    *)
(* there is nothing to go on from.                                          *)
LEMMA LastPageKeeps ==
    ASSUME ListingIInv, EndPage, count < query.maxKeys \/ page = <<>>, st' = "done",
           stuck' = (count >= query.maxKeys), marker' = marker, todo' = todo, ends' = ends
    PROVE  ListingIInv'
<1>1. /\ st = "walking" /\ todo = {} /\ listed' = listed \cup ToSet(page)
      /\ page' = <<>> /\ ToSet(page') = {} /\ count' = 0
      /\ files' = files /\ dirPaths' = dirPaths /\ query' = query /\ folders' = folders
      /\ kept' = kept /\ ListedOnce' /\ TreeOK' /\ CountOK' /\ PageOK'
      /\ \A o : (Shown(o)' <=> Shown(o)) /\ (Excused(o) => Excused(o)')
      /\ listed' \subseteq {KeyOf(f) : f \in Files}
  BY AnswerStep
<1>2. count >= query.maxKeys => query.delimiter
  <2>1. query.maxKeys \in Nat \ {0}
    BY QueryAssumption DEF ListingIInv, ListingType
  <2>2. CASE ~query.delimiter
    <3>1. count = Len(page) /\ Len(page) \in Nat
      BY <2>2, LenProperties DEF ListingIInv, CountOK, ListingType
    <3>2. page = <<>> => Len(page) = 0
      OBVIOUS
    <3> QED BY <2>1, <3>1, <3>2
  <2> QED BY <2>2
<1>3. ListingType'
  <2>1. page' \in Seq({KeyOf(f) : f \in Files})
    BY <1>1, EmptySeq
  <2> QED BY <1>1, <2>1 DEF ListingIInv, ListingType
<1>4. IdleOK' /\ MarkerOK' /\ DoneOK'
  BY <1>1 DEF IdleOK, MarkerOK, DoneOK
<1>5. ASSUME NEW o \in kept', HasPrefix(KeyOf(o), query.prefix)
      PROVE  Shown(o)' \/ Excused(o)' \/ (query.delimiter /\ stuck')
  <2>1. Shown(o) \/ Excused(o) \/ Reachable(o)
    BY <1>1, <1>5 DEF ListingIInv, Covered
  <2>2. Reachable(o) => count >= query.maxKeys
    BY <1>1 DEF Reachable
  <2> QED BY <1>1, <1>2, <2>1, <2>2
<1>6. Covered'
  BY <1>1, <1>5 DEF Covered
<1> QED BY <1>1, <1>3, <1>4, <1>6 DEF ListingIInv

(* The end of a page keeps the invariant. *)
LEMMA EndPageKeeps == ASSUME ListingIInv, EndPage PROVE ListingIInv'
<1>1. \/ /\ page # <<>> /\ marker' = Last(page) /\ todo' = {Root} /\ st' = st
         /\ ends' = ends \cup {Last(page)}
      \/ /\ count < query.maxKeys \/ page = <<>>
         /\ st' = "done" /\ stuck' = (count >= query.maxKeys) /\ marker' = marker
         /\ todo' = todo /\ ends' = ends
  BY DEF EndPage
<1> QED BY <1>1, NextPageKeeps, LastPageKeeps

---------------------------------------------------------------------------
(* The listing of a bucket keeps its invariant.                             *)
THEOREM ListingInvariance == ListingSpec => []ListingIInv
<1>1. ASSUME ListingInit PROVE ListingIInv
  <2>1. /\ ListingType /\ TreeOK /\ IdleOK /\ MarkerOK /\ DoneOK /\ Covered /\ ListedOnce
        /\ PageOK /\ CountOK
    BY <1>1, EmptySeq DEF ListingInit, ListingType, TreeOK, IdleOK, MarkerOK, DoneOK, Covered,
       ListedOnce, PageOK, CountOK
  <2> QED BY <2>1 DEF ListingIInv
<1>2. ASSUME ListingIInv, [ListingNext]_listingVars PROVE ListingIInv'
  <2>1. ASSUME Start PROVE ListingIInv'
    BY <1>2, <2>1, StartKeeps
  <2>2. ASSUME NEW p \in todo, Visit(p) PROVE ListingIInv'
    BY <1>2, <2>2, VisitKeeps
  <2>3. ASSUME EndPage PROVE ListingIInv'
    BY <1>2, <2>3, EndPageKeeps
  <2>4. ASSUME NEW p \in Object \cup PartFile, Put(p) PROVE ListingIInv'
    BY <1>2, <2>4, PutKeeps DEF Files
  <2>5. ASSUME NEW p \in files, Delete(p) PROVE ListingIInv'
    BY <1>2, <2>5, DeleteKeeps
  <2>6. ASSUME NEW p \in PartFile, RemoveUpload(p) PROVE ListingIInv'
    BY <1>2, <2>6, RemoveUploadKeeps
  <2>7. CASE UNCHANGED listingVars
    <3>1. UNCHANGED client /\ files' = files /\ dirPaths' = dirPaths /\ kept' = kept
      BY <2>7 DEF listingVars, bucket
    <3>2. /\ files' \subseteq Files /\ dirPaths' \subseteq Paths
          /\ kept' \subseteq files' \cap Object /\ TreeOK'
      BY <1>2, <3>1 DEF ListingIInv, ListingType, TreeOK
    <3> QED BY <1>2, <3>1, <3>2, OthersStep
  <2> QED BY <1>2, <2>1, <2>2, <2>3, <2>4, <2>5, <2>6, <2>7 DEF ListingNext, Walk, Changes
<1> QED BY <1>1, <1>2, PTL DEF ListingSpec

(* A listing of the filesystem backend that is followed to its end has      *)
(* every object that was there all along, unless its key ends in .meta, a   *)
(* page ended with a file met before it whose key is greater, or a page was *)
(* full of common prefixes.                                                 *)
THEOREM FileListingsLoseNothing == ListingSpec => []NothingLost
<1>1. ASSUME ListingIInv PROVE NothingLost
  <2>1. st = "done" => ToSet(page) = {}
    BY <1>1 DEF ListingIInv, DoneOK, ToSet
  <2> QED BY <1>1, <2>1 DEF ListingIInv, Covered, Shown, Excused, NothingLost
<1> QED BY <1>1, ListingInvariance, PTL

(* And no page of it has a key that it or an earlier page has already,      *)
(* unless a page went on after that key to a smaller one and ended there.   *)
THEOREM FileListingsShowKeysOnce == ListingSpec => []ListedOnce
<1>1. ASSUME ListingIInv PROVE ListedOnce
  BY <1>1 DEF ListingIInv
<1> QED BY <1>1, ListingInvariance, PTL

=============================================================================
