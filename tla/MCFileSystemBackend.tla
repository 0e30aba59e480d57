------------------------ MODULE MCFileSystemBackend ------------------------
(* A small instance of FileSystemBackend: one key, one upload of two parts.  *)
EXTENDS FileSystemBackend, TLC

MCContents == {<<"a">>}

MCPartContents == 2 :> {<<"p">>} @@ 10 :> {<<"q">>}

MCPartLists == {<<10, 2>>}

MCNameOrder == <<10, 2>>

(* Which inode a file has does not matter, only what is in it, whether an    *)
(* open one is still that of its path, and which requests share it.  Nor     *)
(* does what a reader has seen that has nothing to expect, or what an        *)
(* object should become that is not assembled alone.                         *)
Content(i) == IF i = None THEN None ELSE data[i]

Careless(r) == pc[r] \in Reading \cup {"replied"} /\ req[r].want \in {Unknown, Gone}

Locals(r) ==
    IF Careless(r)
    THEN [req[r] EXCEPT !.body = [i \in DOMAIN @ |-> Hole], !.size = 0, !.meta = None]
    ELSE IF pc[r] = "assemble" /\ ~req[r].alone THEN [req[r] EXCEPT !.body = <<>>]
    ELSE req[r]

Seen(r) == <<pc[r], [Locals(r) EXCEPT !.ino = Content(@), !.from = Content(@)],
             req[r].ino # None /\ req[r].ino = file[req[r].path],
             req[r].from # None /\ req[r].from = file[req[r].part],
             {q \in Request : req[q].ino # None /\ req[q].ino \in {req[r].ino, req[r].from}},
             {q \in Request : req[q].from # None /\ req[q].from = req[r].from}>>

(* The first component is TRUE: it makes TLC evaluate both functions before  *)
(* it stores the state.                                                      *)
LiveView == <<<<file, data>> = <<file, data>>,
              [p \in Path |-> Content(file[p])], metaFile, dirs, used, promise,
              [r \in Request |-> Seen(r)]>>

Symmetric == Permutations(Request)
=============================================================================
