----------------------------- MODULE MCFileData -----------------------------
(* A small instance of FileData: p1 and p2 share open files, two of f1, one *)
(* of f2 and one of the root directory; mkfs was given f1.                  *)
EXTENDS FileData, TLC

CONSTANTS p1, p2, f1, f2, d1, d2, d3, d4, root

Procs == {p1, p2}
Files == {f1, f2, root}
Fds == {d1, d2, d3, d4}
FdFiles == (d1 :> f1) @@ (d2 :> f2) @@ (d3 :> f1) @@ (d4 :> root)
Entry == <<9>>
Files1 == <<[file |-> f1, data |-> <<4>>]>>
Fills == (p1 :> <<5, 6>>) @@ (p2 :> <<7>>)

============================================================================
