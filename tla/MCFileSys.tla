----------------------------- MODULE MCFileSys -----------------------------
(* Small instances of FileSys. *)
EXTENDS FileSys, TLC

CONSTANTS p1, p2

Procs == {p1, p2}
Inums == 1..4
Names == {"a", "b"}
A == [abs |-> TRUE, elems |-> <<"a">>]
AB == [abs |-> TRUE, elems |-> <<"a", "b">>]
B == [abs |-> FALSE, elems |-> <<"b">>]
Around == [abs |-> TRUE, elems |-> <<"a", "b", "..", "b">>]
Root == [abs |-> TRUE, elems |-> <<>>]
Flat == {A, B}
Deep == {A, AB, Around, Root}

(* Images: the root directory with a file a, or with a directory a that has   *)
(* a directory b in it.                                                     *)
RootDir == [Free EXCEPT !.type = "dir", !.nlink = 1, !.up = 1]
AFile == [Free EXCEPT !.type = "file", !.nlink = 1]
OneFile == <<[RootDir EXCEPT !.ents["a"] = 2], AFile, Free, Free>>
Nested == <<[RootDir EXCEPT !.nlink = 2, !.ents["a"] = 2],
            [RootDir EXCEPT !.nlink = 2, !.ents["b"] = 3],
            [RootDir EXCEPT !.up = 2], Free>>

(* Files with two links, directories that are removed under a walk, and     *)
(* crashes with open files.                                                 *)
Links == [image |-> OneFile, calls |-> {"open", "link", "unlink", "close"},
          paths |-> Flat, ncalls |-> 4, ncrash |-> 0]
Dirs == [image |-> Nested, calls |-> {"creat", "mkdir", "unlink", "chdir"},
         paths |-> Deep, ncalls |-> 3, ncrash |-> 0]
Crashes == [image |-> OneFile, calls |-> {"open", "unlink", "mknod", "close"},
            paths |-> Flat, ncalls |-> 3, ncrash |-> 1]
Workloads == {Links, Dirs, Crashes}

Symmetry == Permutations(Procs)

============================================================================
