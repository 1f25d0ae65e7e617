------------------------------ MODULE MCMemory ------------------------------
(* Small instances of Memory: two programs, and their images as exec should *)
(* make them (text, bss, guard page, stack with the arguments).             *)
EXTENDS Memory, TLC

CONSTANTS p1, p2

Procs == {p1, p2}
Seg(vaddr, memsz, filesz, w) == [vaddr |-> vaddr, memsz |-> memsz, filesz |-> filesz, w |-> w]
Progs == {<<Seg(0, 2, 2, FALSE)>>, <<Seg(0, 1, 1, FALSE), Seg(2, 3, 1, TRUE)>>}
Images == {<<TEXT, 0, ARGS>>, <<TEXT, TEXT, 0, 0, ARGS>>}

A == INSTANCE AddrSpace WITH
       img <- [p \in Proc |-> IF p \in live THEN Image(p) ELSE None],
       Value <- Value, Images <- Images, MaxPages <- TRAPFRAME
IsAddrSpace == A!Spec

SizesUpDown == {1, 4, -2, -3}

Symmetry == Permutations(Procs)

============================================================================
