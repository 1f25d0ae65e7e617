----------------------------- MODULE AddrSpace -----------------------------
(***************************************************************************)
(* What processes may assume of their memory: each has an image, a         *)
(* sequence of pages that only its own writes change.  New pages are zero, *)
(* a child starts with a copy, exec replaces the image or leaves it alone. *)
(***************************************************************************)
EXTENDS Integers, Sequences

CONSTANTS Proc, Value, Images, MaxPages, None

VARIABLE img

Grow(p) ==
  img[p] # None /\ \E k \in 1..MaxPages : img' = [img EXCEPT ![p] = @ \o [i \in 1..k |-> 0]]
Shrink(p) ==
  img[p] # None /\ \E k \in 0..Len(img[p]) : img' = [img EXCEPT ![p] = SubSeq(@, 1, k)]
Fork(p, q) == img[p] # None /\ img[q] = None /\ img' = [img EXCEPT ![q] = img[p]]
Exec(p, i) == img[p] # None /\ img' = [img EXCEPT ![p] = i]
Exit(p) == img' = [img EXCEPT ![p] = None]
Write(p, x, S) ==
  /\ img[p] # None
  /\ img' = [img EXCEPT ![p] = [v \in 1..Len(@) |-> IF v \in S THEN x ELSE @[v]]]

Init == \E p \in Proc : img = [q \in Proc |-> IF q = p THEN <<>> ELSE None]

Next ==
  \E p \in Proc :
    \/ Grow(p) \/ Shrink(p)
    \/ \E q \in Proc : Fork(p, q)
    \/ \E i \in Images : Exec(p, i)
    \/ Exit(p)
    \/ \E x \in Value : img[p] # None /\ \E S \in SUBSET (1..Len(img[p])) : Write(p, x, S)

Spec == Init /\ [][Next]_img

============================================================================
