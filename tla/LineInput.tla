----------------------------- MODULE LineInput -----------------------------
(***************************************************************************)
(* What the ring of the console promises: characters become readable a     *)
(* line at a time, in the order typed, after the line was edited; nothing  *)
(* that is readable can be edited any more, and it goes from the front.    *)
(***************************************************************************)
EXTENDS Naturals, Sequences

CONSTANTS Text, End, Room   \* ordinary and line-ending characters; capacity

VARIABLES ready, line   \* readable; still being edited

Init == ready = <<>> /\ line = <<>>

(* A line becomes readable when it ends, or when there is no more room. *)
Type(c) ==
  LET typed == Append(line, c)
      size == Len(ready) + Len(typed)
  IN /\ size <= Room
     /\ IF c \in End \/ size = Room THEN ready' = ready \o typed /\ line' = <<>>
        ELSE line' = typed /\ UNCHANGED ready

Erase ==
  /\ line # <<>>
  /\ line' = SubSeq(line, 1, Len(line) - 1)
  /\ UNCHANGED ready

(* A reader takes the next character; what becomes of its copy to the       *)
(* reader's memory is not said, and when that fails the character is gone.  *)
Take ==
  /\ ready # <<>>
  /\ ready' = Tail(ready)
  /\ UNCHANGED line

Next == Take \/ Erase \/ \E c \in Text \cup End : Type(c)

Spec == Init /\ [][Next]_<<ready, line>>
============================================================================
