----------------------------- MODULE MCConsole -----------------------------
(* An instance of Console for TLC: lines are typed, edited and read; or two *)
(* processes write, or one that is killed, while characters are echoed.     *)
EXTENDS Console

CONSTANTS p1, p2, x

Reads == [readers |-> {p1}, writers |-> {}, killable |-> {p1},
          keys |-> Text \cup Ignored \cup {CR, EOF, ERASE, KILL},
          typed |-> 3, before |-> 3]
Writes == [readers |-> {}, writers |-> {p1, p2}, killable |-> {}, keys |-> {x},
           typed |-> 2, before |-> 0]
Kills == [Writes EXCEPT !.writers = {p1}, !.killable = {p1},
                         !.keys = {x} \cup Ignored]
Workloads == {Reads, Writes, Kills}
Procs == {p1, p2}
Chars == {x}
============================================================================
