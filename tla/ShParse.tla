------------------------------ MODULE ShParse ------------------------------
(***************************************************************************)
(* The parser of user/sh.c.  A line is a sequence of characters; a pointer *)
(* into it is a position, and position Len + 1 holds the terminating 0.    *)
(* panic() is the position 0: peek finds nothing there, so that it goes up *)
(* through the callers.  A word is the pair of its q and eq.               *)
(***************************************************************************)
EXTENDS Integers, FiniteSets, Sequences, SequencesExt, FiniteSetsExt

CONSTANTS MAXARGS

Whitespace == {" ", "\n"}
Symbols == {"<", "|", ">", "&", ";", "(", ")"}

execcmd(argv) == [type |-> "EXEC", argv |-> argv]
redircmd(cmd, file, mode, fd) ==
  [type |-> "REDIR", cmd |-> cmd, file |-> file, mode |-> mode, fd |-> fd]
pipecmd(left, right) == [type |-> "PIPE", left |-> left, right |-> right]
listcmd(left, right) == [type |-> "LIST", left |-> left, right |-> right]
backcmd(cmd) == [type |-> "BACK", cmd |-> cmd]

----------------------------------------------------------------------------
(* strchr over the rest of the line: the next position outside a set. *)
Span(s, i, chars) == Min({j \in i..(Len(s) + 1) : j = Len(s) + 1 \/ s[j] \notin chars})
Word(s, i) == Min({j \in i..(Len(s) + 1) : j = Len(s) + 1 \/ s[j] \in Whitespace \cup Symbols})

MutNoAppend(s, q) ==
  IF q > Len(s) THEN "0" ELSE IF s[q] \in Symbols THEN s[q] ELSE "a"
Kind(s, q) ==
  IF q > Len(s) THEN "0"
  ELSE IF s[q] = ">" /\ q < Len(s) /\ s[q + 1] = ">" THEN "+"
  ELSE IF s[q] \in Symbols THEN s[q] ELSE "a"
EndOf(s, q, tok) ==
  CASE tok = "0" -> q [] tok = "a" -> Word(s, q) [] tok = "+" -> q + 2 [] OTHER -> q + 1
TokenAt(s, q, tok, eq) == [tok |-> tok, q |-> q, eq |-> eq, i |-> Span(s, eq, Whitespace)]
TokenFrom(s, q) == TokenAt(s, q, Kind(s, q), EndOf(s, q, Kind(s, q)))
gettoken(s, i) == TokenFrom(s, Span(s, i, Whitespace))

peek(s, i, toks) ==
  i > 0 /\ LET q == Span(s, i, Whitespace) IN q <= Len(s) /\ s[q] \in toks

(* What a parse function returns: a tree and where it left ps. *)
Parsed(cmd, i) == [cmd |-> cmd, i |-> i]
Panic == Parsed(execcmd(<<>>), 0)

(* The mode and descriptor of a redirection; wrapping a command in a list   *)
(* of them.                                                                 *)
Mode(tok) == CASE tok = "<" -> <<"r", 0>> [] tok = ">" -> <<"wct", 1>> [] tok = "+" -> <<"wc", 1>>
Wrap(cmd, list) == FoldLeft(LAMBDA c, r : redircmd(c, r.file, r.mode[1], r.mode[2]), cmd, list)

(* The redirections from each position on. *)
parseredirs(s) ==
  LET R[i \in 0..(Len(s) + 1)] ==
        IF ~peek(s, i, {"<", ">"}) THEN [list |-> <<>>, i |-> i]
        ELSE LET t == gettoken(s, i)  f == gettoken(s, t.i)
             IN IF f.tok # "a" THEN [list |-> <<>>, i |-> 0]
                ELSE [R[f.i] EXCEPT !.list = <<[file |-> <<f.q, f.eq>>, mode |-> Mode(t.tok)]>> \o @]
  IN R

(* The loop of parseexec after its first redirections.  argv is filled      *)
(* through a pointer to the EXEC, whatever wraps it by then.                *)
NoArgs(i) == [argv |-> <<>>, list |-> <<>>, i |-> i]
Arg1(t, r, more) ==
  [argv |-> <<<<t.q, t.eq>>>> \o more.argv, list |-> r.list \o more.list, i |-> more.i]
parseargs(s) ==
  LET A[i \in 0..(Len(s) + 1), argc \in 0..MAXARGS] ==
        LET t == gettoken(s, i)  r == parseredirs(s)[t.i]
        IN IF i = 0 \/ peek(s, i, {"|", ")", "&", ";"}) THEN NoArgs(i)
           ELSE IF t.tok = "0" THEN NoArgs(t.i)
           ELSE IF t.tok # "a" \/ argc + 1 >= MAXARGS THEN NoArgs(0)
           ELSE Arg1(t, r, A[r.i, argc + 1])
  IN A

(* P: the recursive calls of parseline and parsepipe. *)
parseblock(P, s, i) ==
  LET l == P["line", gettoken(s, i).i]
      r == parseredirs(s)[gettoken(s, l.i).i]
  IN IF ~peek(s, l.i, {")"}) THEN Panic ELSE Parsed(Wrap(l.cmd, r.list), r.i)

parseexec(P, s, i) ==
  LET r == parseredirs(s)[i]  a == parseargs(s)[r.i, 0]
  IN IF peek(s, i, {"("}) THEN parseblock(P, s, i)
     ELSE Parsed(Wrap(execcmd(a.argv), r.list \o a.list), a.i)

PipeFrom(P, s, l) ==
  LET r == P["pipe", gettoken(s, l.i).i]
  IN IF ~peek(s, l.i, {"|"}) THEN l ELSE Parsed(pipecmd(l.cmd, r.cmd), r.i)
parsepipe(P, s, i) == PipeFrom(P, s, parseexec(P, s, i))

(* The loop over "&" of parseline. *)
parseback(s) ==
  LET B[i \in 0..(Len(s) + 1)] ==
        IF ~peek(s, i, {"&"}) THEN [n |-> 0, i |-> i]
        ELSE [B[gettoken(s, i).i] EXCEPT !.n = @ + 1]
  IN B
Backs(cmd, n) == FoldLeft(LAMBDA c, k : backcmd(c), cmd, [k \in 1..n |-> k])

parseline(P, s, i) ==
  LET l == P["pipe", i]  b == parseback(s)[l.i]  r == P["line", gettoken(s, b.i).i]
      left == Backs(l.cmd, b.n)
  IN IF ~peek(s, b.i, {";"}) THEN Parsed(left, b.i) ELSE Parsed(listcmd(left, r.cmd), r.i)

(* The positions that nulterminate overwrites with 0, level by level of a   *)
(* tree of at most n levels.                                                *)
Sub(cmd) == CASE cmd.type = "EXEC" -> {}
              [] cmd.type \in {"REDIR", "BACK"} -> {cmd.cmd}
              [] OTHER -> {cmd.left, cmd.right}
WordEnds(cmd) == CASE cmd.type = "EXEC" -> {cmd.argv[k][2] : k \in DOMAIN cmd.argv}
               [] cmd.type = "REDIR" -> {cmd.file[2]}
               [] OTHER -> {}
nulterminate(cmd, n) ==
  LET level[k \in 0..n] == IF k = 0 THEN {cmd} ELSE UNION {Sub(c) : c \in level[k - 1]}
  IN UNION {WordEnds(c) : c \in UNION {level[k] : k \in 0..n}}

(* parsecmd, with i = 0 when it panics, on leftovers too. *)
Whole(s, r) == IF r.i = 0 \/ Span(s, r.i, Whitespace) <= Len(s) THEN Panic ELSE r
parsecmd(s) ==
  LET P[nt \in {"line", "pipe"}, i \in 0..(Len(s) + 1)] ==
        IF nt = "line" THEN parseline(P, s, i) ELSE parsepipe(P, s, i)
  IN Whole(s, P["line", 1])

----------------------------------------------------------------------------
(* The grammar the parser is for, read as a set of derivations:             *)
(*   line = pipe {"&"} [";" line]      pipe = exec ["|" pipe]              *)
(*   exec = "(" line ")" {redir}  or  {redir} {word {redir}}                *)
(*   redir = ("<" or ">" or ">>") word                                      *)
(* over the tokens T[a..b-1].                                               *)
Letter(s, i) == i \in DOMAIN s /\ s[i] \notin Whitespace \cup Symbols

(* Tokens: words are maximal, and a run of ">" is cut into pairs from its   *)
(* left end.                                                                *)
RunLength(s, i) == Cardinality({j \in 1..(i - 1) : \A k \in j..(i - 1) : s[k] = ">"})
Starts(s) == {i \in DOMAIN s :
  \/ s[i] \in Symbols \ {">"} \/ (s[i] = ">" /\ RunLength(s, i) % 2 = 0)
  \/ Letter(s, i) /\ ~Letter(s, i - 1)}
Token(s, i) ==
  [tok |-> IF Letter(s, i) THEN "a" ELSE IF s[i] = ">" /\ i < Len(s) /\ s[i + 1] = ">" THEN "+" ELSE s[i],
   w |-> <<i, CHOOSE j \in (i + 1)..(Len(s) + 1) :
                  ~Letter(s, j) /\ \A k \in i..(j - 1) : Letter(s, k) \/ k = i>>]
Sorted(S) == [k \in 1..Cardinality(S) |->
                CHOOSE x \in S : Cardinality({y \in S : y <= x}) = k]
Tokens(s) == LET q == Sorted(Starts(s)) IN [k \in DOMAIN q |-> Token(s, q[k])]

Redirects(T, a, b) == {k \in a..(b - 1) : T[k].tok \in {"<", ">", "+"}}
WellFormed(T, a, b) ==
  /\ \A k \in a..(b - 1) : T[k].tok \in {"a", "<", ">", "+"}
  /\ \A k \in Redirects(T, a, b) : k + 1 < b /\ T[k + 1].tok = "a"
Redirect(T, a, b, cmd) ==
  LET rs == Sorted(Redirects(T, a, b))
  IN Wrap(cmd, [k \in DOMAIN rs |-> [file |-> T[rs[k] + 1].w, mode |-> Mode(T[rs[k]].tok)]])
Args(T, a, b) == {k \in a..(b - 1) : T[k].tok = "a" /\ ~(k > a /\ k - 1 \in Redirects(T, a, b))}
At(T, a, b, t) == {k \in a..(b - 1) : T[k].tok = t}

(* G: the derivations of a line and of a pipe over a range of T. *)
Simple(T, a, b) ==
  LET arg == Sorted(Args(T, a, b))
  IN IF WellFormed(T, a, b) /\ Len(arg) < MAXARGS
       THEN {Redirect(T, a, b, execcmd([k \in DOMAIN arg |-> T[arg[k]].w]))} ELSE {}
Block(G, T, a, b) ==
  IF a < b /\ T[a].tok = "("
    THEN UNION {{Redirect(T, m + 1, b, c) : c \in G["line", a + 1, m]} :
                  m \in {k \in At(T, a, b, ")") : WellFormed(T, k + 1, b) /\ Args(T, k + 1, b) = {}}}
    ELSE {}
Pipe(G, T, a, b) ==
  LET Exec(m) == Simple(T, a, m) \cup Block(G, T, a, m)
  IN Exec(b) \cup UNION {{pipecmd(l, r) : l \in Exec(m), r \in G["pipe", m + 1, b]} :
                           m \in At(T, a, b, "|")}
Line(G, T, a, b) ==
  LET Back(m) == UNION {{Backs(c, m - k) : c \in G["pipe", a, k]} :
                          k \in {j \in a..m : j..(m - 1) \subseteq At(T, a, m, "&")}}
  IN Back(b) \cup UNION {{listcmd(l, r) : l \in Back(m), r \in G["line", m + 1, b]} :
                           m \in At(T, a, b, ";")}
Trees(T) ==
  LET G[nt \in {"line", "pipe"}, a \in 1..(Len(T) + 1), b \in 1..(Len(T) + 1)] ==
        IF nt = "line" THEN Line(G, T, a, b) ELSE Pipe(G, T, a, b)
  IN G["line", 1, Len(T) + 1]

(* parsecmd accepts exactly the lines of the grammar, builds the tree of    *)
(* the line's derivation, and terminates every word of the line.            *)
Agrees(s, T, trees, r) ==
  IF r.i = 0 THEN trees = {}
  ELSE /\ trees = {r.cmd}
       /\ nulterminate(r.cmd, Len(s)) = {T[k].w[2] : k \in {j \in DOMAIN T : T[j].tok = "a"}}
ParsesExactly(s) == LET T == Tokens(s) IN Agrees(s, T, Trees(T), parsecmd(s))
============================================================================
