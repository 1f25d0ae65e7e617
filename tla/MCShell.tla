------------------------------ MODULE MCShell ------------------------------
(* A shell on small tables, with lines of every shape of the grammar. *)
EXTENDS Shell

Strings(chars, lengths) == UNION {[1..n -> chars] : n \in lengths}

(* Every kind of command, the ways they nest, and words that no rule of the *)
(* grammar takes; g is a program that makes any calls on descriptors.       *)
MCRunLines ==
  {<<"x">>, <<"e", " ", "a">>, <<"c", " ", "a", " ", "a">>, <<"c", "<", "a">>,
   <<"e", ">", ">", "a">>, <<"(", "e", ")", ">", "a">>, <<"<", "a">>, <<"|">>, <<"<">>,
   <<"g", " ", "a", " ", "a">>, <<"g", "|", "c">>, <<"g", "&", ";", "e">>,
   <<"e", "|", "c", "&">>, <<"e", "|", "c", "|", "c">>,
   <<"(", "e", " ", "a", ";", "e", " ", "a", ")", "|", "c">>}

(* Lines whose words, redirections between them or not, are one less than  *)
(* MAXARGS and as many.                                                     *)
LongLines ==
  {<<"e", " ", "e", " ", "e", "<", "e">>, <<"e", "<", "e", " ", "e", ">", "e", " ", "e">>,
   <<"e", " ", "e", " ", "e", " ", "e">>, <<"e", " ", "e", ">", "e", " ", "e", " ", "e">>,
   <<"<", "e", " ", "e", " ", "e", " ", "e", " ", "e">>}

(* Parsed: every short line, and longer ones over part of the characters. *)
MCLines ==
  MCRunLines \cup LongLines \cup {<<"c", "d", " ", "a">>}
    \cup Strings({"e", " "} \cup Symbols, 1..3)
    \cup Strings({"e", "<", ">", " "}, 4..5) \cup Strings({"e", "(", ")", ";"}, 4..5)
    \cup Strings({"e", "|", "&", ";"}, 4..5)
============================================================================
