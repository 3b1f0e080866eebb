----------------------------- MODULE PathGrammar -----------------------------
(***************************************************************************)
(* What the parser promises: parser.y as a definition of its own, and how  *)
(* a list of rules may be written.  PathSyntax, which has only the tables  *)
(* that goyacc generated and the lexer, is checked against them.           *)
(***************************************************************************)
EXTENDS PathSyntax

CONSTANT Written       \* rule lists whose every spelling is in Texts

(* The productions of parser.y, of tokens and of symbols above them, with  *)
(* the list's recursion on the right.                                      *)
Jsonpath == 20
Rules == 21
Rule == 22
Productions ==
  (Jsonpath :> {<<5, Rules>>})
    @@ (Rules :> {<<>>, <<Rule, Rules>>})
    @@ (Rule :> {<<6, String>>, <<6, 7>>, <<8, String, 9>>, <<8, 7, 9>>,
                 <<8, 10, 11, 12, Rules, 13, String, 14, 9>>})

(* A sentence that goal derives begins with the tokens ts.                 *)
RECURSIVE Begins(_, _)
Begins(goal, ts) ==
  \/ ts = <<>>
  \/ /\ goal # <<>> /\ ts # <<>>
     /\ IF Head(goal) \in DOMAIN Productions
        THEN \E p \in Productions[Head(goal)] : Begins(p \o Tail(goal), ts)
        ELSE Head(goal) = Head(ts) /\ Begins(Tail(goal), Tail(ts))

(* The ways to write a list of rules, spaces left out: a name of letters   *)
(* alone needs no quotes; a quote or a space in a name does.               *)
Bare(k) == \A i \in 1..Len(k) : k[i] \in Letters
NameSpellings(k) == {<<"'">> \o k \o <<"'">>} \cup (IF Bare(k) /\ k # <<>> THEN {k} ELSE {})
RECURSIVE Spellings(_)
Spellings(rs) ==
  LET Spelling(r) ==
        CASE r.rule = "name" -> {<<".">> \o k : k \in NameSpellings(r.key)}
                                  \cup {<<"[">> \o k \o <<"]">> : k \in NameSpellings(r.key)}
          [] r.rule = "all" -> {<<".", "*">>, <<"[", "*", "]">>}
          [] r.rule = "filter" ->
               {<<"[", "?", "(", "@">> \o p \o <<"=">> \o k \o <<")", "]">> :
                  p \in Spellings(r.path), k \in NameSpellings(r.equals)}
  IN  IF rs = <<>> THEN {<<>>}
      ELSE {a \o b : a \in Spelling(Head(rs)), b \in Spellings(Tail(rs))}
SpelledAs == [rs \in Written |-> {<<"$">> \o t : t \in Spellings(rs)}]
------------------------------------------------------------------------------
Continues(ts) == Begins(<<Jsonpath, Eof>>, ts)

(* The parser shifts a token only if some sentence of the grammar goes on  *)
(* like this, accepts exactly a sentence, and gives up at the first token  *)
(* with which no sentence goes on, naming only tokens that could have come *)
(* there: parser.go's tables are parser.y's.                               *)
ParsesTheGrammar ==
  /\ status = "parsing" => Continues(IF look = <<>> THEN read ELSE Front(read))
  /\ status = "accepted" => Last(read) = Eof /\ Continues(read)
  /\ status = "failed" => /\ ~Continues(read)
                          /\ \A t \in out : Continues(Append(Front(read), t))

(* A list of rules, however it is written, is what Compile returns for it: *)
(* a quoted name has all its characters, the kept backslashes included.    *)
SpellingsCompile ==
  \A rs \in Written : text \in SpelledAs[rs] =>
    status # "failed" /\ (status = "accepted" => out = rs)
==============================================================================
