----------------------------- MODULE PathSyntax ------------------------------
(***************************************************************************)
(* From the text of a path to its rules: pkg/util/jsonpath's lexer and the *)
(* parser goyacc made from parser.y, with its tables and its driver.  A    *)
(* text is a sequence of characters; a token is its number in the parser   *)
(* and the text it carries.  One step of the specification is one label of *)
(* the driver: it asks for a token, shifts, reduces, accepts or gives up.  *)
(***************************************************************************)
EXTENDS JsonPath, Integers

CONSTANTS Texts,       \* the texts that Compile is called with
          Letters,     \* the characters that are letters or digits
          Spaces

VARIABLES text, rest,  \* what Compile was given, and what is unread of it
          read,        \* the tokens read so far, the lookahead included
          look,        \* yyrcvr.char: <<>>, or the one token read ahead
          stack,       \* yyS: states, each with the value of its symbol
          status,      \* "parsing", "accepted" (ret0) or "failed" (ret1)
          out          \* lexer.out, or what l.err says was expected

parserVars == <<text, rest, read, look, stack, status, out>>
------------------------------------------------------------------------------
(* The lexer.                                                              *)
Eof == 1
Unknown == 3
String == 4
Symbol == ("$" :> 5) @@ ("." :> 6) @@ ("*" :> 7) @@ ("[" :> 8) @@ ("]" :> 9) @@ ("?" :> 10)
            @@ ("(" :> 11) @@ ("@" :> 12) @@ ("=" :> 13) @@ (")" :> 14)

Token(n, s, cs) == [token |-> n, s |-> s, rest |-> cs]
From(cs, i) == SubSeq(cs, i, Len(cs))

(* The length of the longest prefix of cs whose characters are all in S.   *)
Span(cs, S) == CHOOSE n \in 0..Len(cs) : /\ \A i \in 1..n : cs[i] \in S
                                         /\ n < Len(cs) => cs[n + 1] \notin S

(* Mutant: every quote ends a quoted string. *)
MutClosing(cs) == {i \in 1..Len(cs) : cs[i] = "'"}

(* Where a quoted string may end: a backslash keeps a quote inside, and    *)
(* stays there with it.                                                    *)
Closing(cs) == {i \in 1..Len(cs) : cs[i] = "'" /\ (i = 1 \/ cs[i - 1] # "\\")}

Quoted(cs) ==
  IF Closing(cs) = {} THEN Token(Eof, <<>>, <<>>)
  ELSE LET i == CHOOSE i \in Closing(cs) : \A j \in Closing(cs) : i <= j
       IN  Token(String, SubSeq(cs, 1, i - 1), From(cs, i + 1))

Lex(cs) ==
  LET t == From(cs, Span(cs, Spaces) + 1)
      n == Span(t, Letters)
  IN  CASE t = <<>>         -> Token(Eof, <<>>, <<>>)
        [] n > 0            -> Token(String, SubSeq(t, 1, n), From(t, n + 1))
        [] Head(t) = "'"    -> Quoted(Tail(t))
        [] OTHER            -> Token(IF Head(t) \in DOMAIN Symbol THEN Symbol[Head(t)] ELSE Unknown,
                                     <<>>, Tail(t))
------------------------------------------------------------------------------
(* The tables.  State and production numbers start at 0.                   *)
yyFlag == -1000
yyLast == 22
yyAct == <<3, 5, 19, 6, 15, 14, 9, 20, 17, 10, 13, 7, 11, 12, 8, 5, 16, 6, 2, 18, 1, 4>>
yyPact == <<13, -1000, -1000, 9, -1000, 7, 2, -1000, -1000, 4, 1, -6, -1000, -1000, -8, -1000,
            -5, 15, -12, -2, -1000>>
yyPgo == <<0, 0, 21, 20>>
yyR1 == <<0, 3, 1, 1, 2, 2, 2, 2, 2>>
yyR2 == <<0, 2, 0, 2, 2, 2, 3, 3, 9>>
yyChk == <<-1000, -3, 5, -1, -2, 6, 8, 4, 7, 4, 7, 10, 9, 9, 11, 12, -1, 13, 4, 14, 9>>
yyDef == <<0, -2, 2, 1, 3, 0, 0, 4, 5, 0, 0, 0, 6, 7, 0, 2, 0, 0, 0, 0, 8>>

State == stack[Len(stack)].state
Simple(s) == yyPact[s + 1] <= yyFlag

(* Mutant: the entry of the table is not compared with the token. *)
MutShiftsTo(s, t) == IF yyPact[s + 1] + t \in 0..yyLast - 1 THEN yyAct[yyPact[s + 1] + t + 1] ELSE 0

(* The state that shifting t leads to from s, 0 if t cannot be shifted.    *)
ShiftsTo(s, t) ==
  LET n == yyPact[s + 1] + t
  IN  IF n \in 0..yyLast - 1 /\ yyChk[yyAct[n + 1] + 1] = t THEN yyAct[n + 1] ELSE 0

(* The default action of s: a production, 0 for an error, -1 to accept.    *)
(* State 1, the only one in yyExca, accepts at the end of the text.        *)
NeedsToken(s) == ~Simple(s) \/ yyDef[s + 1] = -2
Default(s, t) ==
  IF yyDef[s + 1] # -2 THEN yyDef[s + 1] ELSE IF t = Eof THEN -1 ELSE 0

(* Where symbol n of the grammar leads from s.                             *)
Goto(s, n) ==
  LET g == yyPgo[n + 1]
      j == g + s + 1
  IN  IF j < yyLast /\ yyChk[yyAct[j + 1] + 1] = -n THEN yyAct[j + 1] ELSE yyAct[g + 1]

(* The value of production p, of the values d of its symbols.              *)
Semantics(p, d, default) ==
  CASE p = 2 -> <<>>
    [] p = 3 -> Append(d[1], d[2])
    [] p \in {4, 6} -> Name(d[2])
    [] p \in {5, 7} -> All
    [] p = 8 -> Where(d[5], d[7])
    [] OTHER -> default

(* yyErrorMessage: the tokens it says were expected, none if more than     *)
(* four could be shifted.                                                  *)
Expected(s) ==
  LET shifts == {t \in String..14 : ShiftsTo(s, t) # 0}
  IN  IF Cardinality(shifts) <= 4 THEN shifts ELSE {}
------------------------------------------------------------------------------
ParserInit ==
  /\ text \in Texts /\ rest = text
  /\ read = <<>> /\ look = <<>>
  /\ stack = <<[state |-> 0, val |-> <<>>]>>
  /\ status = "parsing"
  /\ out = <<>>

Running == status = "parsing" /\ (NeedsToken(State) => look # <<>>)
Ahead == IF look = <<>> THEN -1 ELSE look[1].token
CanShift == ~Simple(State) /\ ShiftsTo(State, Ahead) # 0

(* yylex1 *)
ReadToken ==
  /\ status = "parsing" /\ NeedsToken(State) /\ look = <<>>
  /\ LET t == Lex(rest)
     IN  /\ look' = <<t>>
         /\ rest' = t.rest
         /\ read' = Append(read, t.token)
  /\ UNCHANGED <<text, stack, status, out>>

Shift ==
  /\ Running /\ CanShift
  /\ stack' = Append(stack, [state |-> ShiftsTo(State, Ahead), val |-> look[1].s])
  /\ look' = <<>>
  /\ UNCHANGED <<text, rest, read, status, out>>

Reduce ==
  LET p == Default(State, Ahead)
      base == SubSeq(stack, 1, Len(stack) - yyR2[p + 1])
      d == [i \in 1..yyR2[p + 1] |-> stack[Len(base) + i].val]
  IN  /\ Running /\ ~CanShift
      /\ p > 0
      /\ stack' = Append(base, [state |-> Goto(base[Len(base)].state, yyR1[p + 1]),
                                val |-> Semantics(p, d, IF d = <<>> THEN <<>> ELSE d[1])])
      /\ out' = IF p = 1 THEN d[2] ELSE out
      /\ UNCHANGED <<text, rest, read, look, status>>

(* ret0: Compile returns out. *)
Accept ==
  /\ Running /\ ~CanShift
  /\ Default(State, Ahead) = -1
  /\ status' = "accepted"
  /\ UNCHANGED <<text, rest, read, look, stack, out>>

(* The grammar has no error token, so that the recovery pops every state   *)
(* and returns 1; Compile returns the message and MustCompile panics.      *)
Fail ==
  /\ Running /\ ~CanShift
  /\ Default(State, Ahead) = 0
  /\ status' = "failed"
  /\ out' = Expected(State)
  /\ UNCHANGED <<text, rest, read, look, stack>>

ParserNext == ReadToken \/ Shift \/ Reduce \/ Accept \/ Fail
ParserSpec == ParserInit /\ [][ParserNext]_parserVars
==============================================================================
