----------------------------- MODULE MCPathSyntax ----------------------------
(* Paths of every form, and every text one character away from one.        *)
EXTENDS PathGrammar

A == <<"a">>
MCWritten ==
  { <<>>,
    <<Name(A)>>, <<All, Name(<<"b", "a">>)>>,
    <<Name(<<"a", ".", " ", "b">>)>>, <<Name(<<"a", "\\", "'", "b">>)>>, <<Name(<<>>)>>,
    <<Name(A), All, Where(<<Name(<<"b">>)>>, <<"a", "b">>), Name(A)>>,
    <<Where(<<>>, A), Where(<<All>>, <<>>)>>,
    <<Where(<<Where(<<Name(A)>>, A)>>, <<"b">>)>> }
Characters == {"a", " ", "'", "\\", "!"} \cup DOMAIN Symbol
Exact == UNION {SpelledAs[rs] : rs \in MCWritten}
Cuts(t) == {SubSeq(t, 1, i - 1) \o SubSeq(t, i + 1, Len(t)) : i \in 1..Len(t)}
Puts(t) == {SubSeq(t, 1, i) \o <<c>> \o SubSeq(t, i + 1, Len(t)) : i \in 0..Len(t), c \in Characters}
Typical == {CHOOSE t \in SpelledAs[rs] : TRUE : rs \in MCWritten}
MCTexts == Exact \cup UNION {Cuts(t) \cup Puts(t) : t \in Typical}
MCLetters == {"a", "b"}
MCSpaces == {" "}
==============================================================================
