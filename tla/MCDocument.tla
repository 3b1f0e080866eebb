----------------------------- MODULE MCDocument ------------------------------
(* A container list with names, a map beside it, and paths over them. *)
EXTENDS Document

Pair(n, v) == (<<>> :> "map") @@ (<<"n">> :> n) @@ (<<"v">> :> v)
At(p, d) == [q \in {p \o r : r \in DOMAIN d} |-> d[SubSeq(q, Len(p) + 1, Len(q))]]

SomeDocuments ==
  { EmptyMap @@ At(<<"a">>, EmptyMap) @@ At(<<"a", "l">>, Leaf("list"))
      @@ At(<<"a", "l", "0">>, Pair("x", "3")) @@ At(<<"a", "l", "1">>, Pair(n, "3"))
      : n \in {"y", "3"} }
SomePaths ==
  { <<>>, <<Name("a")>>,
    <<Name("a"), Name("c")>>, <<Name("a"), Name("c"), Name("d")>>,
    <<Name("a"), Name("l"), Name("00")>>, <<Name("a"), Name("l"), Name("2")>>,
    <<Name("a"), Name("l"), All, Name("v")>>, <<Name("a"), Name("l"), Name("0"), Name("v")>>,
    <<Name("a"), Name("l"), Where(<<Name("n")>>, "x"), Name("v")>>,
    <<All, Name("l"), Name("1"), Name("n")>> }
SomeArguments == {Leaf("3"), EmptyMap}
==============================================================================
