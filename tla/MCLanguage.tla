----------------------------- MODULE MCLanguage -----------------------------
(* An instance of Compiler for TLC.                                          *)
EXTENDS LanguageProps, SchemaWalk, TLC

CONSTANTS type0, type1, type2, type3

MCTypes == {type1, type2, type3}
MCTypeOf == <<>>
MCTypeAt == 0 :> type0 @@ 1 :> type1 @@ 2 :> type2 @@ 3 :> type3
MCNames == {"d", "e", "f", "a", "p", "q", "Bad"}
MCValid == MCNames \ {"Bad"}

Permission(n) == <<"permission", n, "=">>

(* Any expression over a, which nothing declares.                            *)
Loose == <<"definition", "d", "{">> \o Permission("p")

(* Names come in another order, a type of the same name as a relation.       *)
Crossed == <<"definition", "a", "{", "relation", "d", ":", "a", "|", "d", ":", "*", "}",
             "definition", "d", "{", "relation", "a", ":", "a", "#", "d">>
             \o Permission("d") \o <<"(", "a", "&", "a", ")">>

Within(source, more) == [src |-> source, most |-> Len(source) + more]

MCStarts == {Within(Loose, 10), Within(Crossed, 6), Within(<<>>, 10)}
MCLater  == {Within(Loose, 1), Within(Crossed, 3), Within(<<>>, 10)}
MCPieces == {<<x>> : x \in {"a", "+", "-", "->", "(", ")", "}"}} \cup
            {<<"definition", "e", "{">>, <<"relation", "p", ":", "e">>, Permission("q"),
             <<"definition", "f", "{", "}">>, Permission("Bad"), <<Comment, "a", EndOfLine>>}
=============================================================================
