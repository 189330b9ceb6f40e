------------------------------- MODULE Parser -------------------------------
(***************************************************************************)
(* schema/parser.go: the schema language, read from its lexemes.           *)
(*                                                                         *)
(* A source is a sequence of lexemes, line comments and ends of lines, as  *)
(* next of lexer.go finds them.  A line comment says lexemes too, to the   *)
(* end of its line.  Other blanks are left out, among them comments that   *)
(* are closed.  Every lexeme can be lexed.  Names are those no keyword     *)
(* takes, nor nil.  An expression is the rewrite it stands for, over names. *)
(***************************************************************************)
EXTENDS SchemaData, Dictionary
LOCAL INSTANCE SequencesExt

Operators == {"+", "&", "-"}

EOF == "end of file"

Comment == "//"

EndOfLine == "end of line"

Lexeme(src, i) == IF i <= Len(src) THEN src[i] ELSE EOF

(* A comment reaches to the end of its line, or of the source. *)
CommentEnd(src, i) ==
  LET end == SelectInSubSeq(src, i, Len(src), LAMBDA x : x = EndOfLine)
  IN  IF end = 0 THEN Len(src) ELSE end

RECURSIVE advance(_, _)

(* Where the lexeme after place i is. *)
advance(src, i) ==
  CASE Lexeme(src, i + 1) = EndOfLine -> advance(src, i + 1)
    [] Lexeme(src, i + 1) = Comment   -> advance(src, CommentEnd(src, i + 1))
    [] OTHER -> i + 1

(* What was read up to place at, where the next lexeme is. *)
Took(at, value) == [ok |-> TRUE, at |-> at, value |-> value]

(* A syntax error, after looking at the lexeme there. *)
Stopped(at) == [ok |-> FALSE, at |-> at, readings |-> {}]

Then(r, Rest(_)) == IF r.ok THEN Rest(r) ELSE r

expect(src, i, punct) ==
  IF Lexeme(src, i) = punct THEN Took(advance(src, i), punct) ELSE Stopped(i)

name(src, i) ==
  IF Lexeme(src, i) \in Names THEN Took(advance(src, i), Lexeme(src, i)) ELSE Stopped(i)

-----------------------------------------------------------------------------
(* Expressions. *)

(* Fault: an operand in parentheses sits between them. *)
Inside(start, end) == [start |-> start + 1, end |-> end - 1]

(* Where an operand in parentheses sits. *)
Outside(start, end) == [start |-> start, end |-> end]

(* The source from one operand to another, on one line: its comments stay. *)
text(src, from, to) ==
  SelectSeq(SubSeq(src, from.start, to.end), LAMBDA x : x # EndOfLine)

(* Both ways to mean op2 after a chain of op, each written on one line. *)
Readings(src, op, chain, op2, right) ==
  LET first == chain[1].span
      last  == Last(chain).span
  IN  {<<"(">> \o text(src, first, last) \o <<")", op2>> \o text(src, right, right),
       text(src, first, chain[Len(chain) - 1].span) \o <<op, "(">>
         \o text(src, last, last) \o <<op2>> \o text(src, right, right) \o <<")">>}

(* Fault: a chain of exclusions reads from the right. *)
combinationFromTheRight(op, exprs) ==
  CASE op = "+" -> Union(exprs)
    [] op = "&" -> Intersection(exprs)
    [] op = "-" -> FoldRight(Exclusion, Front(exprs), Last(exprs))

(* A chain of exclusions reads from the left, the others are as written. *)
combination(op, exprs) ==
  CASE op = "+" -> Union(exprs)
    [] op = "&" -> Intersection(exprs)
    [] op = "-" -> FoldLeft(Exclusion, exprs[1], Tail(exprs))

RECURSIVE operand(_, _), chained(_, _, _, _)

(* operands have been joined by op up to place i. *)
chained(src, i, op, operands) ==
  LET op2 == Lexeme(src, i)
  IN  IF op2 \notin Operators
      THEN Took(i, combination(op, [k \in DOMAIN operands |-> operands[k].expr]))
      ELSE LET next == operand(src, advance(src, i))
           IN  CASE op2 = op /\ next.ok ->
                      chained(src, next.at, op, Append(operands, next.value))
                 [] op2 # op /\ next.ok ->
                      [Stopped(next.at) EXCEPT !.readings =
                         Readings(src, op, operands, op2, next.value.span)]
                 [] op2 = op /\ ~next.ok -> next
                 [] OTHER -> Stopped(next.at)

expr(src, i) ==
  Then(operand(src, i), LAMBDA first :
    IF Lexeme(src, first.at) \in Operators
    THEN chained(src, first.at, Lexeme(src, first.at), <<first.value>>)
    ELSE Took(first.at, first.value.expr))

Operand(at, e, span) == Took(at, [expr |-> e, span |-> span])

operand(src, i) ==
  IF Lexeme(src, i) = "("
  THEN Then(expr(src, advance(src, i)), LAMBDA e :
         Then(expect(src, e.at, ")"), LAMBDA close :
           Operand(close.at, e.value, Outside(i, e.at))))
  ELSE Then(name(src, i), LAMBDA first :
         IF Lexeme(src, first.at) # "->"
         THEN Operand(first.at, ComputedUserset(first.value), [start |-> i, end |-> i])
         ELSE LET to == advance(src, first.at)
              IN  Then(name(src, to), LAMBDA rel :
                    IF Lexeme(src, rel.at) = "->"
                    THEN Stopped(rel.at)
                    ELSE Operand(rel.at, TupleToUserset(first.value, rel.value),
                                 [start |-> i, end |-> to])))

-----------------------------------------------------------------------------
(* Definitions. *)

SubjectTypeRead(typ, rel, wildcard) ==
  [typ |-> typ, relation |-> rel, wildcard |-> wildcard]

subjectType(src, i) ==
  Then(name(src, i), LAMBDA typ :
    CASE Lexeme(src, typ.at) = ":" ->
           Then(expect(src, advance(src, typ.at), "*"), LAMBDA all :
             IF Lexeme(src, all.at) = "#"
             THEN Stopped(all.at)
             ELSE Took(all.at, SubjectTypeRead(typ.value, NoName, TRUE)))
      [] Lexeme(src, typ.at) = "#" ->
           Then(name(src, advance(src, typ.at)), LAMBDA rel :
             Took(rel.at, SubjectTypeRead(typ.value, rel.value, FALSE)))
      [] OTHER -> Took(typ.at, SubjectTypeRead(typ.value, NoName, FALSE)))

RECURSIVE subjectTypes(_, _)

subjectTypes(src, i) ==
  Then(subjectType(src, i), LAMBDA first :
    CASE Lexeme(src, first.at) = "|" ->
           Then(subjectTypes(src, advance(src, first.at)), LAMBDA rest :
             Took(rest.at, <<first.value>> \o rest.value))
      [] Lexeme(src, first.at) = "with" -> Stopped(first.at)
      [] OTHER -> Took(first.at, <<first.value>>))

(* A relation's expression is This. *)
Member(rel, types, e) == [name |-> rel, types |-> types, expr |-> e]

relation(src, i) ==
  Then(name(src, advance(src, i)), LAMBDA rel :
    Then(expect(src, rel.at, ":"), LAMBDA colon :
      Then(subjectTypes(src, colon.at), LAMBDA types :
        Took(types.at, Member(rel.value, types.value, This)))))

permission(src, i) ==
  Then(name(src, advance(src, i)), LAMBDA perm :
    Then(expect(src, perm.at, "="), LAMBDA equals :
      Then(expr(src, equals.at), LAMBDA e :
        Took(e.at, Member(perm.value, <<>>, e.value)))))

RECURSIVE members(_, _), definitions(_, _)

members(src, i) ==
  LET More(r) == Then(r, LAMBDA m :
                   Then(members(src, m.at), LAMBDA rest :
                     Took(rest.at, <<m.value>> \o rest.value)))
  IN  CASE Lexeme(src, i) = "}" -> Took(advance(src, i), <<>>)
        [] Lexeme(src, i) = "relation" -> More(relation(src, i))
        [] Lexeme(src, i) = "permission" -> More(permission(src, i))
        [] OTHER -> Stopped(i)

definition(src, i) ==
  Then(expect(src, i, "definition"), LAMBDA keyword :
    Then(name(src, keyword.at), LAMBDA typ :
      Then(expect(src, typ.at, "{"), LAMBDA open :
        Then(members(src, open.at), LAMBDA ms :
          Took(ms.at, [name |-> typ.value, members |-> ms.value])))))

definitions(src, i) ==
  IF Lexeme(src, i) = EOF
  THEN Took(i, <<>>)
  ELSE Then(definition(src, i), LAMBDA first :
         Then(definitions(src, first.at), LAMBDA rest :
           Took(rest.at, <<first.value>> \o rest.value)))

parse(src) == definitions(src, advance(src, 0))

=============================================================================
