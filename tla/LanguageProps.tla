--------------------------- MODULE LanguageProps ----------------------------
(***************************************************************************)
(* What the schema language means, apart from how parser.go reads it, and  *)
(* what a compiled schema says in names.                                   *)
(***************************************************************************)
EXTENDS Compiler
LOCAL INSTANCE SequencesExt

(* Place i of w lies in a comment whose line has not ended. *)
Commented(w, i) == \E j \in 1..i : w[j] = Comment /\ \A k \in j..i : w[k] # EndOfLine

(* w without its comments and ends of lines. *)
Bare(w) ==
  LET at == SelectSeq([i \in DOMAIN w |-> i],
                      LAMBDA i : w[i] # EndOfLine /\ ~Commented(w, i))
  IN  [k \in DOMAIN at |-> w[at[k]]]

IsOneName(w) == Len(w) = 1 /\ w[1] \in Names

IsArrow(w) == Len(w) = 3 /\ w[1] \in Names /\ w[2] = "->" /\ w[3] \in Names

RECURSIVE Trees(_), OperandTrees(_), Chains(_, _)

(* The expressions that a sequence of lexemes stands for as an operand:    *)
(* a name, an arrow, or any expression in parentheses.                     *)
OperandTrees(w) ==
  CASE IsOneName(w) -> {ComputedUserset(w[1])}
    [] IsArrow(w)   -> {TupleToUserset(w[1], w[3])}
    [] Len(w) > 2 /\ w[1] = "(" /\ w[Len(w)] = ")" -> Trees(SubSeq(w, 2, Len(w) - 1))
    [] OTHER -> {}

(* The sequences of expressions that w joins by op. *)
Chains(w, op) ==
  {<<t>> : t \in OperandTrees(w)} \cup
  UNION {{Append(chain, t) : chain \in Chains(SubSeq(w, 1, i - 1), op),
                             t \in OperandTrees(SubSeq(w, i + 1, Len(w)))} :
         i \in {i \in DOMAIN w : w[i] = op}}

RECURSIVE Subtracted(_)

(* a - b - c is (a - b) - c. *)
Subtracted(chain) ==
  IF Len(chain) = 1 THEN chain[1]
  ELSE Exclusion(Subtracted(SubSeq(chain, 1, Len(chain) - 1)), chain[Len(chain)])

(* The expressions that w stands for. *)
Trees(w) ==
  LET Joined(op) == {chain \in Chains(w, op) : Len(chain) > 1}
  IN  OperandTrees(w)
        \cup {Union(chain) : chain \in Joined("+")}
        \cup {Intersection(chain) : chain \in Joined("&")}
        \cup {Subtracted(chain) : chain \in Joined("-")}

(* What expr makes of w, from the first lexeme. *)
ExprOf(w) == expr(w, advance(w, 0))

(* The same, if it is the whole of w. *)
Parsed(w) ==
  LET e == ExprOf(w) IN IF e.ok /\ e.at = Len(w) + 1 THEN {e.value} ELSE {}

(* What follows one of the lexemes in the source. *)
Following(lexemes) ==
  {SubSeq(src, i + 1, Len(src)) : i \in {i \in DOMAIN src : src[i] \in lexemes}}

(* The expressions under way in the source. *)
Expressions == Following({"="})

(* parser.go: "the tree is the one written", whatever is written.  The     *)
(* parser reads what the grammar derives, as the one tree it derives, and  *)
(* stops at anything else, operators mixed without parentheses included.   *)
(* Comments "decide nothing" (compile_test.go), wherever they stand.       *)
ParsesAsWritten == \A w \in Expressions : Parsed(w) = Trees(Bare(w))

Only(w, kind) == SelectSeq(Bare(w), LAMBDA lexeme : lexeme \in kind)

(* r is an expression, over the names written in w. *)
IsReading(r, w) == Parsed(r) # {} /\ Only(r, Names) = Only(w, Names)

Matched(w) == Len(Only(w, {"("})) = Len(Only(w, {")"}))

(* mixed quotes "both ways the source could be meant".  Each is one that   *)
(* parses, over all the names written and in their order, if no line       *)
(* comment lies in what it quotes, and only then: on one line a comment    *)
(* hides what follows it.  Without comments the two differ.                *)
BothReadingsParse ==
  \A w \in Following({"=", "("}) :
    LET e     == ExprOf(w)
        mixed == SubSeq(w, 1, e.at - 1)
        Plain == {r \in e.readings : ~Contains(r, Comment)}
    IN  ~e.ok /\ e.readings # {} /\ Matched(mixed) =>
          /\ Cardinality(e.readings) = 2
          /\ \A r \in e.readings : r \in Plain <=> IsReading(r, mixed)
          /\ Cardinality(UNION {Parsed(r) : r \in Plain}) = Cardinality(Plain)

-----------------------------------------------------------------------------
(* A schema, said in the names its ids have. *)

Said(table, id) == IF id \in DOMAIN table THEN table[id] ELSE NoName

SaidType(typ) ==
  Said(names["types"], CHOOSE id \in DOMAIN TypeAt : TypeAt[id] = typ)

RECURSIVE SaidRewrite(_)

SaidRewrite(rw) ==
  CASE rw.op = "this" -> This
    [] rw.op = "computed_userset" -> ComputedUserset(Said(names["relations"], rw.relation))
    [] rw.op = "tuple_to_userset" ->
         TupleToUserset(Said(names["relations"], rw.tupleset), Said(names["relations"], rw.relation))
    [] OTHER -> [op |-> rw.op, children |-> [i \in DOMAIN rw.children |->
                                              SaidRewrite(rw.children[i])]]

SaidAccepts(st) ==
  CASE st \in Types -> SubjectTypeRead(SaidType(st), NoName, FALSE)
    [] st \in Wildcards -> SubjectTypeRead(SaidType(st.all), NoName, TRUE)
    [] OTHER -> SubjectTypeRead(SaidType(st.type), Said(names["relations"], st.relation), FALSE)

(* Who defines a ref, which types it accepts, and as what. *)
Says(typ, rel, types, e) == [typ |-> typ, name |-> rel, types |-> types, expr |-> e]

SaidBy(schema) ==
  {Says(SaidType(ref.type), Said(names["relations"], ref.relation),
        {SaidAccepts(st) : st \in Accepted(schema, ref)}, SaidRewrite(schema.rewrites[ref])) :
   ref \in DOMAIN schema.rewrites}

WrittenIn(defs) ==
  UNION {{Says(defs[i].name, m.name, {m.types[j] : j \in DOMAIN m.types}, m.expr) :
          m \in AllMembers(<<defs[i]>>)} : i \in DOMAIN defs}

(* However many sources the dictionary has served since, and whether they  *)
(* were compiled, refused or ran out of ids, the schema in use says in     *)
(* names what its own source said.                                         *)
SchemaSaysItsSource == SaidBy(compiled.schema) = WrittenIn(compiled.defs)

=============================================================================
