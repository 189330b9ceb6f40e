----------------------------- MODULE SchemaWalk -----------------------------
(***************************************************************************)
(* The walk over a rewrite that core/schema.go makes to check it and to    *)
(* collect what it depends on: the recursion that SchemaBuilder's Walk     *)
(* stands for.                                                             *)
(***************************************************************************)
EXTENDS SchemaBuilder

RECURSIVE From(_)

(* The parts from p down. *)
From(p) == {p} \cup UNION {From(o) : o \in Operands(p)}

PartsOf(rw) == From(Part(rw, FALSE))

=============================================================================
