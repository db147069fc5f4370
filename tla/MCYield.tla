------------------------------- MODULE MCYield -------------------------------
(* Yield with three prompts sampled twice, from targets of two calls or none. *)
EXTENDS Yield

Block(name, given, parses) == [name |-> name, args |-> given, parses |-> parses]
Turn(form, blocks) == [form |-> form, blocks |-> blocks, broken |-> FALSE]
Prose == Turn("prose", <<>>)
Expects == Turn("tagged", <<Block("f", "a", "json"), Block("g", "a", "json")>>)
Reordered == Turn("bare", <<Block("g", "a", "json"), Block("f", "a", "json")>>)

\* A call only Python can read, whose argument is a set.
SetLiteral == Turn("tagged", <<Block("f", "set", "python"), Block("g", "a", "json")>>)

WithSets == [p \in Strata \X (1 .. 3) |-> {Reordered, Prose, SetLiteral}]
Targets == [p \in Strata \X (1 .. 3) |-> IF p = <<"single", 1>> THEN Prose ELSE Expects]
ThreeTwo == [multi |-> 3, single |-> 2]
=============================================================================
