-------------------------------- MODULE Turns --------------------------------
(***************************************************************************)
(* What an assistant turn says, read twice: by classify_target of          *)
(* mining/pool_strata.py, which screens the pool, and by extract_calls of  *)
(* mining/verifier.py, which judges what the policy generates.             *)
(*                                                                         *)
(* A turn is abstracted to the syntax the two look at:                     *)
(*   form    "empty", "prose", "tagged" (it holds a <tool_call> marker) or *)
(*           "bare" (it opens with a bracket or a brace)                   *)
(*   blocks  the objects in it, in order                                   *)
(*   broken  markers that do not pair up; a bare turn that is not JSON     *)
(* and a block to how it parses ("json", "python" as a literal only, or    *)
(* "no"), its top-level name (NoName if that is not a string) and its      *)
(* arguments.                                                              *)
(***************************************************************************)
EXTENDS Naturals, Sequences, FiniteSets

CONSTANTS NoName,       \* the name of an object without one
          PythonOnly    \* arguments that JSON cannot write: a set, mixed keys

Kind(kind, calls) == [kind |-> kind, calls |-> calls]
Range_(s) == {s[i] : i \in DOMAIN s}
IsSequence(s) == s \in Seq(Range_(s))
CallsOf(t) == [i \in DOMAIN t.blocks |-> [name |-> t.blocks[i].name, args |-> t.blocks[i].args]]
Names(calls) == {calls[i].name : i \in DOMAIN calls}

IsTurn(t) ==
    /\ t.form \in {"empty", "prose", "tagged", "bare"} /\ t.broken \in BOOLEAN
    /\ IsSequence(t.blocks)
    /\ t.form \in {"empty", "prose"} => t.blocks = <<>>
    /\ \A b \in Range_(t.blocks) : b.parses \in {"json", "python", "no"}

-----------------------------------------------------------------------------
(* pool_strata.classify_target: JSON first, then a Python literal; a name is *)
(* required, and an empty one is a name only in a bare turn.                 *)

NamedBlock(b) == b.parses # "no" /\ b.name \notin {NoName, ""}
NamedMember(b) == b.parses = "json" /\ b.name # NoName

ClassifyTarget(t) ==
    LET readable == ~ t.broken /\ t.blocks # <<>> /\
            \A b \in Range_(t.blocks) : IF t.form = "tagged" THEN NamedBlock(b) ELSE NamedMember(b)
    IN IF t.form = "prose" THEN [kind |-> "no_call", names |-> {}]
       ELSE IF t.form # "empty" /\ readable THEN [kind |-> "call", names |-> Names(CallsOf(t))]
       ELSE [kind |-> "unreadable", names |-> {}]

-----------------------------------------------------------------------------
(* verifier.extract_calls and verify.                                       *)

\* _parse_block and _as_call: a literal of Python counts between markers only.
WellFormed(form, b) ==
    (b.parses = "json" \/ (b.parses = "python" /\ form = "tagged")) /\ b.name \notin {NoName, ""}

\* Mutant: a bad member of a list is filtered out, as it once was.
ExtractGood(t) ==
    LET good == SelectSeq(t.blocks, LAMBDA b : WellFormed(t.form, b))
    IN IF t.form = "prose" THEN Kind("no_call", <<>>)
       ELSE IF t.form = "empty" \/ t.broken \/ good = <<>> THEN Kind("unreadable", <<>>)
       ELSE Kind("call", CallsOf([t EXCEPT !.blocks = good]))

\* One malformed block makes the whole turn unreadable.
ExtractCalls(t) ==
    IF t.form = "prose" THEN Kind("no_call", <<>>)
    ELSE IF \/ t.form = "empty" \/ t.broken \/ t.blocks = <<>>
            \/ \E b \in Range_(t.blocks) : ~ WellFormed(t.form, b)
         THEN Kind("unreadable", <<>>)
    ELSE Kind("call", CallsOf(t))

\* _read_target: the two readings must agree, or the run is refused.
ReadTarget(t) ==
    LET theirs == ClassifyTarget(t)
        own == ExtractCalls(t)
    IN IF theirs.kind = "unreadable" THEN Kind("TargetUnreadableError", <<>>)
       ELSE IF own.kind # theirs.kind \/ Names(own.calls) # theirs.names
            THEN Kind("ParserDisagreementError", <<>>)
       ELSE own

Refusals == {"TargetUnreadableError", "ParserDisagreementError"}

\* Equal as multisets, which is how sorted lists are compared.
Times(x, s) == Cardinality({i \in DOMAIN s : s[i] = x})
SameBag(s, u) == Len(s) = Len(u) /\ \A x \in Range_(s) : Times(x, s) = Times(x, u)
NameSeq(calls) == [i \in DOMAIN calls |-> calls[i].name]

\* _canonical raises TypeError on a value that JSON cannot write.
Canonical(calls) == \A i \in DOMAIN calls : calls[i].args \notin PythonOnly

Verdict(verdict, reason) == [verdict |-> verdict, reason |-> reason]
Accept == Verdict("accepted", "none")
Reject(reason) == Verdict("rejected", reason)
Raises(error) == Verdict("raises", error)

\* verify: the reasons in the order in which they are looked for.
Verify(generation, target) ==
    LET t == ReadTarget(target)
        g == ExtractCalls(generation)
    IN IF t.kind \in Refusals THEN Raises(t.kind)
       ELSE IF t.kind = "no_call" THEN
            IF g.kind = "call" THEN Reject("spurious_call")
            ELSE IF g.kind = "unreadable" THEN Reject("invalid_json")
            ELSE Accept
       ELSE IF g.kind = "no_call" THEN Reject("missing_call")
       ELSE IF g.kind = "unreadable" THEN Reject("invalid_json")
       ELSE IF ~ SameBag(NameSeq(t.calls), NameSeq(g.calls)) THEN Reject("wrong_tool")
       ELSE IF ~ Canonical(t.calls) \/ ~ Canonical(g.calls) THEN Raises("TypeError")
       ELSE IF ~ SameBag(t.calls, g.calls) THEN Reject("wrong_args")
       ELSE Accept

Reasons == {"invalid_json", "missing_call", "spurious_call", "wrong_tool", "wrong_args"}

-----------------------------------------------------------------------------
(* The reference: what a turn means, without regard to how it is read.       *)

Intelligible(t, b) ==
    /\ b.name \notin {NoName, ""}
    /\ b.parses = "json" \/ (b.parses = "python" /\ t.form = "tagged")

Meaning(t) ==
    IF t.form = "prose" THEN <<"prose", {}>>
    ELSE IF t.form = "empty" \/ t.broken \/ t.blocks = <<>>
            \/ \E b \in Range_(t.blocks) : ~ Intelligible(t, b)
         THEN <<"nothing", {}>>
    ELSE <<"calls", {<<c, Times(c, CallsOf(t))>> : c \in Range_(CallsOf(t))}>>
=============================================================================
