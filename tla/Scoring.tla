-------------------------------- MODULE Scoring --------------------------------
(***************************************************************************)
(* eval/bfcl_scoring.py: what it is to be correct on a single-call item,   *)
(* and the preflight of an answer key.                                     *)
(*                                                                         *)
(* A value is [kind, of], where "of" is a number that stands for it and 0  *)
(* for the empty string: a bool and a number compare by number, as in      *)
(* Python.  A parsed answer is [shape, name, args], its shape "none",      *)
(* "partial", "not a dict" or "call"; an entry of a key is [name, order,   *)
(* accepts], with the accepted values of each argument.                    *)
(***************************************************************************)
EXTENDS Naturals, Sequences, FiniteSets

Optional == [kind |-> "str", of |-> 0]
Numeric == {"num", "bool"}

ValuesEqual(v, w) == v.of = w.of /\ (v.kind = w.kind \/ {v.kind, w.kind} \subseteq Numeric)

Outcome(name, args, ok, reason) == [name |-> name, args |-> args, ok |-> ok, reason |-> reason]
Unusable(reason) == Outcome(FALSE, FALSE, FALSE, reason)

Accepts(entry, arg, value) == \E w \in entry.accepts[arg] : ValuesEqual(value, w)

\* Mutant: an argument that the key does not name is let through.
ScoreKnownArgs(parsed, entry) ==
    LET named == parsed.name = entry.name
        wrong == {i \in DOMAIN entry.order :
                     LET a == entry.order[i]
                     IN IF a \in DOMAIN parsed.args THEN ~ Accepts(entry, a, parsed.args[a])
                                                    ELSE Optional \notin entry.accepts[a]}
    IN IF parsed.shape # "call" THEN Unusable(parsed.shape)
       ELSE Outcome(named, wrong = {}, named /\ wrong = {},
                    IF named /\ wrong = {} THEN "" ELSE "bad")

\* score: the shape, then extra arguments, then each argument of the key in its
\* order, then the name.
Score(parsed, entry) ==
    LET named == parsed.name = entry.name
        missing(i) == /\ entry.order[i] \notin DOMAIN parsed.args
                      /\ Optional \notin entry.accepts[entry.order[i]]
        refused(i) == /\ entry.order[i] \in DOMAIN parsed.args
                      /\ ~ Accepts(entry, entry.order[i], parsed.args[entry.order[i]])
        wrong == {i \in DOMAIN entry.order : missing(i) \/ refused(i)}
        first == CHOOSE i \in wrong : \A j \in wrong : i <= j
    IN IF parsed.shape # "call" THEN Unusable(parsed.shape)
       ELSE IF ~ DOMAIN parsed.args \subseteq DOMAIN entry.accepts
            THEN Outcome(named, FALSE, FALSE, "extra_arg")
       ELSE IF wrong # {}
            THEN Outcome(named, FALSE, FALSE, IF missing(first) THEN "missing_arg" ELSE "bad_value")
       ELSE Outcome(named, TRUE, named, IF named THEN "" ELSE "bad_name")

\* preflight_key_names: every name a key expects is presented by its item.
KeyNamesPresented(presented, key) ==
    \A i \in DOMAIN key :
        \E q \in DOMAIN presented :
            /\ presented[q].id = key[i].id
            /\ \A e \in DOMAIN key[i].entries : key[i].entries[e].name \in presented[q].names

-----------------------------------------------------------------------------
(* The reference. *)

\* A correct answer is a call of the expected name whose arguments are all known
\* and accepted, and which leaves out optional ones only.
Correct(parsed, entry) ==
    /\ parsed.shape = "call" /\ parsed.name = entry.name
    /\ \A a \in DOMAIN parsed.args : a \in DOMAIN entry.accepts /\ Accepts(entry, a, parsed.args[a])
    /\ \A a \in DOMAIN entry.accepts \ DOMAIN parsed.args : Optional \in entry.accepts[a]
=============================================================================
