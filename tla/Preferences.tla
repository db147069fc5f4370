----------------------------- MODULE Preferences -----------------------------
(***************************************************************************)
(* The data pipeline under data/: assemble_sft, dedupe, clean_sft,         *)
(* assemble_preferences and validate_preferences, each reading the file    *)
(* the one before it wrote.  Any of them can be run again at any time, so  *)
(* a file may be older than what it was made from; a killed one leaves a   *)
(* part of its rows, or a row cut in two.                                  *)
(*                                                                         *)
(* An example is [id, source, query, tools, parses, list, calls, pyexpr]:  *)
(* its tools' names, and its assistant turn, which parses or not to one    *)
(* call or a list.  A call is its name, or NoName, and its arguments, of   *)
(* which only the kind of value matters.  Files are sets of rows: the      *)
(* scripts shuffle, and only dedupe depends on the order it is given.      *)
(***************************************************************************)
EXTENDS Naturals, Sequences, FiniteSets, Functions

CONSTANTS Hermes, XLam,                     \* what the two sources offer
          HermesTarget, XLamTarget, FinalTarget,
          Similar,        \* pairs of queries the MinHash index takes for duplicates
          FakeTools,      \* PLAUSIBLE_FAKE_TOOLS
          Required,       \* [tool -> its required arguments]
          ExcludedIds,    \* EXCLUDED_SOURCE_IDS
          Nameless,       \* the name of a call that has none
          NoFile, HalfRow,   \* a file that is not there, or ends inside a row
          MaxCommands     \* bounds the runs of the scripts

PreferencesAssumption ==
    /\ HermesTarget \in Nat /\ XLamTarget \in Nat /\ FinalTarget \in Nat /\ MaxCommands \in Nat
    /\ \A q \in {e.query : e \in Hermes \cup XLam} : <<q, q>> \in Similar
    /\ \A e \in Hermes \cup XLam : e.calls \in Seq(Range(e.calls))

VARIABLES sft,       \* sft.jsonl
          deduped,   \* sft_dedup.jsonl
          cleaned,   \* sft_dedup_v2.jsonl
          prefs,     \* preferences.jsonl
          dpo,       \* preferences_dpo.jsonl
          commands   \* scripts run so far

PreferencesVars == <<sft, deduped, cleaned, prefs, dpo, commands>>

PreferencesInit ==
    /\ sft = NoFile /\ deduped = NoFile /\ cleaned = NoFile /\ prefs = NoFile /\ dpo = NoFile
    /\ commands = 0

\* A script stops when its input is missing, or at a line that does not parse.
FileLoads(file) == file \notin {NoFile, HalfRow}
\* What it writes, or what is left when it is killed.
Written(rows) == (SUBSET rows) \cup {HalfRow}
Command == commands < MaxCommands /\ commands' = commands + 1

AtMost(n, S) == IF Cardinality(S) <= n THEN Cardinality(S) ELSE n
Drawn(S, n) == {D \in SUBSET S : Cardinality(D) = AtMost(n, S)}
Larger(a, b) == IF a >= b THEN a ELSE b

-----------------------------------------------------------------------------
(* assemble_sft, dedupe and clean_sft. *)

\* xLAM is gated: without access there is none of it.  Where Hermes falls short,
\* xLAM fills up.
AssembleSft ==
    /\ Command
    /\ \E h \in Drawn(Hermes, HermesTarget), offered \in {XLam, {}} :
       \E x \in Drawn(offered, Larger(XLamTarget, FinalTarget - Cardinality(h))) :
           sft' \in Written(h \cup x)
    /\ UNCHANGED <<deduped, cleaned, prefs, dpo>>

\* Mutant: two examples are duplicates if their queries are the same.
Verbatim(rows) ==
    {K \in SUBSET {e \in rows : e.query # ""} :
        /\ \A e, f \in K : e.query = f.query => e = f
        /\ \A e \in rows \ K : e.query = "" \/ \E f \in K : e.query = f.query}

\* The first of every group of duplicates, in some order: none that is kept
\* duplicates another, and each that is dropped duplicates one that is kept.
FirstOfGroups(rows) ==
    {K \in SUBSET {e \in rows : e.query # ""} :
        /\ \A e, f \in K : <<e.query, f.query>> \in Similar => e = f
        /\ \A e \in rows \ K : e.query = "" \/ \E f \in K : <<e.query, f.query>> \in Similar}

Dedupe ==
    /\ Command /\ FileLoads(sft)
    /\ \E k \in FirstOfGroups(sft) : deduped' \in Written(k)
    /\ UNCHANGED <<sft, cleaned, prefs, dpo>>

CleanSft ==
    /\ Command /\ FileLoads(deduped)
    /\ cleaned' \in Written({e \in deduped : ~ e.pyexpr /\ e.id \notin ExcludedIds})
    /\ UNCHANGED <<sft, deduped, prefs, dpo>>

-----------------------------------------------------------------------------
(* assemble_preferences: the first call is perturbed. *)

\* _wrong_arg_value, by the kind of value; {} where it has no change to make.
WrongValues(value) ==
    CASE value = "text" -> {"txet"} [] value = "palindrome" -> {"palindrome"}
      [] value = "number" -> {"other number"} [] value = "bool" -> {"not bool"}
      [] value \in {"list", "empty list"} -> {"empty list"}
      [] OTHER -> {}

Renamed(call, names) == {[call EXCEPT !.name = n] : n \in names}
Without(call, a) == [call EXCEPT !.args = Restrict(@, DOMAIN @ \ {a})]
WithArg(call, a, v) == [call EXCEPT !.args = [@ EXCEPT ![a] = v]]

\* A required argument if it has one of those, else any.
Droppable(call, tools) ==
    LET given == DOMAIN call.args
        required == IF call.name \in tools THEN Required[call.name] \cap given ELSE {}
    IN IF required # {} THEN required ELSE given

\* What perturb can return that parses, over its types in any order; the fifth,
\* malformed_json, always applies.
Perturbed(call, tools) ==
    Renamed(call, tools \ {call.name}) \cup Renamed(call, FakeTools \ tools)
    \cup {Without(call, a) : a \in Droppable(call, tools)}
    \cup UNION {{WithArg(call, a, v) : v \in WrongValues(call.args[a])} : a \in DOMAIN call.args}

Text(parses, list, calls) == [parses |-> parses, list |-> list, calls |-> calls]
Malformed == Text(FALSE, FALSE, <<>>)

\* parse_assistant_tool_call, and the tools of the system prompt.
Usable(e) ==
    /\ e.source = "xlam" /\ e.tools # {}
    /\ e.parses /\ e.calls # <<>> /\ e.calls[1].name # Nameless

\* Mutant: the calls after the first are lost.
FirstOnly(e) ==
    {[id |-> e.id, query |-> e.query, pyexpr |-> e.pyexpr,
      chosen |-> Text(TRUE, e.list, e.calls), rejected |-> r] :
        r \in {Malformed} \cup {Text(TRUE, e.list, <<c>>) : c \in Perturbed(e.calls[1], e.tools)}}

\* The pairs an example can give: the calls after the first are kept.
PairsFrom(e) ==
    {[id |-> e.id, query |-> e.query, pyexpr |-> e.pyexpr,
      chosen |-> Text(TRUE, e.list, e.calls), rejected |-> r] :
        r \in {Malformed} \cup {Text(TRUE, e.list, <<c>> \o Tail(e.calls)) :
                                   c \in Perturbed(e.calls[1], e.tools)}}

\* One pair for each example that can be used.
Paired(rows) ==
    LET usable == {e \in rows : Usable(e)}
    IN {{pair[e] : e \in usable} :
           pair \in {f \in [usable -> UNION {PairsFrom(e) : e \in usable}] :
                        \A e \in usable : f[e] \in PairsFrom(e)}}

AssemblePreferences ==
    /\ Command /\ FileLoads(deduped)
    /\ \E pairs \in Paired(deduped) : prefs' \in Written(pairs)
    /\ UNCHANGED <<sft, deduped, cleaned, dpo>>

-----------------------------------------------------------------------------
(* validate_preferences. *)

\* Mutant: only that the sides are the same, character for character; one that was
\* written with other spaces is not.
ExactOnly(pair) == FALSE

\* triviality_signals: the sides say the same.
SaysTheSame(pair) == pair.rejected.parses /\ pair.chosen = pair.rejected

\* A pair may also go as nearly identical, unless the rejected side does not parse.
MayBeNear(pair) == pair.rejected.parses

Refused(pair) == pair.id \in ExcludedIds \/ pair.pyexpr \/ SaysTheSame(pair)

ValidatePreferences ==
    /\ Command /\ FileLoads(prefs)
    /\ \E near \in SUBSET {p \in prefs : MayBeNear(p)} :
           dpo' \in Written({p \in prefs : ~ Refused(p)} \ near)
    /\ UNCHANGED <<sft, deduped, cleaned, prefs>>

PreferencesNext ==
    \/ AssembleSft \/ Dedupe \/ CleanSft \/ AssemblePreferences \/ ValidatePreferences

PreferencesSpec == PreferencesInit /\ [][PreferencesNext]_PreferencesVars

-----------------------------------------------------------------------------
(* Properties. *)

\* Whichever scripts were run again over which old files, what DPO is taught to
\* avoid is wrong: it does not parse, or it differs from the chosen turn in its
\* first call and in nothing else.  No query has two pairs, and neither the pairs nor
\* the cleaned examples hold an excluded example or a Python expression; sft_dedup,
\* which train/sft_full.py reads, may hold both.
TaughtIsWrong ==
    /\ FileLoads(dpo) => \A p \in dpo :
           /\ p.rejected.parses =>
                  /\ p.rejected.list = p.chosen.list
                  /\ p.rejected.calls[1] # p.chosen.calls[1]
                  /\ Tail(p.rejected.calls) = Tail(p.chosen.calls)
           /\ p.id \notin ExcludedIds /\ ~ p.pyexpr
           /\ \A q \in dpo : <<p.query, q.query>> \in Similar => p = q
    /\ FileLoads(cleaned) => \A e \in cleaned : e.id \notin ExcludedIds /\ ~ e.pyexpr
=============================================================================
