------------------------------ MODULE MCPrograms ------------------------------
(***************************************************************************)
(* The programs that share nothing while they run, checked one at a time:  *)
(* the first state chooses one, and the others stay where they start.      *)
(***************************************************************************)
EXTENDS Ladder, LaunchEnvelope, BfclRun, Fixtures, Bootstrap, Pool, Yield, Subset,
        KeyChoice, Preferences, Sampling

VARIABLE program

-----------------------------------------------------------------------------
\* Ladder: of the four rungs the third has disable_adapter for its factory.
Third == {3}

-----------------------------------------------------------------------------
\* BfclRun: no checkpoint, one, and the same one twice.
Checkpoints == {<<>>, <<"dpo-50">>, <<"dpo-50", "dpo-50">>}

-----------------------------------------------------------------------------
\* Fixtures: a key that fits its questions and one that does not, in manifests that
\* pin them well and badly.
Fixture(path, role, pin, expect) ==
    [path |-> path, inside |-> TRUE, cat |-> "simple", role |-> role, pin |-> pin, rows |-> 1,
     expect |-> expect]
Asked == Fixture("q", "questions", "qs", "none")
Key(pin) == Fixture("k", "answer_key", pin, "none")
Other(pin, expect) == Fixture("x", "comparison", pin, expect)
FileLists == {
    <<>>, <<Asked>>, <<Key("good")>>, <<Asked, [Key("good") EXCEPT !.inside = FALSE]>>,
    <<Asked, [Key("good") EXCEPT !.rows = 2]>>, <<Asked, Key("bad")>>, <<Asked, Key("good")>>,
    <<Asked, Key("good"), Other("bad", "defective")>>,
    <<Asked, Key("good"), Other("bad", "clean")>>,
    <<Fixture("x", "answer_key", "bad", "none"), Key("good"), Asked>>}
FetchManifests ==
    {[version |-> 2, files |-> f, declared |-> [simple |-> d]] :
        f \in FileLists, d \in {"required", "none_by_schema"}}
    \cup {[version |-> 1, files |-> <<Asked, Key("good")>>, declared |-> [simple |-> "required"]]}

FixtureContents == {"qs", "good", "bad"}
NamesHeld == [c \in FixtureContents |-> IF c = "bad" THEN {"g"} ELSE {"f"}]
OneRowEach == [c \in FixtureContents |-> 1]

-----------------------------------------------------------------------------
\* Bootstrap: two commits, and a bundle that lacks one of them.
TwoBundles == [one |-> {"c1"}, both |-> {"c1", "c2"}]

-----------------------------------------------------------------------------
\* Pool: six rows in two versions, one with a row to refuse, and question files of
\* which one is edited.
Block(name, given, parses) == [name |-> name, args |-> given, parses |-> parses]
Turn(form, blocks) == [form |-> form, blocks |-> blocks, broken |-> FALSE]
CallF == Turn("tagged", <<Block("f", "a", "json")>>)
CallG == Turn("tagged", <<Block("g", "a", "python")>>)
Bad == Turn("bare", <<Block("f", "a", "json"), Block(NoName, "a", "json")>>)
Prose == Turn("prose", <<>>)
User == [role |-> "user", says |-> Silence]
Says(t) == [role |-> "assistant", says |-> t]
Row(id, lists, grams, turns) ==
    [id |-> id, lists |-> lists, grams |-> grams, messages |-> <<User>> \o turns]
Two == <<<<"f", "g">>>>
PoolRows == [
    one |-> <<Row("r1", Two, {"g3"}, <<Says(CallF), User, Says(Bad)>>),
              Row("r2", <<<<"x">>, <<"f", "g">>>>, {"g1"}, <<Says(CallG)>>),
              Row("r3", <<<<"f">>>>, {"g2"}, <<Says(Prose)>>),
              Row("r4", <<<<>>>>, {}, <<Says(Prose)>>),
              Row("r5", <<<<"h">>>>, {}, <<Says(Prose)>>),
              Row("r6", Two, {}, <<Says(Bad), User, Says(CallF)>>)>>,
    two |-> <<Row("r1", Two, {"g1"}, <<Says(CallF), User, Says(Bad)>>),
              Row("r2", <<<<"x">>, <<"f", "g">>>>, {}, <<Says(CallG)>>),
              Row("r3", <<<<"f">>>>, {}, <<Says(Prose)>>),
              Row("r4", <<>>, {}, <<Says(CallF)>>),
              Row("r5", <<<<"h">>>>, {"g2"}, <<Says(Prose)>>),
              Row("r6", Two, {}, <<Says(Bad)>>)>>,
    bad |-> <<Row("r1", <<<<"g">>>>, {}, <<Says(CallF)>>)>>]
Pinned(file, sha, role) == [file |-> file, sha |-> sha, role |-> role]
PoolManifests == [
    four |-> <<Pinned("simple", "s2", "questions"), Pinned("multi", "m1", "answers")>>,
    five |-> <<Pinned("simple", "s1", "questions"), Pinned("multi", "m1", "questions")>>]
PoolQuestions == [
    s1 |-> [grams |-> {"g1"}, names |-> {"k"}],
    s2 |-> [grams |-> {"g3"}, names |-> {"h"}],
    m1 |-> [grams |-> {}, names |-> {"h"}]]
PoolVersions == [pool |-> {"one", "two", "bad"}, manifest |-> {"four", "five"},
                 simple |-> {"s1", "s2"}, multi |-> {"m1"}]

-----------------------------------------------------------------------------
\* Yield: a calibration of three prompts sampled twice, whose targets make two calls
\* or none.
Expects == Turn("tagged", <<Block("f", "a", "json"), Block("g", "a", "json")>>)
Reordered == Turn("bare", <<Block("g", "a", "json"), Block("f", "a", "json")>>)
Beside == Turn("bare", <<Block("f", "a", "json"), Block("g", "a", "json"), Block(NoName, "a", "json")>>)
Generable == [p \in Strata \X (1 .. 3) |->
    IF p = <<"multi", 1>> THEN {Reordered, Beside} ELSE IF p = <<"single", 1>> THEN {Prose, Beside} ELSE {Reordered, Beside, Prose}]
Targets == [p \in Strata \X (1 .. 3) |-> IF p = <<"single", 1>> THEN Prose ELSE Expects]
ThreeTwo == [multi |-> 3, single |-> 2]

-----------------------------------------------------------------------------
\* Subset: two of five rows in three buckets.
Item(id, question, tools) == [id |-> id, question |-> question, tools |-> tools]
Items == [
    q1 |-> <<Item("a", "x", 2), Item("b", "y", 2), Item("c", "z", 3), Item("d", "u", 2),
             Item("e", "v", 9)>>,
    q2 |-> <<Item("a", "x", 2), Item("b", "y", 2), Item("c", "y", 3), Item("d", "u", 2),
             Item("e", "v", 9), Item("e", "v", 9)>>]
SubsetManifests == [
    m1 |-> [role |-> "development", questions |-> "q1", key |-> "k1", final |-> "f1"],
    m2 |-> [role |-> "final", questions |-> "q1", key |-> "k1", final |-> "f1"]]
SubsetFiles == [manifest |-> {"m1", "m2"}, questions |-> {"q1", "q2"}, key |-> {"k1", "k2"},
                final |-> {"f1", "f2"}]

SubsetKeys == [k1 |-> <<"a", "b", "c", "d", "e">>, k2 |-> <<"a", "b", "c", "c", "e">>]
SubsetFinals == [f1 |-> {"y"}, f2 |-> {}]
ToolCounts == <<{2}, {3}, 4 .. 9>>
ByDigest == <<"d", "b", "c", "a", "e">>

-----------------------------------------------------------------------------
\* KeyChoice: two items under three keys, and sweeps that are right, wrong, split
\* between the keys, short and stale.
One == [kind |-> "num", of |-> 1]
Entry(name) == [name |-> name, order |-> <<"x", "y">>, accepts |-> [x |-> {Optional, One}, y |-> {One}]]
KeyRow(id, name) == [id |-> id, entries |-> <<Entry(name)>>]
KeysHeld == [
    kD |-> <<KeyRow(1, "m.f"), KeyRow(2, "f")>>,
    kR |-> <<KeyRow(1, "f"), KeyRow(2, "f")>>,
    kR2 |-> <<KeyRow(1, "f"), KeyRow(2, "g")>>]
QuestionsHeld == [
    qA |-> <<[id |-> 1, names |-> {"m.f"}], [id |-> 2, names |-> {"f", "g"}]>>,
    qB |-> <<[id |-> 1, names |-> {"m.f", "f"}], [id |-> 2, names |-> {"f", "g"}]>>]
Answer(name, given) == [shape |-> "call", name |-> name, args |-> given]
Call(name) == Answer(name, [y |-> [kind |-> "bool", of |-> 1]])
Short == Answer("f", [x |-> One])
Extra == Answer("f", [x |-> One, y |-> One, z |-> One])
Generated(c, id, parsed) ==
    [model |-> c, id |-> id, parsed |-> parsed, stored |-> Score(parsed, KeysHeld["kD"][id].entries[1])]
Swept(sft1, sft2, dpo1, dpo2) ==
    <<Generated("sft", 1, sft1), Generated("sft", 2, sft2), Generated("dpo", 1, dpo1), Generated("dpo", 2, dpo2)>>
KeySweeps == [
    gRight |-> Swept(Call("m.f"), Call("f"), Call("m.f"), Extra),
    gWrong |-> Swept(Short, Call("g"), Call("g"), Call("f")),
    gSplit |-> Swept(Call("m.f"), Call("f"), Call("f"), Call("f")),
    gShort |-> SubSeq(Swept(Call("m.f"), Call("f"), Short, Short), 1, 2),
    gStale |-> [Swept(Call("m.f"), Call("f"), Call("m.f"), Call("f")) EXCEPT ![4].stored = Unusable("none")]]
Indexed == [eRight |-> "gRight", eWrong |-> "gWrong", eSplit |-> "gSplit", eShort |-> "gShort",
            eStale |-> "gStale"]
Pins(questions, release, selected, criterion) ==
    [questions |-> questions, pinned |-> "kD", release |-> release, selected |-> selected,
     revision |-> IF selected = "pinned" THEN "kD" ELSE release, criterion |-> criterion]
KeyManifests == [
    m1 |-> Pins("qA", "kR", "pinned", "current"),
    m2 |-> Pins("qA", "kR", "release", "current"),
    m3 |-> Pins("qA", "kR2", "pinned", "current"),
    m4 |-> Pins("qB", "kR", "pinned", "current"),
    m5 |-> Pins("qA", "kR", "pinned", "old")]
FilesHeld == [manifest |-> DOMAIN KeyManifests, questions |-> {"qA", "qB"}, pinned |-> {"kD"},
              release |-> {"kR", "kR2"}, generations |-> DOMAIN KeySweeps, evidence |-> DOMAIN Indexed]

-----------------------------------------------------------------------------
\* Preferences: two near-duplicate queries, a Python expression, an excluded example
\* and one of another source.
Invokes(name, given) == [name |-> name, args |-> given]
Example(id, query, list, calls) ==
    [id |-> id, source |-> "xlam", query |-> query, tools |-> {"f", "g"}, parses |-> TRUE,
     list |-> list, calls |-> calls, pyexpr |-> FALSE]
FromXLam == {
    Example("x1", "q1", TRUE, <<Invokes("f", [a |-> "palindrome"]), Invokes("g", [b |-> "text"])>>),
    Example("x2", "q2", FALSE, <<Invokes("g", [b |-> "text"])>>),
    [Example("x3", "q3", FALSE, <<Invokes("f", [a |-> "text"])>>) EXCEPT !.pyexpr = TRUE, !.tools = {"f"}],
    [Example("bad", "q4", FALSE, <<Invokes("f", [a |-> "null"])>>) EXCEPT !.tools = {"f"}]}
FromHermes == {[Example("h1", "q5", FALSE, <<>>) EXCEPT !.source = "hermes", !.parses = FALSE]}

NearDuplicates == {<<q, q>> : q \in {"q1", "q2", "q3", "q4", "q5"}} \cup {<<"q1", "q2">>, <<"q2", "q1">>}
RequiredArgs == [f |-> {"a"}, g |-> {}]

-----------------------------------------------------------------------------
\* Sampling: two prompts in one batch, and three failures of which two are as severe.
Trained == <<"p1", "p2">>
Wrong == [broken |-> "invalid_json", one |-> "wrong_args", other |-> "wrong_args"]

-----------------------------------------------------------------------------
ASSUME ProgramsAssumption ==
    /\ LadderAssumption /\ EnvelopeAssumption /\ BfclAssumption /\ FixturesAssumption
    /\ BootstrapAssumption /\ SubsetAssumption /\ PreferencesAssumption /\ SamplingAssumption

\* Where a program may start in several ways, the others are beside one of them.
First(choices) == [f \in DOMAIN choices |-> CHOOSE v \in choices[f] : TRUE]

Init ==
    /\ program \in {"ladder", "envelope", "bfcl", "fixtures", "bootstrap", "pool",
                   "yield", "subset", "keys", "preferences", "sampling"}
    /\ LadderInit /\ EnvelopeInit /\ BfclInit /\ FixturesInit /\ BootInit
    /\ PreferencesInit /\ SamplingInit /\ YieldInit
    /\ PoolInit /\ (program # "pool" => inputs = First(PoolVersions))
    /\ SubsetInit /\ (program # "subset" => store = First(SubsetFiles))
    /\ KeyInit /\ (program # "keys" => held = First(FilesHeld))

\* The chosen program runs.
Runs(p) ==
    /\ program = p /\ UNCHANGED program
    /\ IF p = "ladder" THEN TRUE ELSE UNCHANGED LadderVars
    /\ IF p = "envelope" THEN TRUE ELSE UNCHANGED EnvelopeVars
    /\ IF p = "bfcl" THEN TRUE ELSE UNCHANGED BfclVars
    /\ IF p = "fixtures" THEN TRUE ELSE UNCHANGED FixturesVars
    /\ IF p = "bootstrap" THEN TRUE ELSE UNCHANGED BootVars
    /\ IF p = "pool" THEN TRUE ELSE UNCHANGED PoolVars
    /\ IF p = "yield" THEN TRUE ELSE UNCHANGED YieldVars
    /\ IF p = "subset" THEN TRUE ELSE UNCHANGED SubsetVars
    /\ IF p = "keys" THEN TRUE ELSE UNCHANGED KeyVars
    /\ IF p = "preferences" THEN TRUE ELSE UNCHANGED PreferencesVars
    /\ IF p = "sampling" THEN TRUE ELSE UNCHANGED SamplingVars

Next ==
    \/ Runs("ladder") /\ LadderNext
    \/ Runs("envelope") /\ EnvelopeNext
    \/ Runs("bfcl") /\ BfclNext
    \/ Runs("fixtures") /\ FixturesNext
    \/ Runs("bootstrap") /\ BootNext
    \/ Runs("pool") /\ PoolNext
    \/ Runs("yield") /\ YieldNext
    \/ Runs("subset") /\ SubsetNext
    \/ Runs("keys") /\ KeyNext
    \/ Runs("preferences") /\ PreferencesNext
    \/ Runs("sampling") /\ SamplingNext

vars == <<program, LadderVars, EnvelopeVars, BfclVars, FixturesVars, BootVars, PoolVars,
          YieldVars, SubsetVars, KeyVars, PreferencesVars, SamplingVars>>

Spec == Init /\ [][Next]_vars

-----------------------------------------------------------------------------
\* The variables of the programs hold what their code can put in them.
TypesHold == LadderTypeOK /\ EnvelopeTypeOK /\ BfclTypeOK
=============================================================================
