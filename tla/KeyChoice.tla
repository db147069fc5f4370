------------------------------- MODULE KeyChoice -------------------------------
(***************************************************************************)
(* eval/answer_key_comparison.py: one sweep's committed generations scored *)
(* again under two pinned answer keys, and the report that says which key  *)
(* is canonical and that no paired comparison depends on the choice.  The  *)
(* inputs are read one after the other, and some of them twice; they start *)
(* in any state and may be edited a bounded number of times.               *)
(*                                                                         *)
(* A digest is the version of the file it is of.                           *)
(***************************************************************************)
EXTENDS Scoring

CONSTANTS KeyFiles,       \* [version -> rows] of either answer key
          QuestionFiles,  \* [version -> rows: id, names]
          Sweep,          \* [version -> rows: model, id, parsed, stored]
          Evidence,       \* [version -> the version of the generations it pins]
          Manifest,       \* [version -> what it pins, declares and selects]
          Held,           \* [file -> the versions it may be in]
          Expected,       \* EXPECTED_CANDIDATES
          Reference,      \* REFERENCE_CANDIDATE
          Unread, Broken,   \* not read yet; a report that was left half-written
          MaxSwaps        \* bound on edits, under a running comparison or not

IsTable(rows) == Len(rows) \in Nat /\ DOMAIN rows = 1 .. Len(rows)

\* The files hold rows, and an entry of a key orders the arguments it accepts.
ASSUME KeyChoiceAssumption ==
    /\ Reference \in Expected /\ IsFiniteSet(Expected) /\ MaxSwaps \in Nat
    /\ DOMAIN Held = {"manifest", "questions", "pinned", "release", "generations", "evidence"}
    /\ Held["manifest"] \subseteq DOMAIN Manifest /\ Held["generations"] \subseteq DOMAIN Sweep
    /\ \A v \in DOMAIN Manifest :
           {Manifest[v].pinned, Manifest[v].release} \subseteq DOMAIN KeyFiles
    /\ \A g \in DOMAIN Sweep : IsTable(Sweep[g])
    /\ \A v \in DOMAIN KeyFiles :
        /\ IsTable(KeyFiles[v])
        /\ \A i \in DOMAIN KeyFiles[v] :
            LET entries == KeyFiles[v][i].entries
            IN /\ IsTable(entries)
               /\ \A e \in DOMAIN entries :
                      DOMAIN entries[e].accepts
                          = {entries[e].order[a] : a \in DOMAIN entries[e].order}

VARIABLES held,     \* [file -> version]
          read,     \* what this comparison has read, Unread where nothing yet
          stage,
          written,  \* the report at --json
          swaps

KeyVars == <<held, read, stage, written, swaps>>

-----------------------------------------------------------------------------
(* The comparison, as a function of what was read. *)

IdsOf(rows) == {rows[i].id : i \in DOMAIN rows}
Unique(rows) == \A i, j \in DOMAIN rows : rows[i].id = rows[j].id => i = j
RowOf(rows, id) == rows[CHOOSE i \in DOMAIN rows : rows[i].id = id]

\* key_difference, and that the differing rows expect one call each.
Differing(a, b) == {id \in IdsOf(a) : RowOf(a, id).entries # RowOf(b, id).entries}
Comparable(a, b) ==
    /\ Unique(a) /\ Unique(b) /\ IdsOf(a) = IdsOf(b)
    /\ \A id \in Differing(a, b) : /\ Len(RowOf(a, id).entries) = 1
                                   /\ Len(RowOf(b, id).entries) = 1

OneCall(key) == \A i \in DOMAIN key : Len(key[i].entries) = 1
Under(key, row) == Score(row.parsed, RowOf(key, row.id).entries[1])

\* check_recomputation_matches_the_run.
Reproduces(rows, key) ==
    \A i \in DOMAIN rows : rows[i].id \in IdsOf(key) /\ Under(key, rows[i]) = rows[i].stored

\* rescore: the expected candidates, each on every item of the key, once.
Covers(rows, key) ==
    /\ rows # <<>> /\ OneCall(key)
    /\ \A i, j \in DOMAIN rows :
        <<rows[i].model, rows[i].id>> = <<rows[j].model, rows[j].id>> => i = j
    /\ {<<rows[i].model, rows[i].id>> : i \in DOMAIN rows} = Expected \X IdsOf(key)

Passes(rows, key, c) ==
    {rows[i].id : i \in {j \in DOMAIN rows : rows[j].model = c /\ Under(key, rows[j]).ok}}

\* contrasts: the two counts, and the digest of all discordant ids together.
Contrast(rows, key, c) ==
    LET b == Passes(rows, key, Reference) \ Passes(rows, key, c)
        d == Passes(rows, key, c) \ Passes(rows, key, Reference)
    IN [reference |-> Cardinality(b), candidate |-> Cardinality(d), discordant |-> b \cup d]
Contrasts(rows, key) == [c \in Expected \ {Reference} |-> Contrast(rows, key, c)]

\* concordance of a disputed item: all right, or all wrong.
Concordant(rows, key, id) ==
    \A c, d \in Expected : id \in Passes(rows, key, c) <=> id \in Passes(rows, key, d)

\* apply_canonical_criterion: the one consistent key, or no decision.
Selected(questions, pinned, release) ==
    LET ok == {k \in {"pinned", "release"} :
                  KeyNamesPresented(questions, IF k = "pinned" THEN pinned ELSE release)}
    IN IF Cardinality(ok) = 1 THEN CHOOSE k \in ok : TRUE ELSE "undecided"

\* Mutant: what the manifest records is taken for what the rule selects.
AsRecorded(m, questions, pinned, release) == m.selected \in {"pinned", "release"}

\* check_report_invariants, on the adjudication.
Adjudicated(m, questions, pinned, release) ==
    /\ Selected(questions, pinned, release) # "undecided"
    /\ m.selected = Selected(questions, pinned, release)
    /\ m.revision = (IF m.selected = "pinned" THEN m.pinned ELSE m.release)

\* check_report_invariants, on the keys.
ChoiceIsNeutral(rows, pinned, release) ==
    /\ Cardinality(Differing(pinned, release)) = 1
    /\ \A id \in Differing(pinned, release) :
           Concordant(rows, pinned, id) /\ Concordant(rows, release, id)
    /\ Contrasts(rows, pinned) = Contrasts(rows, release)

\* build_report and check_report_invariants: no exception.
Holds(m, questions, pinned, release, rows) ==
    /\ Comparable(pinned, release) /\ Unique(questions) /\ IdsOf(questions) = IdsOf(pinned)
    /\ Reproduces(rows, pinned) /\ Covers(rows, pinned) /\ Covers(rows, release)
    /\ m.criterion = "current"
    /\ ChoiceIsNeutral(rows, pinned, release)
    /\ Adjudicated(m, questions, pinned, release)

\* What is reported of a manifest and a sweep: at most one selection and its scores.
BuildReport(v, g) ==
    LET m == Manifest[v]
        pinned == KeyFiles[m.pinned]
        release == KeyFiles[m.release]
        count(key, c) == Cardinality(Passes(Sweep[g], key, c))
    IN IF Holds(m, QuestionFiles[m.questions], pinned, release, Sweep[g])
       THEN {[selected |-> m.selected,
              scores |-> [c \in Expected |-> <<count(pinned, c), count(release, c)>>]]}
       ELSE {}
Reported == [v \in DOMAIN Manifest |-> [g \in DOMAIN Sweep |-> BuildReport(v, g)]]

-----------------------------------------------------------------------------
(* The run. *)

Nothing == [f \in {"manifest", "manifest digest", "generations", "generations digest"} |-> Unread]

KeyInit ==
    /\ held \in [manifest : Held.manifest, questions : Held.questions,
                pinned : Held.pinned, release : Held.release,
                generations : Held.generations, evidence : Held.evidence]
    /\ read = Nothing /\ stage = "start" /\ written = Unread /\ swaps = 0

Swap(f) ==
    /\ swaps < MaxSwaps /\ swaps' = swaps + 1
    /\ \E v \in Held[f] \ {held[f]} : held' = [held EXCEPT ![f] = v]
    /\ UNCHANGED <<read, stage, written>>

Go(next) == stage' = next /\ UNCHANGED <<held, written, swaps>>
GiveUp == read' = Nothing /\ Go("start")

\* load_verified_inputs: the manifest's digest is of one reading and its contents
\* of another.
FingerprintManifest ==
    /\ stage = "start" /\ read' = [Nothing EXCEPT !["manifest digest"] = held["manifest"]]
    /\ Go("manifest")
LoadManifest ==
    /\ stage = "manifest" /\ read' = [read EXCEPT !["manifest"] = held["manifest"]]
    /\ Go("keys")

\* _verified_manifest_input: each file is the pinned one, or the run ends.
LoadKeys ==
    /\ stage = "keys"
    /\ LET m == Manifest[read["manifest"]]
       IN IF /\ held["questions"] = m.questions /\ held["pinned"] = m.pinned
             /\ held["release"] = m.release
          THEN UNCHANGED read /\ Go("fingerprint")
          ELSE GiveUp

\* build_report reads the generations for their digest, load_verified_generations
\* for their rows, which the evidence index must pin.
FingerprintGenerations ==
    /\ stage = "fingerprint"
    /\ read' = [read EXCEPT !["generations digest"] = held["generations"]]
    /\ Go("generations")
LoadGenerations ==
    /\ stage = "generations"
    /\ IF Evidence[held["evidence"]] = held["generations"]
       THEN read' = [read EXCEPT !["generations"] = held["generations"]] /\ Go("report")
       ELSE GiveUp

\* The report is built, checked and written; a kill in the write tears it.
WriteReport ==
    /\ stage = "report" /\ stage' = "start" /\ read' = Nothing
    /\ LET reports == Reported[read["manifest"]][read["generations"]]
       IN IF reports = {} THEN UNCHANGED written
          ELSE written' \in {Broken} \cup {[read |-> read, says |-> r] : r \in reports}
    /\ UNCHANGED <<held, swaps>>

KeyNext ==
    \/ \E f \in DOMAIN Held : Swap(f)
    \/ FingerprintManifest \/ LoadManifest \/ LoadKeys
    \/ FingerprintGenerations \/ LoadGenerations \/ WriteReport

KeySpec == KeyInit /\ [][KeyNext]_KeyVars

-----------------------------------------------------------------------------
(* Properties. *)

\* By the reference: the items that c answers correctly under a key.
Right(rows, key, c) ==
    {id \in IdsOf(key) : \E i \in DOMAIN rows :
        /\ rows[i].model = c /\ rows[i].id = id
        /\ Correct(rows[i].parsed, RowOf(key, id).entries[1])}

\* Whether any paired comparison depends on the key, item by item.
SameComparisons(rows, one, other) ==
    \A c \in Expected :
        /\ Right(rows, one, Reference) \ Right(rows, one, c)
               = Right(rows, other, Reference) \ Right(rows, other, c)
        /\ Right(rows, one, c) \ Right(rows, one, Reference)
               = Right(rows, other, c) \ Right(rows, other, Reference)

\* What is so of a manifest and a sweep, whatever is reported of them.
FactsOf(v, g) ==
    LET questions == QuestionFiles[Manifest[v].questions]
        pinned == KeyFiles[Manifest[v].pinned]
        release == KeyFiles[Manifest[v].release]
        count(key, c) == Cardinality(Right(Sweep[g], key, c))
    IN [complete |-> Len(Sweep[g]) = Cardinality(Expected) * Cardinality(IdsOf(questions)),
        neutral |-> SameComparisons(Sweep[g], pinned, release),
        sound |-> {k \in {"pinned", "release"} :
                      KeyNamesPresented(questions, IF k = "pinned" THEN pinned ELSE release)},
        scores |-> [c \in Expected |-> <<count(pinned, c), count(release, c)>>]]
Facts == [v \in DOMAIN Manifest |-> [g \in DOMAIN Sweep |-> FactsOf(v, g)]]

\* Every report that is written supports what is claimed from it: no candidate and no
\* item is missing, the scores are those of the keys, the two keys give every paired
\* comparison the same discordant items on the same side, and the canonical key is
\* the only one that expects no name its item did not present.
ReportsSupportClaims ==
    written \notin {Unread, Broken} =>
        LET facts == Facts[written.read["manifest"]][written.read["generations"]]
        IN /\ facts.complete /\ facts.neutral
           /\ facts.sound = {written.says.selected}
           /\ facts.scores = written.says.scores
=============================================================================
