--------------------------------- MODULE Pool ---------------------------------
(***************************************************************************)
(* The population a stage mines: the target preflight of                   *)
(* mining/pool_strata.py, the screen of mining/decontaminate_pool.py and   *)
(* mining/decontaminate.py, and load_eligible_prompts of                   *)
(* mining/mine_pairs.py, which derives the population again and compares   *)
(* it with the artifact that was committed.  The commands share files that *)
(* anyone may edit, between commands and under a running one.              *)
(*                                                                         *)
(* A digest is the version of the file, or the set of ids, it is of.  A    *)
(* row is its id, the tool lists that parse in its system prompt, the      *)
(* 13-grams of its user turns, and its messages in order, an assistant's   *)
(* being what it says.                                                     *)
(***************************************************************************)
EXTENDS Turns, Integers

CONSTANTS Rows,        \* [version of the pool -> sequence of rows]
          Manifests,   \* [version of the manifest -> sequence of file specs]
          Questions,   \* [version of a question file -> [grams, names]]
          Versions,    \* [file -> the versions it may be in]: "pool", "manifest"
                       \* and the question files
          Superseded,  \* the manifest of the superseded artifact
          Absent, HalfWritten,  \* a file that is not there, or was left half-written
          MaxSlips     \* edits under a running command

ASSUME PoolAssumption ==
    /\ Versions["pool"] \subseteq DOMAIN Rows /\ MaxSlips \in Nat
    /\ Versions["manifest"] \subseteq DOMAIN Manifests
    /\ \A m \in DOMAIN Manifests : \A i \in DOMAIN Manifests[m] :
           Manifests[m][i].file \in DOMAIN Versions /\ Manifests[m][i].sha \in DOMAIN Questions
    /\ {"pool", "manifest"} \subseteq DOMAIN Versions

\* A row holds lists and messages, and no other row of its pool has its id.
ASSUME PoolRowsAssumption ==
    \A v \in DOMAIN Rows : \A i, j \in DOMAIN Rows[v] :
        LET row == Rows[v][i]
        IN /\ row.id = Rows[v][j].id => i = j
           /\ IsSequence(row.lists) /\ \A l \in Range_(row.lists) : IsSequence(l)
           /\ IsSequence(row.messages)
           /\ \A k \in DOMAIN row.messages :
                  row.messages[k].role = "assistant" => IsTurn(row.messages[k].says)

VARIABLES inputs,   \* [file -> version]: the pool, the manifest, the question files
          receipt,   \* the target preflight's
          artifact,  \* the decontamination artifact
          pins,      \* what the committed miner pins
          job,       \* the running command
          mined,     \* the populations that passed, each with its pins (history)
          slips      \* edits made under a running command so far

PoolVars == <<inputs, receipt, artifact, pins, job, mined, slips>>

-----------------------------------------------------------------------------
(* pool_strata: reading a row. *)

\* tool_count and presented_names: of the lists that parse, the longest.
Longest(row) ==
    LET i == CHOOSE i \in DOMAIN row.lists :
                 \A j \in DOMAIN row.lists : \/ Len(row.lists[j]) < Len(row.lists[i])
                                             \/ Len(row.lists[j]) = Len(row.lists[i]) /\ i <= j
    IN row.lists[i]

\* Mutant: an empty list counts as one tool.
ZeroIsSingle(row) ==
    IF row.lists = <<>> THEN "ineligible" ELSE IF Len(Longest(row)) >= 2 THEN "multi" ELSE "single"

StratumOf(row) ==
    IF row.lists = <<>> \/ Len(Longest(row)) = 0 THEN "ineligible"
    ELSE IF Len(Longest(row)) >= 2 THEN "multi" ELSE "single"

PresentedNames(row) == IF row.lists = <<>> THEN {} ELSE Range_(Longest(row)) \ {NoName}

\* Mutant: the whole conversation's last word, not the first.
LastAssistant(row) ==
    LET at == {i \in DOMAIN row.messages : row.messages[i].role = "assistant"}
    IN IF at = {} THEN Len(row.messages) + 1 ELSE CHOOSE i \in at : \A j \in at : j <= i

\* split_at_first_assistant: where the prompt ends, and what is taught there.
FirstAssistant(row) ==
    LET at == {i \in DOMAIN row.messages : row.messages[i].role = "assistant"}
    IN IF at = {} THEN Len(row.messages) + 1 ELSE CHOOSE i \in at : \A j \in at : i <= j
Silence == [form |-> "empty", blocks |-> <<>>, broken |-> FALSE]
TargetOf(row) ==
    LET i == FirstAssistant(row)
    IN IF i \in DOMAIN row.messages THEN row.messages[i].says ELSE Silence

\* What every reader of the pool sorts its rows into, by index.
Ineligible == [pool \in DOMAIN Rows |->
    {i \in DOMAIN Rows[pool] : StratumOf(Rows[pool][i]) = "ineligible"}]
Unreadable == [pool \in DOMAIN Rows |->
    {i \in DOMAIN Rows[pool] \ Ineligible[pool] :
        ClassifyTarget(TargetOf(Rows[pool][i])).kind = "unreadable"}]
Retained == [pool \in DOMAIN Rows |->
    DOMAIN Rows[pool] \ (Ineligible[pool] \cup Unreadable[pool])]
Defects == [pool \in DOMAIN Rows |->
    {i \in Retained[pool] :
        ~ ClassifyTarget(TargetOf(Rows[pool][i])).names \subseteq PresentedNames(Rows[pool][i])}]

\* target_defects: the counts, and whether the retained rows are clean.
TargetDefects(pool) ==
    [pool |-> pool, passed |-> Defects[pool] = {},
     raw |-> Len(Rows[pool]), ineligible |-> Cardinality(Ineligible[pool]),
     excluded |-> Cardinality(Unreadable[pool]), retained |-> Cardinality(Retained[pool])]

-----------------------------------------------------------------------------
(* decontaminate: the index of the question files a manifest lists. *)

Specs(manifest) == {s \in Range_(Manifests[manifest]) : s.role = "questions"}

\* _index_question_file: a file that is not the pinned one stops the screen.
Intact(manifest) == \A s \in Specs(manifest) : inputs[s.file] = s.sha

Grams(manifest) == UNION {Questions[s.sha].grams : s \in Specs(manifest)}
QuestionNames(manifest) == UNION {Questions[s.sha].names : s \in Specs(manifest)}

\* is_contaminated: a shared 13-gram or the name of a tool.
Contaminated(row, manifest) ==
    \/ row.grams \cap Grams(manifest) # {}
    \/ PresentedNames(row) \cap QuestionNames(manifest) # {}

Screened == [pool \in DOMAIN Rows |-> [manifest \in DOMAIN Manifests |->
    {i \in Retained[pool] : ~ Contaminated(Rows[pool][i], manifest)}]]
Ids(pool, rows) == {Rows[pool][i].id : i \in rows}
InStratum(pool, rows, s) == Cardinality({i \in rows : StratumOf(Rows[pool][i]) = s})

-----------------------------------------------------------------------------
(* The commands. *)

Idle == [cmd |-> "none", pool |-> Absent, receipt |-> Absent, rows |-> {}]
NoPins == [pool |-> Absent, manifest |-> Absent, artifact |-> Absent]
Whole(file) == file \notin {Absent, HalfWritten}

PoolInit ==
    /\ inputs \in {d \in [DOMAIN Versions -> UNION {Versions[f] : f \in DOMAIN Versions}] :
                    \A f \in DOMAIN Versions : d[f] \in Versions[f]}
    /\ receipt = Absent /\ artifact = Absent /\ pins = NoPins
    /\ job = Idle /\ mined = {} /\ slips = 0

\* An edit, by anyone; under a running command it is a slip.
Edit(f) ==
    /\ job # Idle => slips < MaxSlips
    /\ slips' = IF job # Idle THEN slips + 1 ELSE slips
    /\ \E v \in Versions[f] \ {inputs[f]} : inputs' = [inputs EXCEPT ![f] = v]
    /\ UNCHANGED <<receipt, artifact, pins, job, mined>>

\* pool_strata --targets --json: the receipt is written whether it passed or not.
TargetPreflight ==
    /\ job = Idle
    /\ receipt' \in {TargetDefects(inputs["pool"]), HalfWritten}
    /\ UNCHANGED <<inputs, artifact, pins, job, mined, slips>>

\* _verify_preflight.
VerifyPreflight(r, pool) == Whole(r) /\ r.pool = pool /\ r.passed

\* build_artifact: the pool and its receipt, and every retained row's names.
BuildStart ==
    /\ job = Idle
    /\ VerifyPreflight(receipt, inputs["pool"]) /\ Defects[inputs["pool"]] = {}
    /\ job' = [cmd |-> "build", pool |-> inputs["pool"], receipt |-> receipt, rows |-> {}]
    /\ UNCHANGED <<inputs, receipt, artifact, pins, mined, slips>>

\* The screen; a question file that was changed is a hard failure.
BuildScreen ==
    /\ job.cmd = "build"
    /\ job' = IF Intact(inputs["manifest"])
              THEN [job EXCEPT !.cmd = "write", !.rows = Screened[job.pool][inputs["manifest"]]]
              ELSE Idle
    /\ UNCHANGED <<inputs, receipt, artifact, pins, mined, slips>>

\* The receipt's counts against those just derived, then the artifact, which
\* names the manifest as it is now.  A kill in the write tears it.
BuildWrite ==
    /\ job.cmd = "write" /\ job' = Idle
    /\ IF [TargetDefects(job.pool) EXCEPT !.pool = job.receipt.pool] = job.receipt
       THEN artifact' \in {HalfWritten, [pool |-> job.pool, manifest |-> inputs["manifest"],
                                  receipt |-> job.receipt, ids |-> Ids(job.pool, job.rows),
                                  multi |-> InStratum(job.pool, job.rows, "multi"),
                                  single |-> InStratum(job.pool, job.rows, "single")]}
       ELSE UNCHANGED artifact
    /\ UNCHANGED <<inputs, receipt, pins, mined, slips>>

\* A commit pins what is on disk.
Pin ==
    /\ job = Idle /\ Whole(artifact)
    /\ pins' = [pool |-> inputs["pool"], manifest |-> inputs["manifest"], artifact |-> artifact]
    /\ UNCHANGED <<inputs, receipt, artifact, job, mined, slips>>

\* load_eligible_prompts: the pins, and that the artifact was built from them.
LoadVerify ==
    /\ job = Idle
    /\ Whole(artifact) /\ artifact.manifest # Superseded /\ artifact = pins.artifact
    /\ inputs["manifest"] = pins.manifest /\ artifact.manifest = pins.manifest
    /\ inputs["pool"] = pins.pool /\ artifact.pool = pins.pool
    /\ job' = [cmd |-> "load", pool |-> pins.pool, receipt |-> Absent, rows |-> {}]
    /\ UNCHANGED <<inputs, receipt, artifact, pins, mined, slips>>

\* Mutant: the artifact is trusted for its counts alone.
AgreesInCount(rows) ==
    /\ InStratum(pins.pool, rows, "multi") = pins.artifact.multi
    /\ InStratum(pins.pool, rows, "single") = pins.artifact.single

\* The population derived again has the artifact's ids and counts.
Agrees(rows) ==
    /\ Ids(pins.pool, rows) = pins.artifact.ids
    /\ InStratum(pins.pool, rows, "multi") = pins.artifact.multi
    /\ InStratum(pins.pool, rows, "single") = pins.artifact.single

\* The screen again, over the manifest as it is now; preflight_stage goes on, or
\* the stage is refused.
LoadScreen ==
    /\ job.cmd = "load" /\ job' = Idle
    /\ LET rows == Screened[job.pool][inputs["manifest"]]
       IN IF Intact(inputs["manifest"]) /\ Defects[job.pool] = {} /\ Agrees(rows)
          THEN mined' = mined \cup {[pool |-> pins.pool, manifest |-> pins.manifest, rows |-> rows]}
          ELSE UNCHANGED mined
    /\ UNCHANGED <<inputs, receipt, artifact, pins, slips>>

PoolNext ==
    \/ \E f \in DOMAIN Versions : Edit(f)
    \/ TargetPreflight \/ BuildStart \/ BuildScreen \/ BuildWrite
    \/ Pin \/ LoadVerify \/ LoadScreen

PoolSpec == PoolInit /\ [][PoolNext]_PoolVars

-----------------------------------------------------------------------------
(* Properties. *)

\* What may be mined, said without the code's steps: a tool is offered, the first
\* assistant turn means something and calls what is offered, and no question of
\* the manifest shares a gram or a tool with it.
Minable(row, manifest) ==
    /\ \E l \in Range_(row.lists) : l # <<>>
    /\ \E i \in DOMAIN row.messages :
           /\ row.messages[i].role = "assistant"
           /\ \A j \in 1 .. (i - 1) : row.messages[j].role # "assistant"
           /\ Meaning(row.messages[i].says)[1] # "nothing"
           /\ Names(CallsOf(row.messages[i].says)) \subseteq PresentedNames(row)
    /\ \A spec \in Specs(manifest) :
           /\ row.grams \cap Questions[spec.sha].grams = {}
           /\ PresentedNames(row) \cap Questions[spec.sha].names = {}

Population == [pool \in DOMAIN Rows |-> [manifest \in DOMAIN Manifests |->
    {i \in DOMAIN Rows[pool] : Minable(Rows[pool][i], manifest)}]]

\* Every population that reaches sampling is, row for row, what may be mined from
\* the pinned pool under the pinned manifest: whatever was edited between the
\* commands, whichever receipts were torn or belong to other files, and even if one
\* file changed while a command was reading.
MinedIsScreened ==
    \A m \in mined : m.rows = Population[m.pool][m.manifest]
=============================================================================
