------------------------------- MODULE Ladder -------------------------------
(***************************************************************************)
(* The isolation ladder, eval/isolation_ladder.py: N configurations of the *)
(* model, one variable apart, loaded and run in order until one fails, and *)
(* the summary file they leave.  A run can be killed at any point, and     *)
(* another can be started in the same directory.                           *)
(*                                                                         *)
(* Telemetry is left out: collecting or writing it cannot fail a rung.     *)
(***************************************************************************)
EXTENDS Integers, FiniteSets

CONSTANTS NRungs,        \* rungs in LADDER
          Wrapped,       \* rungs whose context factory is a method of the model
          MaxLadderRuns  \* bound on runs in one --out-dir

Rungs == 1 .. NRungs

LadderAssumption ==
    /\ NRungs \in Nat \ {0} /\ MaxLadderRuns \in Nat
    /\ Wrapped \subseteq Rungs

VARIABLES run,       \* runs started so far
          prompt,    \* what this run's tokenizer makes of the first prompt
          pc, rung,
          results,   \* the status of each rung, in memory
          refs,      \* what in run_ladder's frame keeps the weights alive
          resident,  \* rungs whose weights are on the card
          disk,      \* isolation_ladder.json
          exit,
          clean,     \* rungs that generated with no fault in this run (history)
          faulted,   \* the rung of its first fault, or 0 (history)
          behind,    \* its last progress write was lost (history)
          leaked     \* a release of its raised (history)

memory == <<run, prompt, refs, resident, clean, faulted, leaked>>
LadderVars == <<memory, pc, rung, results, disk, exit, behind>>

Pending == [r \in Rungs |-> "pending"]
With(status) == [results EXCEPT ![rung] = status]

\* Mutant: no rung has failed, so all have passed.
NoFailureIsPass(res) ==
    LET failed == {r \in Rungs : res[r] = "failed"}
    IN [run     |-> run,
        steps   |-> res,
        outcome |-> IF failed # {} THEN "failed" ELSE "all_passed",
        branch  |-> IF failed = {} THEN 0
                    ELSE CHOOSE r \in failed : \A q \in failed : r <= q]

\* summarise.
Summary(res) ==
    LET failed == {r \in Rungs : res[r] = "failed"}
    IN [run     |-> run,
        steps   |-> res,
        outcome |-> IF failed # {} THEN "failed"
                    ELSE IF \A r \in Rungs : res[r] = "passed" THEN "all_passed"
                    ELSE "incomplete",
        branch  |-> IF failed = {} THEN 0
                    ELSE CHOOSE r \in failed : \A q \in failed : r <= q]

LadderInit ==
    /\ run = 0 /\ prompt = "pinned"
    /\ pc = "ended" /\ rung = 1 /\ results = Pending
    /\ refs = {} /\ resident = {}
    /\ disk = [run |-> 0, steps |-> Pending, outcome |-> "absent", branch |-> 0]
    /\ exit = "none"
    /\ clean = {} /\ faulted = 0 /\ behind = FALSE /\ leaked = FALSE

-----------------------------------------------------------------------------
(* main, up to the ladder. *)

\* A new process, after any end of the last one: what that left stays on disk.
Start ==
    /\ pc \in {"ended", "dead"} /\ run < MaxLadderRuns
    /\ run' = run + 1
    /\ prompt' \in {"pinned", "other"}
    /\ pc' = "setup" /\ rung' = 1 /\ results' = Pending
    /\ refs' = {} /\ resident' = {}
    /\ exit' = "none"
    /\ clean' = {} /\ faulted' = 0 /\ behind' = FALSE /\ leaked' = FALSE
    /\ UNCHANGED disk

LeaveLadder(code) == pc' = "ended" /\ exit' = code

\* The baseline, the tokenizer or the first summary raises.
SetupRaises ==
    /\ pc = "setup"
    /\ LeaveLadder("error")
    /\ UNCHANGED <<memory, rung, results, disk, behind>>

\* PromptIdentityMismatch.
Refuse ==
    /\ pc = "setup" /\ prompt = "other"
    /\ disk' = [Summary(results) EXCEPT !.outcome = "refused_prompt_identity"]
    /\ LeaveLadder("mismatch")
    /\ UNCHANGED <<memory, rung, results, behind>>

\* The summary of no rung, before the first one.
Open ==
    /\ pc = "setup" /\ prompt = "pinned"
    /\ disk' = Summary(results)
    /\ pc' = "mark"
    /\ UNCHANGED <<memory, rung, results, exit, behind>>

-----------------------------------------------------------------------------
(* run_ladder *)

\* progress_fn under its try: a write that raises is passed over.
Progress(res) ==
    \/ disk' = Summary(res) /\ behind' = FALSE
    \/ UNCHANGED disk /\ behind' = TRUE

\* Mutant: the abort is forgotten.
NeverAborted == FALSE

Aborted == \E r \in Rungs : results[r] = "failed"

\* Mutant: the rung is marked in memory and saved only when it is over.
MarkUnsaved ==
    /\ pc = "mark" /\ rung \in Rungs /\ ~ Aborted
    /\ results' = With("running")
    /\ pc' = "reset"
    /\ UNCHANGED <<memory, rung, disk, exit, behind>>

\* Marked and persisted before anything is done.
MarkRunning ==
    /\ pc = "mark" /\ rung \in Rungs /\ ~ Aborted
    /\ results' = With("running")
    /\ Progress(results')
    /\ pc' = "reset"
    /\ UNCHANGED <<memory, rung, exit>>

\* Mutant: a rung that is not run is left out of the record.
PassOver ==
    /\ pc = "mark" /\ rung \in Rungs /\ Aborted
    /\ rung' = rung + 1
    /\ UNCHANGED <<memory, pc, results, disk, exit, behind>>

Skip ==
    /\ pc = "mark" /\ rung \in Rungs /\ Aborted
    /\ results' = With("skipped")
    /\ Progress(results')
    /\ rung' = rung + 1
    /\ UNCHANGED <<memory, pc, exit>>

\* reset_peak_fn is outside the try: what it raises ends the process.
ResetPeak ==
    /\ pc = "reset"
    /\ \/ pc' = "load" /\ UNCHANGED exit
       \/ LeaveLadder("error")
    /\ UNCHANGED <<memory, rung, results, disk, behind>>

Load ==
    /\ pc = "load"
    /\ refs' = {"model"} \cup IF rung \in Wrapped THEN {"factory"} ELSE {}
    /\ resident' = resident \cup {rung}
    /\ pc' = "synchronize_after_load"
    /\ UNCHANGED <<run, prompt, rung, results, disk, exit, clean, faulted, behind, leaked>>

Generate ==
    /\ \/ pc = "synchronize_after_load" /\ pc' = "generate"
       \/ pc = "generate" /\ pc' = "synchronize_after_generate"
    /\ UNCHANGED <<memory, rung, results, disk, exit, behind>>

Pass ==
    /\ pc = "synchronize_after_generate"
    /\ results' = With("passed")
    /\ clean' = clean \cup {rung}
    /\ pc' = "teardown"
    /\ UNCHANGED <<run, prompt, rung, refs, resident, disk, exit, faulted, behind, leaked>>

\* Any of the four phases raises.  A load may have got part of the way.
Fault ==
    /\ pc \in {"load", "synchronize_after_load", "generate", "synchronize_after_generate"}
    /\ results' = With("failed")
    /\ faulted' = IF faulted = 0 THEN rung ELSE faulted
    /\ resident' \in IF pc = "load" THEN {resident, resident \cup {rung}} ELSE {resident}
    /\ pc' = "teardown"
    /\ UNCHANGED <<run, prompt, rung, refs, disk, exit, clean, behind, leaked>>

\* Mutant: only the model is let go, not the method bound to it.
ModelOnly == refs \ {"model"}

KeptRefs == {}

\* The finally clause: every reference goes before release_fn is called, and
\* what that raises is passed over.
TearDown ==
    /\ pc = "teardown"
    /\ refs' = KeptRefs
    /\ \/ /\ resident' = IF refs # {} /\ refs' = {} THEN {} ELSE resident
          /\ UNCHANGED leaked
       \/ refs # {} /\ leaked' = TRUE /\ UNCHANGED resident
    /\ pc' = "persist"
    /\ UNCHANGED <<run, prompt, rung, results, disk, exit, clean, faulted, behind>>

PersistRung ==
    /\ pc = "persist"
    /\ Progress(results)
    /\ rung' = rung + 1
    /\ pc' = "mark"
    /\ UNCHANGED <<memory, results, exit>>

-----------------------------------------------------------------------------
(* main, after the ladder; the end of the process. *)

\* 0 only for an explicit all_passed.
LadderExitCode == IF Summary(results).outcome = "all_passed" THEN "ok" ELSE "failed"

\* The last write is outside any try.
Finish ==
    /\ pc = "mark" /\ rung = NRungs + 1
    /\ \/ disk' = Summary(results) /\ LeaveLadder(LadderExitCode)
       \/ UNCHANGED disk /\ LeaveLadder("error")
    /\ UNCHANGED <<memory, rung, results, behind>>

\* A hard death: SIGKILL, SIGTERM from `timeout`, a crash of the driver.
LadderDies ==
    /\ pc \notin {"ended", "dead"}
    /\ pc' = "dead"
    /\ UNCHANGED <<memory, rung, results, disk, exit, behind>>

LadderNext ==
    \/ Start \/ SetupRaises \/ Refuse \/ Open
    \/ MarkRunning \/ Skip \/ ResetPeak \/ Load \/ Generate \/ Pass \/ Fault
    \/ TearDown \/ PersistRung \/ Finish \/ LadderDies

LadderSpec == LadderInit /\ [][LadderNext]_LadderVars

-----------------------------------------------------------------------------
(* Properties. *)

Statuses == {"pending", "running", "passed", "failed", "skipped"}

\* What the variables hold; a rung that is behind the current one has a result,
\* run or not ("recorded explicitly rather than omitted").
LadderTypeOK ==
    /\ run \in 0 .. MaxLadderRuns
    /\ rung \in 1 .. NRungs + 1
    /\ results \in [Rungs -> Statuses]
    /\ refs \subseteq {"model", "factory"} /\ resident \subseteq Rungs
    /\ exit \in {"none", "ok", "failed", "mismatch", "error"}
    /\ disk.steps \in [Rungs -> Statuses] /\ disk.branch \in 0 .. NRungs
    /\ \A r \in 1 .. rung - 1 : results[r] \in {"passed", "failed", "skipped"}

ThisRun == disk.run = run

\* Whatever writes are lost and wherever a run is killed, a summary it leaves
\* says all_passed only if every rung did generate, on the pinned prompt.
PassIsEarned ==
    ThisRun /\ disk.outcome = "all_passed" => clean = Rungs /\ prompt = "pinned"

\* The verdict names the rung of the first fault; those before it ran clean,
\* and nothing after it ran in the context it poisoned.
VerdictIsFirstFault ==
    ThisRun /\ disk.outcome = "failed" =>
        /\ disk.branch = faulted
        /\ clean = 1 .. faulted - 1
        /\ resident \subseteq 1 .. faulted

\* After a hard death or an exception that left the ladder, unless the last
\* progress write was lost, the rung marked running is the one that was being
\* run and those marked pending were never attempted.
ResidueTellsWhere ==
    (pc = "dead" \/ exit = "error") /\ ThisRun /\ ~ behind =>
        \A r \in Rungs :
            /\ disk.steps[r] = "running" => r = rung
            /\ results[r] # "pending" => disk.steps[r] # "pending"

\* The weights of two rungs are never on the card at once, unless a release
\* raised: no rung fails for memory an earlier one held.
OneModelAtATime ==
    Cardinality(resident) <= 1 \/ leaked
=============================================================================
