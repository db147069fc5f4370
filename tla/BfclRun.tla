------------------------------ MODULE BfclRun ------------------------------
(***************************************************************************)
(* eval/bfcl_simple.py: one paid generation run, the three files that are  *)
(* its evidence, and the manifest's life from "running" to "complete" or   *)
(* "incomplete".  Runs follow each other in one --out-dir; a disk that     *)
(* fills up, SIGTERM and a hard kill may come at any step.                 *)
(*                                                                         *)
(* A row is the pair it is for; what a row holds is Scoring's business.    *)
(***************************************************************************)
EXTENDS Integers, Sequences, FiniteSets, SequencesExt

CONSTANTS Prompts,    \* bound on the prompts of a run
          Sweeps,     \* the values of --checkpoints, sequences of steps
          MaxRuns,    \* bound on runs in one --out-dir
          MaxSignals  \* bound on SIGTERMs to one run

BfclAssumption ==
    /\ Prompts \in Nat /\ MaxRuns \in Nat /\ MaxSignals \in Nat
    /\ \A s \in Sweeps : s \in Seq(STRING)

VARIABLES runs,       \* runs started so far
          args,      \* this run's prompts, candidates and --overwrite
          step,
          rows,      \* rows in memory
          buffered,  \* gen_file holds bytes that a full disk refused
          status,    \* run_status: what the last manifest write will say
          raised,    \* the exception that is propagating
          full,      \* the disk is full
          signals,   \* SIGTERMs received
          gens,      \* generations.jsonl: its run and its rows
          report,    \* the run that wrote report.md, or 0
          manifest,  \* run_manifest.json
          code,
          lost       \* the last manifest write was warned about (history)

files == <<gens, report, manifest>>
BfclVars == <<runs, args, step, rows, buffered, status, raised, full, signals, files, code, lost>>

NoGens == [run |-> 0, rows |-> <<>>]
NoManifest == [run |-> 0, status |-> "absent", rows |-> 0, reason |-> "none"]

\* build_candidate_names.  The steps are as given, repeated or not.
Candidates(base, sftOnly, steps) ==
    (IF base THEN <<"base">> ELSE <<>>) \o <<"sft">> \o (IF sftOnly THEN <<>> ELSE steps)

ExpectedRows == args.prompts * Len(args.names)
Product == {<<c, i>> : c \in Range(args.names), i \in 1 .. args.prompts}

\* The pair of the row that is generated when n rows exist.
PairAt(n) == <<args.names[(n \div args.prompts) + 1], (n % args.prompts) + 1>>

\* Files that hold bytes: what the refusal calls stale.
Stale == {f \in {"generations", "report", "manifest"} :
             \/ f = "generations" /\ gens.rows # <<>>
             \/ f = "report" /\ report # 0
             \/ f = "manifest" /\ manifest.run # 0}

BfclInit ==
    /\ runs = 0 /\ args = [prompts |-> 0, names |-> <<"sft">>, overwrite |-> FALSE]
    /\ step = "ended" /\ rows = <<>> /\ buffered = FALSE
    /\ status = "incomplete" /\ raised = "none" /\ full = FALSE /\ signals = 0
    /\ gens = NoGens /\ report = 0 /\ manifest = NoManifest
    /\ code = "none" /\ lost = FALSE

-----------------------------------------------------------------------------
(* The start of main: nothing is under the try yet. *)

StartRun ==
    /\ step = "ended" /\ runs < MaxRuns
    /\ runs' = runs + 1
    /\ \E n \in 0 .. Prompts, base, sftOnly, over \in BOOLEAN, steps \in Sweeps :
           args' = [prompts |-> n, names |-> Candidates(base, sftOnly, steps),
                    overwrite |-> over]
    /\ step' = "stale" /\ rows' = <<>> /\ buffered' = FALSE
    /\ status' = "incomplete" /\ raised' = "none" /\ full' = FALSE /\ signals' = 0
    /\ code' = "none" /\ lost' = FALSE
    /\ UNCHANGED files

Leave(how) == step' = "ended" /\ code' = how

RefuseStale ==
    /\ step = "stale" /\ Stale # {} /\ ~ args.overwrite
    /\ Leave("refused")
    /\ UNCHANGED <<runs, args, rows, buffered, status, raised, full, signals, files, lost>>

CheckStale ==
    /\ step = "stale" /\ (Stale = {} \/ args.overwrite)
    /\ step' = IF args.overwrite THEN "unlink rows" ELSE "inputs"
    /\ UNCHANGED <<runs, args, rows, buffered, status, raised, full, signals, files, code, lost>>

\* Mutant: only the rows are discarded, as --overwrite once did.
UnlinkRowsOnly ==
    /\ step = "unlink rows" /\ gens' = NoGens /\ step' = "inputs"
    /\ UNCHANGED <<runs, args, rows, buffered, status, raised, full, signals,
                   report, manifest, code, lost>>

\* --overwrite: the three files go one after the other.
Unlink ==
    /\ \/ /\ step = "unlink rows" /\ gens' = NoGens /\ step' = "unlink report"
          /\ UNCHANGED <<report, manifest>>
       \/ /\ step = "unlink report" /\ report' = 0 /\ step' = "unlink manifest"
          /\ UNCHANGED <<gens, manifest>>
       \/ /\ step = "unlink manifest" /\ manifest' = NoManifest /\ step' = "inputs"
          /\ UNCHANGED <<gens, report>>
    /\ UNCHANGED <<runs, args, rows, buffered, status, raised, full, signals, code, lost>>

\* The files are read, restricted to the development subset and reconciled, and
\* the key preflight passes; or one of them raises.
ReadInputs ==
    /\ step = "inputs"
    /\ (step' = "open" /\ UNCHANGED code) \/ Leave("error")
    /\ UNCHANGED <<runs, args, rows, buffered, status, raised, full, signals, files, lost>>

\* write_run_manifest, before anything is loaded.
FirstManifest ==
    /\ step = "open"
    /\ \/ /\ ~ full
          /\ manifest' = [run |-> runs, status |-> "running", rows |-> 0, reason |-> "none"]
          /\ step' = "opened" /\ UNCHANGED code
       \/ full /\ UNCHANGED manifest /\ Leave("error")
    /\ UNCHANGED <<runs, args, rows, buffered, status, raised, full, signals, gens, report, lost>>

EnterTry ==
    /\ step = "opened"
    /\ step' = "observe"
    /\ UNCHANGED <<runs, args, rows, buffered, status, raised, full, signals, files, code, lost>>

-----------------------------------------------------------------------------
(* Under the try. *)

InTry == {"observe", "load", "create", "generate", "checkpoint", "close",
          "assess", "report", "validate", "announce"}

\* Mutant: the failure is recorded and forgotten.
Swallow(why) == step' = "finally" /\ raised' = "none"

\* except BaseException: the reason is kept and the exception goes on.
Raise(why) == step' = "finally" /\ raised' = why

\* The tokenizer run; its BOS is recorded at once and a mismatch is refused.
\* Without prompts there is nothing to observe.
Observe ==
    /\ step = "observe"
    /\ \/ args.prompts > 0 /\ full /\ Raise("OSError")
       \/ ~ (args.prompts > 0 /\ full) /\ step' = "load" /\ UNCHANGED raised
       \/ args.prompts > 0 /\ ~ full /\ Raise("BosHandlingMismatch")
    /\ UNCHANGED <<runs, args, rows, buffered, status, full, signals, files, code, lost>>

\* The model and its adapters load, or a checkpoint is missing.
LoadModel ==
    /\ step = "load"
    /\ (step' = "create" /\ UNCHANGED raised) \/ Raise("FileNotFoundError")
    /\ UNCHANGED <<runs, args, rows, buffered, status, full, signals, files, code, lost>>

CreateRows ==
    /\ step = "create"
    /\ gens' = [run |-> runs, rows |-> <<>>]
    /\ step' = IF ExpectedRows = 0 THEN "close" ELSE "generate"
    /\ UNCHANGED <<runs, args, rows, buffered, status, raised, full, signals,
                   report, manifest, code, lost>>

\* A row is generated, scored and appended in memory; or generate raises.
GenerateRow ==
    /\ step = "generate"
    /\ \/ rows' = Append(rows, PairAt(Len(rows))) /\ step' = "checkpoint" /\ UNCHANGED raised
       \/ Raise("RuntimeError") /\ UNCHANGED rows
    /\ UNCHANGED <<runs, args, buffered, status, full, signals, files, code, lost>>

\* What the disk holds of a line it had no room for.
Torn == <<"torn">>

\* Mutant: rows are written when the run is over.
CheckpointLate ==
    /\ step = "checkpoint"
    /\ gens' = IF Len(rows) = ExpectedRows THEN [gens EXCEPT !.rows = rows] ELSE gens
    /\ step' = IF Len(rows) = ExpectedRows THEN "close" ELSE "generate"
    /\ UNCHANGED <<runs, args, rows, buffered, status, raised, full, signals,
                   report, manifest, code, lost>>

\* checkpoint(row): write, flush and fsync.
Checkpoint ==
    /\ step = "checkpoint"
    /\ \/ /\ ~ full /\ gens' = [gens EXCEPT !.rows = Append(@, rows[Len(rows)])]
          /\ step' = IF Len(rows) = ExpectedRows THEN "close" ELSE "generate"
          /\ UNCHANGED <<raised, buffered>>
       \/ /\ full /\ gens' \in {gens, [gens EXCEPT !.rows = Append(@, Torn)]}
          /\ Raise("OSError") /\ buffered' = TRUE
    /\ UNCHANGED <<runs, args, rows, status, full, signals, report, manifest, code, lost>>

CloseRows ==
    /\ step = "close"
    /\ step' = "assess"
    /\ UNCHANGED <<runs, args, rows, buffered, status, raised, full, signals, files, code, lost>>

\* The in-memory checks.  A step given twice leaves fewer pairs than rows.
Assess ==
    /\ step = "assess"
    /\ IF Len(rows) = ExpectedRows /\ Cardinality(Range(rows)) = ExpectedRows
       THEN step' = "report" /\ UNCHANGED raised
       ELSE Raise("SystemExit")
    /\ UNCHANGED <<runs, args, rows, buffered, status, full, signals, files, code, lost>>

WriteRunReport ==
    /\ step = "report"
    /\ \/ ~ full /\ report' = runs /\ step' = "validate" /\ UNCHANGED raised
       \/ full /\ report' \in {0, runs} /\ Raise("OSError")
    /\ UNCHANGED <<runs, args, rows, buffered, status, full, signals, gens, manifest, code, lost>>

\* validate_run_outputs(...)["ok"]: the file, read again.
Valid ==
    /\ Torn \notin Range(gens.rows)
    /\ Len(gens.rows) = Cardinality(Product)
    /\ Range(gens.rows) = Product

Validate ==
    /\ step = "validate"
    /\ IF Valid THEN step' = "announce" /\ status' = "complete" /\ UNCHANGED raised
                ELSE Raise("SystemExit") /\ UNCHANGED status
    /\ UNCHANGED <<runs, args, rows, buffered, full, signals, files, code, lost>>

\* The summary is printed; the end of the try.
Announce ==
    /\ step = "announce"
    /\ step' = "finally"
    /\ UNCHANGED <<runs, args, rows, buffered, status, raised, full, signals, files, code, lost>>

-----------------------------------------------------------------------------
(* The finally clause. *)

\* What the file holds once the rest of a line is there, of which it may have a part.
Ended(lines, row) ==
    IF lines # <<>> /\ lines[Len(lines)] = Torn THEN [lines EXCEPT ![Len(lines)] = row]
    ELSE Append(lines, row)

\* Closing a file tries its buffered bytes again: with the disk still full that
\* raises, past the manifest write below it.
CloseAgain ==
    /\ step = "finally"
    /\ IF buffered /\ full THEN Leave("OSError") /\ UNCHANGED gens
       ELSE /\ step' = "finalize" /\ UNCHANGED code
            /\ gens' = IF buffered THEN [gens EXCEPT !.rows = Ended(@, rows[Len(rows)])] ELSE gens
    /\ UNCHANGED <<runs, args, rows, buffered, status, raised, full, signals,
                   report, manifest, lost>>

ExitCode == IF raised = "none" THEN "ok" ELSE raised

\* Mutant: a run that reached its end is called complete.
FinalizeByCount ==
    /\ step = "finalize"
    /\ manifest' = [run |-> runs, rows |-> Len(rows), reason |-> raised,
                    status |-> IF Len(rows) = ExpectedRows THEN "complete" ELSE "incomplete"]
    /\ Leave(ExitCode)
    /\ UNCHANGED <<runs, args, rows, buffered, status, raised, full, signals, gens, report, lost>>

\* _finalize_manifest and the last write, which only warns when it fails.
Finalize ==
    /\ step = "finalize"
    /\ lost' = full
    /\ manifest' = IF full THEN manifest
                   ELSE [run |-> runs, status |-> status, rows |-> Len(rows), reason |-> raised]
    /\ Leave(ExitCode)
    /\ UNCHANGED <<runs, args, rows, buffered, status, raised, full, signals, gens, report>>

-----------------------------------------------------------------------------
(* What happens around it. *)

Live == step # "ended"

\* _raise_on_sigterm.  Under the try the exception is caught and kept; before
\* it, and in the finally clause, it ends the process.  Between the write and
\* the flush of a row it leaves the row in the file's buffer.
Terminate ==
    /\ Live /\ signals < MaxSignals
    /\ signals' = signals + 1
    /\ IF step \in InTry THEN Raise("_Terminated") /\ UNCHANGED code
                       ELSE Leave("_Terminated") /\ UNCHANGED raised
    /\ buffered' \in {buffered, buffered \/ step = "checkpoint"}
    /\ UNCHANGED <<runs, args, rows, status, full, files, lost>>

\* A hard kill: no handler run.
Kill ==
    /\ Live
    /\ Leave("killed")
    /\ UNCHANGED <<runs, args, rows, buffered, status, raised, full, signals, files, lost>>

\* Somebody else on the volume takes or gives back the last block.
Space ==
    /\ Live
    /\ full' = ~ full
    /\ UNCHANGED <<runs, args, step, rows, buffered, status, raised, signals, files, code, lost>>

BfclNext ==
    \/ StartRun \/ RefuseStale \/ CheckStale \/ Unlink \/ ReadInputs \/ FirstManifest
    \/ EnterTry \/ Observe \/ LoadModel \/ CreateRows \/ GenerateRow \/ Checkpoint
    \/ CloseRows \/ Assess \/ WriteRunReport \/ Validate \/ Announce \/ CloseAgain
    \/ Finalize \/ Terminate \/ Kill \/ Space

BfclSpec == BfclInit /\ [][BfclNext]_BfclVars

-----------------------------------------------------------------------------
(* Properties. *)

\* What the variables hold.
BfclTypeOK ==
    /\ runs \in 0 .. MaxRuns /\ args.prompts \in 0 .. Prompts
    /\ Len(rows) <= ExpectedRows
    /\ gens.run \in 0 .. runs /\ report \in 0 .. runs
    /\ manifest.run \in 0 .. runs
    /\ manifest.status \in {"absent", "running", "incomplete", "complete"}
    /\ buffered => raised = "OSError" \/ signals > 0

\* "A directory holding a mix of old and new siblings can describe a run that
\* never actually happened": whatever ends a run, the files that hold bytes are
\* of one run.
OneRunPerDirectory ==
    \A f, g \in {IF gens.rows = <<>> THEN 0 ELSE gens.run, report, manifest.run} \ {0} :
        f = g

\* A manifest that says complete is backed by the file: until somebody discards
\* it, the rows beside it are every prompt under every candidate, once, whole.
CompleteIsBacked ==
    manifest.status = "complete" /\ gens.run = manifest.run =>
        /\ Torn \notin Range(gens.rows)
        /\ Cardinality(Range(gens.rows)) = Len(gens.rows)
        /\ Len(gens.rows) = manifest.rows
        /\ manifest.run = runs => Range(gens.rows) = Product

\* Exit 0 only for a run whose evidence is whole; and unless the last write was
\* warned about, the manifest it leaves says so.
GreenExitHasEvidence ==
    code = "ok" => /\ gens.run = runs /\ Range(gens.rows) = Product
                   /\ report = runs
                   /\ lost \/ (manifest.run = runs /\ manifest.status = "complete")

\* Rows that were paid for are on disk when the next is generated, and leave it
\* only when somebody asked for that.
KeepsPaidRows ==
    /\ Len(gens'.rows) < Len(gens.rows) => args.overwrite
    /\ step = "generate" => gens.rows = rows
PaidRowsStay == [][KeepsPaidRows]_BfclVars

\* "Every point below must be covered by the try/except/finally that finalizes
\* the manifest": no exception leaves a manifest that still says running, unless
\* its last write failed and was warned about.
EveryExceptionFinalizes ==
    ~ Live /\ code \notin {"none", "refused", "killed"} /\ ~ lost =>
        ~ (manifest.run = runs /\ manifest.status = "running")
=============================================================================
