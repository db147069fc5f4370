# llama-tools, specified

TLA+ models of the parts of llama-tools that keep state across crashes, spend
money on a metered pod, or decide what counts as evidence; TLC runs over small
instances of them; and TLAPS proofs, for instances of any size, of the safety properties
that the passing runs check.

File and line references are to this repository.

## The system

llama-tools trains and evaluates a tool-calling adapter for Llama 3.1 8B. Most
of it is straight-line Python: assemble data, call a training library, compute
statistics. The parts with behaviour worth specifying are the ones that run on
a rented GPU, can be killed at any moment, and must not lose or double-count
what they have paid for.

| component | state it keeps | operations | hard behaviour |
|---|---|---|---|
| mining ledger, `mining/ledger.py` | a chain of JSONL segments | `append`, `redo_last`, reads that verify the chain | crashes inside a write; rotation; rollback that stops half-way |
| mining stage, `mining/mine_pairs.py` | `run.json`, the ledger, three derived files | mine a stage, resume it, roll back, derive | relaunch after any crash; a snapshot of what is paid for; rollback beside a miner |
| mining backend, `mining/backend.py` | `run.lock` | bind, load, sample | a lock left by a dead process |
| mining launcher, `scripts/launch_mining_stage.py` | session ledger, launch lock | run one session under `timeout` | killed launchers, orphaned children, sessions nobody closed |
| probe launcher, `scripts/launch_probe.sh` | `invocations/<id>/`, the log | checkout, acquire, verify, ladder, two generations, EXIT trap | one deadline for all billed commands; SIGKILL; reused ids; corrupted fixtures |
| probe monitor, `scripts/probe_liveness.sh` | status file | watch one pid, read the log's last record | reads that race with the exit; records of other runs |
| isolation ladder, `eval/isolation_ladder.py` | summary, telemetry | four rungs, abort at the first failure | death in a rung; writes that fail and are passed over |
| BFCL generation, `eval/bfcl_simple.py` | `generations.jsonl`, `report.md`, `run_manifest.json` | generate, score, validate, finalise | SIGTERM, SIGKILL and a full disk between any two writes; a second run in the directory |
| fixture acquisition, `eval/fetch_pinned_bfcl.py` | pinned files, backups | download, verify, replace, back up, hold keys against questions | a kill inside any of the copies; manifests that declare too little |
| pod bootstrap, `scripts/bootstrap_pod.sh` | receipts, the checkout, the environment | check the pod, verify a bundle, install, write receipts | receipts of earlier attempts; pods that stop at any step |
| verifier and pairing, `mining/verifier.py`, `mining/mine_pairs.py` | the ledger's records, the summary | judge a generation, take a pair, decide the next stage | generations of any shape; rollbacks after the decision |
| pool and decontamination, `mining/pool_strata.py`, `mining/decontaminate*.py` | a receipt, the artifact, the pins | preflight, screen, derive the population again | files edited between commands and under them |
| development subset, `mining/dev_subset.py`, `eval/dev_subset_gate.py` | a receipt, its pin | choose, commit, gate, restrict | ties in the allocation; files edited after the gate |
| answer-key comparison, `eval/answer_key_comparison.py`, `eval/bfcl_scoring.py` | a report | score one sweep under two keys, say what depends on the choice | inputs that are read more than once |
| data pipeline, `data/` | five files of examples and pairs | assemble, dedupe, clean, perturb, validate | scripts run again over older files |
| failure sampling, `data/sample_failures.py`, `data/build_dpo_v2_pairs.py` | an append-only file of candidates | sample, resume, build pairs | a kill between a marker and its rows; a torn last line |
| telemetry, analysis, training, repository checks | none of their own | calls into libraries, statistics, reports | none that a model of them would reach |

How they interact: `launch_mining_stage.py` starts `mine_pairs.py` as a child
under `timeout`; that goes through `backend.py` (lock, then `run.json`, then the
model) and into the stage loop, which appends to the ledger and derives files
from it. A rollback is another process on the same directory, without the lock.
`launch_probe.sh` starts the fixture tool, the ladder and the generation tool
one after another; `probe_liveness.sh` watches it from outside, by pid and by
the last record of a log that several invocations share. Before all of that
`bootstrap_pod.sh` prepares the pod, and the pool's commands leave the artifact
the stage derives its population against. The other programs meet through
files only: each is started by hand, some time after the one whose files it
reads, and those files may have been edited or half written in between.

What makes each of them correct: the ledger never loses returned work, never
counts a prompt twice and can always be read; a stage never pays twice and gets
done when relaunched; no child outlives its allowance; no evidence directory
has two writers; a verdict about a process is about that process; a file that
says complete, verified, pinned, or decided is right about the bytes it speaks
of, whatever was killed, edited or run again since.

## Modules

| module | models | notes |
|---|---|---|
| `WorkLog` | what the ledger promises: entries with stamps, recorded once, retired on request | abstract; no file in sight |
| `LedgerDisk` | the bytes on disk and what a reader makes of them | operators only |
| `Ledger` | `mining/ledger.py`, one process that dies and restarts | implements `WorkLog` |
| `Mining` | one stage directory: miners, rollbacks, the operator, crashes | composes `LedgerDisk`, `backend.py` and `mine_pairs.py`; implements `WorkLog` |
| `Totals` | a Python `sum` | one operator, a recursive function of the index |
| `LaunchEnvelope` | `launch_mining_stage.py` | several launchers, orphaned children; extends `Totals` |
| `Probe` | `launch_probe.sh` and `probe_liveness.sh` | several launchers, one log, one monitor |
| `Ladder` | `isolation_ladder.py` | one directory, several runs in it |
| `BfclRun` | `bfcl_simple.py`: one generation run after another in one `--out-dir` | |
| `Fixtures` | `fetch_pinned_bfcl.py` | several fetches over one volume |
| `Bootstrap` | `bootstrap_pod.sh` | several attempts over one volume |
| `Turns` | what an assistant turn says, to `pool_strata.py` and to `verifier.py` | operators only; the syntax both parsers look at |
| `Yield` | what a stage makes of its ledger: allocation, verdicts, pairs, the gate; rollbacks and derivations killed between any two writes | extends `Turns` |
| `Pool` | preflight, screen, and the population the stage derives again | extends `Turns` |
| `Scoring` | `bfcl_scoring.py` | operators only |
| `KeyChoice` | `answer_key_comparison.py` | extends `Scoring` |
| `Subset` | the choice of the development subset, its gate, what is scored | extends `Totals` |
| `Preferences` | the five scripts of the first preference round | |
| `Sampling` | the sampler and the pair builder of the second | |
| `LedgerDiskProofs`, `LedgerProofs`, `MiningProofs` | lemmas about the disk; theorems about `Ledger` and `Mining` | checked by TLAPS |
| `ProbeProofs` | theorems about `Probe` | checked by TLAPS |
| `PodProofs` | theorems about `Bootstrap`, `Fixtures`, `Ladder` and `BfclRun`, in four parts | checked by TLAPS |
| `AllowanceProofs` | lemmas about sums; theorems about `LaunchEnvelope` and `Subset` | checked by TLAPS |
| `DataProofs` | theorems about `Preferences` and `Sampling` | checked by TLAPS |
| `DecisionProofs` | theorems about `Pool`, `KeyChoice` and `Yield` | checked by TLAPS |
| `MC*` | model values, symmetry, instances for TLC | `MCPrograms` holds eleven programs |

### LedgerDisk and Ledger

A segment is a sequence of lines. A line is a whole record or `Garbage`, and it
knows whether its newline is there, because the next `open(path, "a")` continues
a line that has none (`Written`). Each check of the reader is an operator named
for it: `Parses` (`_parse_segment`), `SealsOK` (`_verify_segment` and the check of
the base segment), `SeqsOK` (`_verify_seqs`), `ControlsOK` (`_verify_controls`);
`Verified` is `_read_records` returning. SHA-256 is taken as injective, so a
header holds the contents it sealed.

In `Ledger` a call is a set of records still to commit (`pending`). `_commit` is two
actions, because a crash can fall between them: `SealAndRotate` (the torn
segment is sealed and its successor linked into place, which is atomic) and
`WriteLine`. `CrashInWrite` leaves what `Remains` says: a prefix of the JSON, or
all of it without the newline, as the constant `Tears` allows. `returned` is a
history variable: what callers were told is durable.

### Mining

One stage directory at the grain of system calls: `_active_segment`, `_next_seq`
and `_write_line` of one `_commit` are three actions, so two processes can
interleave inside it. `paid` and `faults` are histories and bounds.
`Alongside` says whether a rollback may run beside another process. Nothing in the
code prevents that; the passing runs assume the operator does, the run
`mining_alongside` shows what happens otherwise. `BindCrash` says whether a crash
may fall between the creation of `run.json` and its contents.

### LaunchEnvelope

The clock counts ticks, `Second` of them to a second, because the allowance is a
float and its truncation matters. A launcher may be killed alone (`LauncherDies`); its
child goes on under `timeout`. One that is interrupted alone (`Interrupt`) kills
`timeout` itself on its way out: `subprocess.run` does so with a child it did not see
end, the `finally` closes the session, and the miner goes on without a cap
(`scripts/launch_mining_stage.py:132`). The constant `Interrupts` says whether that may
happen. `Charge` is what one session counts for in `elapsed_before`, as recorded if it was
ended and until now if it was not. `busy` counts the ticks during which some child
ran: the quantity the allowance is about. `EnvelopeHolds` speaks of stages in which no
child was without a cap, which `timeout 0` and that interrupt both bring about:
then nothing ends the child, and the code promises nothing.

### Probe

A launcher's plan is the function `Then`; every step has its failure
(`StepFails`, `RefuseBilled`, `Collect`) that goes to the EXIT trap, whose two
writes (`WriteFooter`, `WriteRecord`) are separate actions. The monitor's
`check_once` is two: the scan of the log and the `kill -0`. `leaf` records which
launcher wrote each file, so that a shared directory would show. Not modelled:
`--dry-run` (changes nothing), `--allow-legacy-footer`, the marker scan and the
status file's layout; pids are not reused.

### Ladder

`pc` follows `run_ladder` through the phases of a rung; `results` is what the
process knows, `disk` what the summary file says, and the two differ after a
progress write that raised, which the code passes over (`Progress`). `Fault` is any
of the four phases raising; it aborts the ladder. `refs` holds what in the frame
keeps the weights alive: on rung 3 the context factory is a bound method of the
model. `Die` is a hard death, and `Start` another run in the same directory: the
launcher never reuses one, standalone use (`docs/probe-bootstrap.md:214-217`)
does. Writes are atomic (`write_json_atomic`), so a death leaves the old or the
new summary. Telemetry is not modelled: its failures are caught.

### BfclRun

`step` follows `main`. `rows` is the list in memory, `gens` what the file holds,
`buffered` whether the file object still has bytes that a full disk refused:
its `close` in the `finally` block flushes them again. `status` and `raised` are
`run_status` and the exception under way; `Terminate` is SIGTERM, which raises at
the next statement, `Kill` leaves everything where it is, `Space` fills the disk
or frees it. A checkpoint (write, flush, fsync) is one action with three
outcomes: the row is there, a torn one is, or nothing is. `lost` remembers that
the last manifest write was warned about, which the code does on purpose. When the
buffer is flushed after all, the row that it cut short is made whole (`Ended`).
`PaidRowsStay` is an action property: what is on disk when the next row is generated
is what was generated, and the file gets shorter only with `--overwrite`.

### Fixtures and Bootstrap

A fixture's content is one value and a digest is that value. Each file goes
through `ReadFile`, `VerifyHere`, `Replace` (atomic), `Backup` (`copyfile`, which a kill
leaves half done) and `Copied` (the read-back); then `Preflight` holds every key
against its questions. `Meddle` is anybody else's change of a file between two
fetches. In `Bootstrap` an action is a step of the script with all its
ways to fail; `Stop` is the pod going away, which takes the container disk and
leaves the receipts; `Begin` is another attempt, perhaps for another commit.

### Turns, Yield and Pool

A turn is abstracted to what the two parsers look at: whether there are markers,
which blocks there are, and whether each parses as JSON, as a Python literal
or not at all. `Meaning` is the reference reading of a turn, which the
properties compare with. `Yield` keeps the ledger as a sequence of records (its
segments are `Ledger`'s, processes beside each other are `Mining`'s) and applies
allocation, `verify`, pairing, `summarize`, the gate and Amendment 5 to it; `live` is
the history of what is in effect. One process runs at a time, and `doing` says
where it is: a run mines prompt by prompt and goes to its `finally` clause, at the
end or when the generator raises (`SamplingFails`); a rollback appends its
tombstones one by one (`StartRedo`, `Retire`); both then derive (`Derive`, where a thin
split cell raises) and replace three files one after the other (`WriteDerived`, in
`WriteOrder`). `KillStage` is a kill between any two of these. `derived` is what the files
say, and `unsettled` the history that records were retired and no derivation has
returned since. In `Pool` each command reads its files in the order of the code,
one action per reading that an edit could fall between (`BuildStart`,
`BuildScreen`, `BuildWrite`; `LoadVerify`, `LoadScreen`), and `Edit` changes any file at any
time, at most `MaxSlips` times under a running command.

### Subset, Scoring and KeyChoice

`Subset` writes the receipt from the files of that moment (`WriteReceipt`: the
shares of the buckets by largest remainder, exact where the code's are floats),
pins it, and follows `bfcl_simple.py` loading its files before the gate reads
them again. A row is its index in its file, because two rows may have one id;
`NoSubset` and `Half` are a receipt that is not there and one cut short. `Scoring` is the scorer, with `Correct` as its reference.
`KeyChoice` reads manifest and generations as often as the code does, with
`Swap` in between, and writes a report or gives up.

### Preferences and Sampling

The scripts of `Preferences` run in any order over files of any age; a kill leaves
a part of the rows or a torn one (`Written`). What is chosen at random in the code
is chosen freely. In `Sampling` `todo` and `batch` are sets of positions in the training
split, taken from the front, because the sampler goes through it in order;
`joined` says that the file's last line lacks its newline, and `pending` holds the
lines still in the buffer. `KillSampler` leaves the file as it is, or adds the first
pending line, torn or without its newline. `ComesFirst` is the order in which the
builder looks at a prompt's failures: by `severity`, and as in the file where that is
equal, since `sorted` is stable.

## Runs

| run | asks | result |
|---|---|---|
| `ledger_crash` | crashes that leave fragments: does every state read back, keep what it returned, count a prompt once, implement `WorkLog`? | holds |
| `ledger_lost_newline` | with lost newlines, is returned work still durable? | **violated** |
| `mining_disciplined` | two miners, a rollback, crashes anywhere: is anything sampled twice or out of date, is the stage still the `WorkLog`? | no; it is |
| `mining_resume` | does a stage that is relaunched get done? | holds |
| `mining_torn_identity` | also when a crash falls inside the binding of `run.json`? | **violated** |
| `mining_alongside` | do tombstones reach the derivatives when a rollback runs beside a miner? | **violated** |
| `launch_uncapped` | is every child capped? | **violated** |
| `probe` | billing, evidence, verdicts with two launchers, a kill or a corruption anywhere | holds |
| `probe_false_alarm` | is a hard death reported only of a process without an account? | **violated** |
| `programs` | the eleven programs that share nothing while they run: is the evidence each leaves what it says it is? | it is |
| `bfcl_full_disk` | does every exception leave a finalised manifest? | **violated** |
| `verifier_refuses` | is a generation never a refusal? | **violated** |

The violated ones, in the order of the table:

* **A lost newline loses returned work.** The record and its newline go out in
  one write. A crash that keeps all of it but the newline leaves a line that
  parses; the segment is not sealed and the next record is written onto that
  line. That next `append` returns, and its line does not parse: the record it
  acknowledged and the one before are gone (`mining/ledger.py:411-420`). A rollback can
  do worse: with `ChainVerifies` as its invariant the same instance shows a `redo_last` of
  two, the later record without its newline. The first tombstone lands on that line; the
  segment is sealed, and the header of the next one takes the seq that has become free. The
  second tombstone names that seq, which is no work record any more, and every later read
  raises (`mining/ledger.py:563-575`, `_verify_controls`).
* **A crash while binding wedges the stage.** `run.json` exists before it holds
  anything; after a crash there every relaunch fails in `json.loads`
  (`mining/mine_pairs.py:585-596`), although the playbook says to rerun the same
  command (`docs/HANDOFF.md:357`).
* **A rollback beside a miner is undone in the derivatives.** `redo_run` takes no
  lock; the miner's last writes come from a reading before the tombstone.
* **`timeout 0`.** With less than a second left the cap is `str(int(remaining))`,
  which is `0`, which is no cap.
* **An orderly exit reported as a hard death.** The log is scanned before the
  process is probed; a launcher that writes its record and exits in between is
  reported `DIED HARD`.
* **A full disk leaves the manifest running.** A checkpoint fails and leaves its
  bytes in the buffer; `gen_file.close()` in the `finally` block flushes them, raises
  again, and the last manifest write after it is never reached
  (`eval/bfcl_simple.py:816-817`).
* **A generation ends the stage.** A call that only Python reads, with an
  argument JSON cannot write (a set), passes the parser; `_canonical` raises on
  it, and nothing between there and the stage's loop catches that
  (`mining/verifier.py:145`, `mining/mine_pairs.py:704-714`).

### One run, eleven programs

`MCPrograms` checks `Ladder`, `LaunchEnvelope`, `BfclRun`, `Fixtures`, `Bootstrap`,
`Subset`, `Preferences`, `Sampling`, `Pool`, `Yield` and `KeyChoice`: programs that are never
run against each other's memory, so the product of their states would say
nothing. The first state chooses one (`program`), and only that one's actions are
enabled; the others stay as they start (`Runs`). All are extended, so each keeps
its own variables and constants, and the definitions that are checked are the
ones the proofs use. What the modules assume of their constants is
`ProgramsAssumption`, which TLC evaluates.

What its properties say, and what each stands against:

| program | property | what could go wrong |
|---|---|---|
| ladder | `PassIsEarned`, `ResidueTellsWhere`, `VerdictIsFirstFault`, `OneModelAtATime` | a death or a lost write read as a pass, or blamed on another rung; two models on the card |
| launcher | `EnvelopeHolds` | orphans, overlapping sessions and unreadable ledgers that add up to more than the allowance |
| BFCL run | `OneRunPerDirectory`, `CompleteIsBacked`, `GreenExitHasEvidence`, `PaidRowsStay` | siblings of two runs; complete said of fewer rows; paid rows lost |
| fixtures | `FetchVouches`, `OnlyPinnedReplaces` | a half-written backup trusted; a key nobody held against anything; a bad download put in place |
| bootstrap | `LaunchReadyIsReviewed`, `FailsClosed` | a stale receipt of another commit; anything done before the cap or the bundle's verification |
| pool | `MinedIsScreened` | an edit, a torn receipt or a superseded artifact that lets an unscreened row be mined |
| yield | `PairsArePreferences`, `DecisionStands` | a pair that prefers the wrong answer; a decision out of a part, beside the pairs of another reading, or that outlives its records |
| subset | `SubsetIsProportional`, `ScoredIsPinned` | a skewed subset; an edit after the gate |
| answer keys | `ReportsSupportClaims` | a report whose claims are about other bytes than it scored |
| preferences | `TaughtIsWrong` | a perturbation that changes nothing, over old files |
| sampling | `OneSamplingPerPrompt`, `HardestAreKept` | a resumed prompt counted twice; a cap that drops the failures that matter |

### Bounds

| run | instance | why it is enough |
|---|---|---|
| `ledger_*` | 3 prompts, 6 seqs, rollback of up to 2 | six seqs hold two rotations, or a rotation, a rollback of two and a re-append |
| `mining_disciplined` | 2 prompts, 2 miners, 1 rollback process, 2 faults, 6 seqs | a crash in each of two consecutive runs, a rollback between, a re-mining |
| `mining_resume` | 3 prompts, 1 miner, 3 faults | a crash at every prompt |
| `launch_uncapped` | half-second ticks | the least that has a remainder below a second |
| `probe` | 2 launchers, 2 ids, deadline 2, provider 4, 1 fault | each launcher can start a billed command late, be killed in it, and meet the other's records |
| `bfcl_full_disk` | as the BFCL run below, without signals | a full disk needs no help |
| `verifier_refuses` | as the yield program below, with a set literal for one of the generations | one such generation is enough |

and of the programs of `programs`:

| program | instance | why it is enough |
|---|---|---|
| ladder | the 4 rungs there are, 2 runs in one directory | all of one run, and one that starts on what it left |
| launcher | 2 launchers, 2 s allowance, 1 s grace, 2 kills or interrupts, 3 sessions, clock to 4 | a killed launcher, its orphan, and two further sessions that overlap it; one second more than the allowance and the grace, so that an excess would show |
| BFCL run | up to 2 prompts, no checkpoint, one, or the same one twice, 2 runs, 2 signals | a second run over what the first left; a signal while another is handled |
| fixtures | 3 contents, up to 3 files, 21 manifests, 2 fetches | a good and a bad key, with and without its questions, well and badly declared |
| bootstrap | 2 commits, 2 bundles, 2 attempts | a second attempt for another commit, over the receipts of the first |
| pool | 6 rows in 2 versions and a bad one, 2 manifests, 1 edit under a command | every reason to keep a row and to refuse it, two at once |
| yield | 3 multi and 2 single survivors, of whom 3 are mined, 2 samples, 2 or 3 kinds of generation for each prompt, rollbacks of 1 or 2, 5 lines in the ledger, 1 kill or failed sampling | every bucket; a rollback of one or two before and after the decision, killed between its tombstones or between two files, and a re-mining |
| subset | 2 of 5 items in 3 buckets, 1 edit under a run | a remainder that goes to one bucket and not to another, a tie, a duplicate |
| answer keys | 2 items, 2 candidates, 3 keys, 5 sweeps, 1 edit | each of the report's reasons to give up |
| preferences | 4 examples, 1 of another source, 5 commands | the chain once, and one of its scripts again over the old files |
| sampling | 2 prompts in a batch, one of them excluded, 3 samples each, 3 failures of which 2 are as severe, a cap of 2, 3 starts | a kill in each of two starts and a third that resumes; more failures than the cap, with and without a tie |

`CHECK_DEADLOCK FALSE` is set where the system may stop for good: a bound on seqs,
time, sessions, runs or faults is used up, or every process has ended.

### Fairness

`mining_resume` needs: a running process goes on running (`WF` of `ProcStep`); the
operator relaunches the stage and clears the lock of a process known dead, as
the messages of `RunLock` and the runbook ask. Crashes are not fair and are
bounded. `DeathIsReported` needs only that the monitor's own loop goes on (`WF` of
its two steps), which is what `while true` with no blocking call gives. Nothing
is assumed of a launcher: it may stop anywhere.

## Proofs

What follows is proved for every value of the constants that the named
assumptions allow; TLC evaluates those assumptions on each instance it checks, and
it checked each invariant before its proof was written.

| component | theorems | assumes, besides the shape of the constants |
|---|---|---|
| ledger | `TypeCorrect`, `SegmentsStaySealed` | |
| | `ChainAlwaysVerifies`, `PromptCountedOnce`, `ReturnedWorkIsDurable`, `LedgerImplementsWorkLog` | a crash leaves fragments |
| mining stage | `StageReadsBack`, `SamplesAreNew`, `FreshMeansEmpty`, `DerivativesAgree`, `KillCostsOnePrompt`, `StageImplementsWorkLog` | no rollback beside a miner |
| mining launcher | `LaunchesWellTyped`, `StageStaysInEnvelope` | |
| probe | `BilledStops`, `LeavesAreApart`, `EndsAreReal`, `ReceiptBeforeSuccess`, `PaidOnVerified` | |
| ladder | `LadderTypes`, `AllPassedIsEarned`, `BranchIsFirstFault`, `DeathLeavesItsRung`, `CardHoldsOne` | |
| pod | `ReadyMeansReviewed`, `NothingBeforeItsGate` | |
| fixtures | `OkIsVouchedFor`, `BadDownloadsStayOut` | |
| generation run | `FilesAreOfOneRun`, `CompleteIsReadBack`, `ExitZeroIsEvidence`, `PaidRowsAreKept`, `RunsWellTyped` | |
| pool | `OnlyTheScreenedAreMined` | one edit at most under a running command; no tool without a name |
| answer keys | `ReportsAreSound` | |
| yield | `PairsPrefer`, `TheDecisionStands` | |
| development subset | `CommittedSubsetIsProportional`, `OnlyTheCommittedIsScored` | the buckets do not overlap; the digests of two ids differ |
| preferences | `WhatIsTaughtIsWrong` | a query is a duplicate of itself |
| failure sampling | `PromptsAreSampledOnce`, `TheHardestAreKept` | a prompt is once in the training split |

### The ledger

`LedgerProofs` proves, for every set of prompts and every bound:

* `TypeCorrect`: the disk keeps its shape.
* `SegmentsStaySealed`: no line is unreadable before the end of its segment, seals
  match, seqs increase, whatever a crash leaves, lost newlines included. No run lists it: with
  fragments it is a part of `ChainVerifies`, and the case of its own is the proof's.
* `ChainAlwaysVerifies`, `PromptCountedOnce`, `ReturnedWorkIsDurable`: the reader
  never raises; a prompt counts once; returned work stays. These three assume
  `Tears \subseteq {"fragment"}`, and the run `ledger_lost_newline` shows why the
  last one must.

The argument. `SealsAndSeqsHold` is not inductive: a write onto a header without
its newline would break the seal. `Whole` adds that headers are always ended
(they are published whole) and that no seq is above the bound. The lemmas of
`LedgerDiskProofs` say what each change of the disk does to the positions that
parse (one more, one less, the same), and from that to seals, seqs and what is
in effect; `WhereAWriteLands` says that a write is one of those changes.
`SoundInv` adds, for tears that are fragments: every record has its newline
(`AllEnded`), so a write never lands on one; every tombstone is valid; and
`PendingOK`, which relates the call in progress to the disk: a tombstone still to
be written names a record in effect, of a prompt nobody counts on any more, and
a work record still to be written is alone and of a prompt not in effect.
Without `PendingOK` the tombstones and the dedup could not be shown valid at
the moment they land, a crash, a rotation and other tombstones after they were
chosen.

`LedgerImplementsWorkLog` is the refinement. The disk maps to the records in effect
(`EntriesOf`) and the call in progress to what was asked (`Asked`), and
`StepImplements` goes through the steps: landing a work record is `Record`, asking
for a rollback is one step that asks for the latest entries, each tombstone
retires one, a crash interrupts, and rotation is not seen at all. The latest
entries of `WorkLog` are a set of a given size; that both sides mean the same set
takes that the records are finitely many and their seqs distinct.

### The mining stage

`MiningProofs` proves the stage for any miners, rollbacks, prompts, crashes and
relaunches, under `~ Alongside`: the operator does not run a rollback beside
another process. The run `mining_alongside` shows what happens without it; no code
enforces it. `SelectedOnce` says that the rows of a pool have distinct ids: nothing
compares them, but the pool is pinned by its digest (`mining/mine_pairs.py:68`,
`:282`) and the yield counts unique prompts (`:732`).

The invariant is in four parts. `TypeInv`. `AloneInv`: whoever runs holds the
lock, or is the one rollback, so one process runs at a time. `Sound` of the chain: the
same predicate as the ledger's, kept by the same lemmas of `LedgerDiskProofs`,
because the three system calls of a commit, taken together, are the ledger's one. And
for each process what it knows (`QueueOK`, `TargetOK`, `KnowsPaid`, `FreshOK`, `DerivedOK`):
what it looked up before its loop, the segment and the seq it chose, the files
it has written so far, are still right when it uses them. That is what
`NeverResample` needs, which speaks of a set read once and used until the process
ends. `StageReadsBack` is the first use: no read of a stage's ledger raises.

`KillCostsOnePrompt` counts: `PaidInv` says that what was paid for is at most the work
records, the faults so far and the prompts in flight. `StageImplementsWorkLog` says
that the whole directory, with its locks, miners, crashes and relaunches, is one
`WorkLog` to who reads it.

### The allowance

The first part of `AllowanceProofs` is about `Total`, by induction on the index
(`Induction` is for a set of naturals, which the provers can instantiate): a total
exists and grows by its terms, adds, scales, is monotone, and counts the members of
a set and of sets that are apart. The second is the launcher, under
`EnvelopeAssumption` (at least a tick to the second, and bounds that are numbers), for
any launchers, sessions, kills and interrupts.

`StageStaysInEnvelope`: `busy` counts a tick once however many children run in it,
while the ledger charges each session by itself. `CoreInv` has the types, the lock
(`LockInv`: who launches holds it, so one does), what a launcher knows of its own
session (`OwnInv`), and what the lines say of the children (`LinesInv`): one start and
one end at most, no end while the child runs under a cap, and for such a child a
start, at the moment it started. So a child that runs under a cap has an open session, and
every tick adds at least one to `ElapsedBefore`: that is the first conjunct of `BusyInv`,
and holds because an unclosed session is charged until now. Its last one carries the
bound: when a child starts, what is left of the allowance is its cap, and it can
only be spent once; `busy` plus what is left of any running child's cap stays within the
allowance, and `timeout`'s grace comes on top of it. The children of orphaned sessions
need no case of their own.

### The probe

`ProbeProofs` proves, for any launchers, ids, deadline and number of kills, the five
properties of the run `probe` that are not about liveness. `JobInv` relates a billed
command to the clock: it was given what was left of the one allowance, and no more
than its grace has passed since the deadline (`BilledStops`). `LeafInv` says that a
directory's writers are launchers that started, and one to a directory.
`LogInv` says of each record in the shared log that its writer had come that far
and said what became of it; with `MonitorInv` (what the scan took is in the log, and
a verdict comes when its process is gone) it gives `EndsAreReal`, and with
`ReceiptInv` (a ladder-only launcher past its success holds its receipt)
`ReceiptBeforeSuccess`. `HitInv` says that a generation about to start has good
fixtures, unless they were corrupted since the launcher's last billed command
(`PaidOnVerified`, an action property).

### The ladder

The third part of `PodProofs`, under `LadderAssumption`, for any number of rungs and of runs in one
directory. `PositionInv` says what the results are behind, at and ahead of the rung
under way; `HistoryInv` that they are the history: the rungs that passed are
those before the fault. `DiskInv` carries that to the summary, if it is this
run's: what it says passed did pass, a fault it names is the one there was, and up
to the rung under way it equals the results unless a progress write was lost
(`behind`). `CardInv` follows the references that keep
weights alive through fault and teardown.

### The pod

The first part of `PodProofs`, under `BootstrapAssumption` (a bundle holds commits; any number of
attempts): `ReadyMeansReviewed` (what an exit of 0 says of the tree, the environment
and all seven receipts) and `NothingBeforeItsGate` (no change for a dry run or before
the spend cap; nothing unpacked from an unverified bundle). A receipt that an
earlier attempt left looks like one of this attempt, so the property cannot be
read off the receipts. The invariant has one part for each step that
establishes something, guarded by the set of steps after it (`AfterCap` down to
`AfterReviewed`): passing a step adds its fact, and `Stop` and `Begin` leave every
set, so that of an attempt that is over nothing is claimed but what its exit of 0
said: the receipts, and the tree for as long as the container disk is there.

### The fixtures

Its second part, under `FixturesAssumption` (the shape of a manifest; "missing" is no
content): `OkIsVouchedFor` and `BadDownloadsStayOut`. `ProgressInv` says, for each
phase, what is verified and copied of the files before `at`; the copies are
only trusted when they were read back, so a copy that a killed fetch left half
done is no case of its own. The step to the verdict is
`PreflightVouches`: because a manifest with two files of one role in a category is
refused (`Unambiguous`), the payload that the preflight finds by category and role
is the one that was verified (`PayloadOfTheRole`).

### The generation run

The fourth part needs no assumption but for the types (`RunsWellTyped`):
`FilesAreOfOneRun`, `CompleteIsReadBack`, `ExitZeroIsEvidence` and `PaidRowsAreKept` hold
for any prompts, candidates, runs, signals, kills and full disks. The properties speak of files only, and are not inductive: nothing in
them keeps a row from being added to a file that a manifest calls complete.
`DirectoryInv` says from which step on the directory is this run's alone, and which
files the unlinking has left at each of its steps; `RowsInv` ties the file to the
rows in memory; `StatusInv` says that `complete` is assigned over a file just read
back and that no row is written after that; `ManifestInv` carries it over the end
of the run and into the next one, until that one unlinks the rows. `PaidRowsAreKept`
is an action property and needs `AskedInv` besides: the steps that discard a file are
reached with `--overwrite` only, and the file is empty once they are over. That
the close in the `finally` block cannot shorten the file is the lemma `RowsGrow`.
`HeldInv` adds what `RunsWellTyped` takes: no more rows than prompts under candidates,
and bytes in the buffer only after a full disk or a signal.

### What is decided

`DecisionProofs` is about programs that keep little state and compute much. Most of
it are lemmas about what their operators return.

*The pool.* `OnlyTheScreenedAreMined`: the rows a stage derives are exactly those that
may be mined of the pinned pool, whatever is edited between the commands.
`ScreenedIsPopulation` says that the two programs that screen, one to write the
artifact and one to derive the population again, agree with the reference on
every row. `LoadInv` says that one edit under a running command defeats the pin
or the artifact, not both; `MaxSlips <= 1` is needed (see below). `IdsTellRows` takes
the digest of sorted ids to the rows, which needs that ids are distinct in a
pool (`PoolRowsAssumption`). `ToolsAreNamed` is a hypothesis of the theorem: `classify_target`
takes a call without markers for prose when its name is empty
(`_json_call_names` of `mining/pool_strata.py`), so a tool without a name would be
screened as something else than it is.

*The answer keys.* `ReportsAreSound` has no invariant to speak of: a comparison reads
its files one at a time, and `ReportedIsSupported` shows that what it read is
enough for what it says, whichever versions they were. `KeyChoiceAssumption` says
that the files hold tables and that an entry accepts only arguments it orders.

*The yield.* `AcceptedMeansTheSame`: the verifier accepts a generation exactly when it
means what the target means. It pairs calls off greedily, in any order; the
reference compares bags; `SameBagIsMatched` and its lemmas show that a one-to-one
matching of equal calls exists if and only if each occurs equally often.
`PairsPrefer` follows. For `TheDecisionStands`, `AllocationIsWhole` shows that the largest
remainders add up to the prompts asked for (so that "all of them" is a
number that can be reached), `CompleteIsAll` that a count of prompts that equals that
number is the whole calibration. `SummaryInv` says that beside a decision on disk all
three files are what would be derived now, as long as no records were retired without a
derivation that returned since. Mining keeps it because a complete calibration leaves nothing
to mine; a rollback leaves it when its first tombstone lands and restores it with its
last file; `WritingInv` is about a derivation under way (the files it has replaced
are up to date, the summary being the last), and `DoomedInv` about a rollback: what it
has still to retire is in effect, so that each tombstone takes one prompt out of it.

*The development subset.* The third part of `AllowanceProofs`, under `SubsetAssumption`.
`AllocationIs` is about largest remainders, whichever of two equal ones is raised: every
slot is given, and no bucket's share is off by a whole one. That a share is not a
whole one too large needs that a raised bucket has a remainder (step 11 of the
proof): with one that had none, the remainders of the others, each less than the
population, could not add up to the slots that are left. `EarliestAre` says that the `k` earliest
are `k` and come before the others, because ranks are an injection into as many
numbers as there are rows. `PickHasItsShape` puts the two together, and `PinInv`,
that the committed receipt is one such pick (`BuiltFrom`), is all that
`CommittedSubsetIsProportional` takes. `OnlyTheCommittedIsScored` adds `TaskInv`: a run past the
gate holds the committed ids, and questions that are the manifest's own as long as
nothing was edited under it. If something was, `Restrictable` still leaves a one-to-one
relation of ids and rows on both sides (`EachOnce`); if nothing was, the row
of an id is the row that was picked, which is no question of a final set.

### What is taught

`DataProofs` is about the files under `data/`, which may be of any age when they are
read.

*The first round.* `FilesInv` of `WhatIsTaughtIsWrong` has one clause per file, each about that
file alone, since the file it was made from may have been written again: no two
rows of `deduped` are near-duplicates, `prefs` is made of such rows, and so
on. `Perturbed` may return the call it was given (a palindrome reversed, an empty
list emptied), so that what is rejected differs comes from the validation, not from the
perturbation.

*The second round.* `OneSamplingPerPrompt` is not inductive: nothing in it keeps a
prompt that has rows and no marker from being sampled again. `SamplingInv` speaks
of the file with the buffer behind it: as long as the file can be read, every
prompt in it has its marker before its failures (`MarkedFirst`), one start only
(`OneEach`), and the prompts still to come have no line (`Unsampled`). A kill
keeps a first part of those lines, of which all three stay true (`FirstLines`), or makes
the file unreadable, and then `--resume` refuses it. `MarkersTell` says that what a resumed start
looks for, the markers, is enough to find every prompt that has a line. `PairsInv`
is about what was built, possibly while the sampler ran. From one failure to a row
(`OneEach`) follows `TheHardestAreKept`: the builder's order is a strict one on finitely
many rows, so those with fewer than the cap before them are as many as the cap, or all,
and come before the others (`FewestBefore`); that order puts the severe ones first
(`KeptAreHardest`).

### Only model-checked

* `TypesHold` of `MCPrograms` under that name: it is the conjunction of the type
  invariants of three programs, each of which is proved for its own specification
  (`LadderTypes`, `LaunchesWellTyped`, `RunsWellTyped`).
* Liveness (`StageCompletes`, `DeathIsReported`) and `ENABLED`, which are outside the
  provers' reach.
* What the runs expect to be violated: a counterexample is one.

## Not modelled, and the plan

Not modelled, because a model would say nothing: GPU telemetry (it reads and
formats; what it writes is written like `Ladder`'s summary), training (its state
is in the libraries), the repository checks (a lint), the quarantined
`intake/` (superseded and never run), the upload in `push_to_hf.py`, the plots and
reports of the environment. Evaluation analysis is offline statistics over
whole files; two things in it would be worth a look:
`paired_analysis.py` keeps the last of several rows for one item, and
`bfcl_leakage_check.py` reads a cache it may have left truncated.

Left out of parts that are modelled: the verifier's `run_selftest` and the check
of its receipt; the length and malformed-call diagnostics of a stage; the
exposure statistics of the answer-key report; the marker scan, the status
file and `--allow-legacy-footer` of the monitor; the probe launcher's `--dry-run`;
pids are not reused; two generation runs at once in one directory, which
nothing prevents and nobody does.

Known to be outside the properties:

* What a miner spends after an interrupt of its launcher, or `timeout 0`, took its cap:
  `EnvelopeHolds` is about the stages in which neither happened. A Ctrl-C is such an
  interrupt: `timeout` has put itself in its own process group, so only the launcher is
  reached, and SIGKILL, with which `subprocess.run` ends `timeout`, is not passed on.
* A rollback that is killed leaves the old decision on disk, over a ledger that no
  longer supports it, until it is run again or the stage is; a derivation that raises on
  a thin split cell (`mining/mine_pairs.py:941`) leaves it after that too. `DecisionStands` is
  about the decision at all other times.
* Equal remainders of the subset's allocation may be ordered by float noise
  (`mining/dev_subset.py:133`): `SubsetIsProportional` allows either order.
* The digests in the answer-key report are of other readings than the rows that were
  scored (`eval/answer_key_comparison.py`): `ReportsSupportClaims` is about what was scored.
* An edit under a generation run that keeps the ids is scored: `ScoredIsPinned` then
  promises the ids only.
* `Probe` kills a launcher with SIGKILL only, and takes the reading of the clock and the
  start of `timeout` for one step (`scripts/launch_probe.sh:538`, `:560`); its log is
  read whole, where `probe_liveness.sh` looks at the last 200 lines.
* `Pool` has one stratum for a prompt. With several system messages
  `mining/pool_strata.py:238` looks at the first and `mining/mine_pairs.py:194-198` at all
  of them.
* `Subset.WriteReceipt` is one step, although `mining/dev_subset.py:207` reads the
  manifest again.
* The download of the fixtures is not bounded by the probe's allowance, and a
  shutdown reserve below 30 s is shorter than the grace its commands get
  (`scripts/launch_probe.sh:560`, `:909`).
* `build_artifact` reads the manifest again for its digest: two edits under one
  command, which `MaxSlips = 1` excludes, defeat `MinedIsScreened`.

Next, if the code grows: the offline analysis named above, and the size of the
interval between a launcher reading the clock and starting its child, which
`LaunchEnvelope` takes to be less than a tick.
