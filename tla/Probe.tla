------------------------------- MODULE Probe -------------------------------
(***************************************************************************)
(* The paid probe on a pod: scripts/launch_probe.sh, one process per       *)
(* invocation, and scripts/probe_liveness.sh, the monitor that watches one *)
(* of them by its pid.  All invocations append to one log, the case the    *)
(* monitor's pid check is there for.                                       *)
(*                                                                         *)
(* Time is in seconds, as `date +%s` gives it.  A launcher can be killed   *)
(* with SIGKILL at any point; its billed command then goes on under        *)
(* `timeout`, with nobody to wait for it.                                  *)
(***************************************************************************)
EXTENDS Integers, Sequences, FiniteSets

CONSTANTS Launchers,  \* launcher processes, each with a pid of its own
          Ids,        \* --invocation-id values
          Deadline,   \* --deadline-epoch
          Provider,   \* --provider-deadline-epoch
          Grace,      \* seconds of --kill-after
          NoPid,      \* no process
          MaxFaults   \* bound on kills and corrupted fixtures

ASSUME ProbeAssumption ==
    /\ Deadline \in Nat /\ Provider \in Nat /\ Grace \in Nat
    /\ Deadline < Provider
    /\ NoPid \notin Launchers
    /\ MaxFaults \in Nat

VARIABLES now,
          fixtures,  \* the pinned BFCL files: "absent", "good" or "bad"
          leaf,      \* invocations/<id>/: its files, each with its writer
          launcher,  \* each launcher: where it is, its arguments, its status
          job,       \* its billed command under `timeout`
          log,       \* the log: footers and terminal records
          monitor,
          hit,       \* launchers whose fixtures were corrupted since their last
                     \* billed command ended (history)
          faults

vars == <<now, fixtures, leaf, launcher, job, log, monitor, hit, faults>>

NoJob == [state |-> "none", until |-> 0]

Alive(l) == launcher[l].pc \notin {"out", "gone"}
IsAt(l, pc) == launcher[l].pc = pc

Init ==
    /\ now = 0
    /\ fixtures = "absent"
    /\ leaf = [id \in Ids |-> {}]
    /\ launcher = [l \in Launchers |->
                     [pc |-> "out", id |-> "", ladderOnly |-> FALSE, ok |-> TRUE]]
    /\ job = [l \in Launchers |-> NoJob]
    /\ log = <<>>
    /\ monitor = [pc |-> "off", watch |-> NoPid, footer |-> "absent", verdict |-> "none"]
    /\ hit = {}
    /\ faults = 0

-----------------------------------------------------------------------------
(* The plan of a launcher: each step, its failure codes and what follows. *)

Verifying == {"verify", "verify_again", "verify_simple"}
Generating == {"multiple", "simple_python"}
Billed == {"ladder"} \cup Generating
Unbilled == {"publish", "checkout", "acquire", "receipt"} \cup Verifying

\* Mutant: the ladder's green lets the first generation start at once.
ThenUnverified(step, ladderOnly) ==
    CASE step = "publish" -> "checkout"
      [] step = "checkout" -> "acquire"
      [] step = "acquire" -> "verify"
      [] step = "verify" -> "ladder"
      [] step = "ladder" -> IF ladderOnly THEN "receipt" ELSE "multiple"
      [] step = "multiple" -> "verify_simple"
      [] step = "verify_simple" -> "simple_python"
      [] OTHER -> "exiting"

Then(step, ladderOnly) ==
    CASE step = "publish" -> "checkout"
      [] step = "checkout" -> "acquire"
      [] step = "acquire" -> "verify"
      [] step = "verify" -> "ladder"
      [] step = "ladder" -> IF ladderOnly THEN "receipt" ELSE "verify_again"
      [] step = "verify_again" -> "multiple"
      [] step = "multiple" -> "verify_simple"
      [] step = "verify_simple" -> "simple_python"
      [] OTHER -> "exiting"

Proceed(l) ==
    launcher' = [launcher EXCEPT ![l].pc = Then(@, launcher[l].ladderOnly)]

\* exit with the code of the class that failed, never 0, into the EXIT trap.
ExitNonzero(l) ==
    launcher' = [launcher EXCEPT ![l].pc = "exiting", ![l].ok = FALSE]

Put(l, file) ==
    leaf' = [leaf EXCEPT ![launcher[l].id] = @ \cup {[file |-> file, by |-> l]}]

Holds(id, file) == \E f \in leaf[id] : f.file = file

-----------------------------------------------------------------------------
(* scripts/launch_probe.sh *)

\* Mutant: mkdir -p takes the leaf of an earlier invocation.
LaunchInto(l, id, ladderOnly) ==
    /\ IsAt(l, "out")
    /\ now < Deadline
    /\ leaf' = [leaf EXCEPT ![id] = @ \cup {[file |-> "dir", by |-> l]}]
    /\ launcher' = [launcher EXCEPT
         ![l] = [pc |-> "publish", id |-> id, ladderOnly |-> ladderOnly, ok |-> TRUE]]
    /\ UNCHANGED <<now, fixtures, job, log, monitor, hit, faults>>

\* Up to the EXIT trap.  A deadline that has passed, or an id whose leaf
\* exists, ends the process with no trap set (a stutter).
Launch(l, id, ladderOnly) ==
    /\ IsAt(l, "out")
    /\ now < Deadline
    /\ leaf[id] = {}
    /\ leaf' = [leaf EXCEPT ![id] = {[file |-> "dir", by |-> l]}]
    /\ launcher' = [launcher EXCEPT
         ![l] = [pc |-> "publish", id |-> id, ladderOnly |-> ladderOnly, ok |-> TRUE]]
    /\ UNCHANGED <<now, fixtures, job, log, monitor, hit, faults>>

\* launcher.pid, renamed into place.
PublishPid(l) ==
    /\ IsAt(l, "publish")
    /\ Put(l, "pid")
    /\ Proceed(l)
    /\ UNCHANGED <<now, fixtures, job, log, monitor, hit, faults>>

\* step_git_checkout and the entry points.
Checkout(l) ==
    /\ IsAt(l, "checkout")
    /\ Proceed(l)
    /\ UNCHANGED <<now, fixtures, leaf, job, log, monitor, hit, faults>>

Acquire(l) ==
    /\ IsAt(l, "acquire")
    /\ fixtures' = "good"
    /\ Proceed(l)
    /\ UNCHANGED <<now, leaf, job, log, monitor, hit, faults>>

\* fetch_pinned_bfcl.py --verify-only
Verify(l) ==
    /\ launcher[l].pc \in Verifying
    /\ fixtures = "good"
    /\ Proceed(l)
    /\ UNCHANGED <<now, fixtures, leaf, job, log, monitor, hit, faults>>

\* run_checked, or a preflight: any unbilled step can fail.
StepFails(l) ==
    /\ launcher[l].pc \in Unbilled
    /\ ExitNonzero(l)
    /\ UNCHANGED <<now, fixtures, leaf, job, log, monitor, hit, faults>>

\* Mutant: each billed command gets the whole allowance again.
FreshBudget == Deadline

Budget == Deadline - now

\* run_bounded: nothing is started when the deadline has passed.
StartBilled(l) ==
    /\ launcher[l].pc \in Billed
    /\ job[l].state = "none"
    /\ Budget > 0
    /\ job' = [job EXCEPT ![l] = [state |-> "running", until |-> now + Budget]]
    /\ UNCHANGED <<now, fixtures, leaf, launcher, log, monitor, hit, faults>>

RefuseBilled(l) ==
    /\ launcher[l].pc \in Billed
    /\ job[l].state = "none"
    /\ Budget <= 0
    /\ ExitNonzero(l)
    /\ UNCHANGED <<now, fixtures, leaf, job, log, monitor, hit, faults>>

\* The command returns by itself before its time is up, or `timeout` ends it.
BilledEnds(l, how) ==
    /\ job[l].state = "running"
    /\ how = "ok" => now < job[l].until
    /\ job' = [job EXCEPT ![l].state = how]
    /\ UNCHANGED <<now, fixtures, leaf, launcher, log, monitor, hit, faults>>

\* The status of the billed command reaches run_bounded.
Collect(l) ==
    /\ launcher[l].pc \in Billed
    /\ \/ job[l].state = "ok" /\ Proceed(l)
       \/ job[l].state = "failed" /\ ExitNonzero(l)
    /\ job' = [job EXCEPT ![l] = NoJob]
    /\ hit' = hit \ {l}
    /\ UNCHANGED <<now, fixtures, leaf, log, monitor, faults>>

\* Mutant: a receipt that cannot be written is passed over.
WriteReceiptOrNot(l) ==
    /\ IsAt(l, "receipt")
    /\ Put(l, "receipt") \/ UNCHANGED leaf
    /\ Proceed(l)
    /\ UNCHANGED <<now, fixtures, job, log, monitor, hit, faults>>

\* --stop-after-ladder: the receipt is in place before success is reported.
WriteReceipt(l) ==
    /\ IsAt(l, "receipt")
    /\ Put(l, "receipt")
    /\ Proceed(l)
    /\ UNCHANGED <<now, fixtures, job, log, monitor, hit, faults>>

\* on_exit: the footer for people, then the record for the monitor.
WriteFooter(l) ==
    /\ IsAt(l, "exiting")
    /\ log' = Append(log, [line |-> "footer"])
    /\ launcher' = [launcher EXCEPT ![l].pc = "recording"]
    /\ UNCHANGED <<now, fixtures, leaf, job, monitor, hit, faults>>

WriteRecord(l) ==
    /\ IsAt(l, "recording")
    /\ log' = Append(log, [line |-> "record", pid |-> l, ok |-> launcher[l].ok])
    /\ launcher' = [launcher EXCEPT ![l].pc = "leaving"]
    /\ UNCHANGED <<now, fixtures, leaf, job, monitor, hit, faults>>

Leave(l) ==
    /\ IsAt(l, "leaving")
    /\ launcher' = [launcher EXCEPT ![l].pc = "gone"]
    /\ UNCHANGED <<now, fixtures, leaf, job, log, monitor, hit, faults>>

-----------------------------------------------------------------------------
(* scripts/probe_liveness.sh *)

\* The operator starts the monitor from a launcher.pid.
Watch(id) ==
    /\ monitor.pc = "off"
    /\ \E f \in leaf[id] :
         /\ f.file = "pid"
         /\ monitor' = [monitor EXCEPT !.pc = "checking", !.watch = f.by]
    /\ UNCHANGED <<now, fixtures, leaf, launcher, job, log, hit, faults>>

RecordLines == {i \in DOMAIN log : log[i].line \in {"record", "cut"}}

LastRecord == log[CHOOSE i \in RecordLines : \A j \in RecordLines : j <= i]

\* Mutant: the last record is taken for the watched run's, whatever its pid.
AnyFooter(pid) ==
    CASE RecordLines = {} -> IF log = <<>> THEN "absent" ELSE "unauthenticated"
      [] LastRecord.line = "cut" -> "malformed_record"
      [] LastRecord.ok -> "complete"
      [] OTHER -> "failed"

\* footer_state.
Footer(pid) ==
    IF RecordLines = {} THEN IF log = <<>> THEN "absent" ELSE "unauthenticated"
    ELSE IF LastRecord.line = "cut" THEN "malformed_record"
    ELSE IF LastRecord.pid # pid THEN "foreign"
    ELSE IF LastRecord.ok THEN "complete" ELSE "failed"

\* check_once: scan_footer, on the log as it is now.
ScanFooter ==
    /\ monitor.pc = "checking"
    /\ monitor' = [monitor EXCEPT !.pc = "scanned", !.footer = Footer(monitor.watch)]
    /\ UNCHANGED <<now, fixtures, leaf, launcher, job, log, hit, faults>>

\* Mutant: the session is alive as long as the monitor itself runs in it.
CheckTmux ==
    /\ monitor.pc = "scanned"
    /\ monitor' = [monitor EXCEPT !.pc = "checking", !.footer = "absent"]
    /\ UNCHANGED <<now, fixtures, leaf, launcher, job, log, hit, faults>>

\* check_once: kill -0, then the verdict on the footer scanned before.
CheckAlive ==
    /\ monitor.pc = "scanned"
    /\ monitor' =
         IF Alive(monitor.watch)
         THEN [monitor EXCEPT !.pc = "checking", !.footer = "absent"]
         ELSE [monitor EXCEPT
                 !.pc = "over",
                 !.verdict = CASE monitor.footer = "complete" -> "completed_ok"
                               [] monitor.footer = "failed" -> "completed_failed"
                               [] OTHER -> "died_hard"]
    /\ UNCHANGED <<now, fixtures, leaf, launcher, job, log, hit, faults>>

-----------------------------------------------------------------------------
(* Time and faults. *)

\* `timeout` keeps its word: TERM when the time is up, KILL after Grace.
Tick ==
    /\ now < Provider
    /\ \A l \in Launchers : job[l].state = "running" => now < job[l].until + Grace
    /\ now' = now + 1
    /\ UNCHANGED <<fixtures, leaf, launcher, job, log, monitor, hit, faults>>

\* SIGKILL, or a log that takes no more in the middle of the record.
Kill(l) ==
    /\ Alive(l)
    /\ faults < MaxFaults
    /\ faults' = faults + 1
    /\ launcher' = [launcher EXCEPT ![l].pc = "gone"]
    /\ \/ UNCHANGED log
       \/ IsAt(l, "recording") /\ log' = Append(log, [line |-> "cut"])
    /\ UNCHANGED <<now, fixtures, leaf, job, monitor, hit>>

Corrupt ==
    /\ fixtures = "good"
    /\ faults < MaxFaults
    /\ faults' = faults + 1
    /\ fixtures' = "bad"
    /\ hit' = Launchers
    /\ UNCHANGED <<now, leaf, launcher, job, log, monitor>>

LauncherStep(l) ==
    \/ \E id \in Ids, ladderOnly \in BOOLEAN : Launch(l, id, ladderOnly)
    \/ PublishPid(l) \/ Checkout(l) \/ Acquire(l) \/ Verify(l)
    \/ StepFails(l) \/ StartBilled(l) \/ RefuseBilled(l)
    \/ \E how \in {"ok", "failed"} : BilledEnds(l, how)
    \/ Collect(l)
    \/ WriteReceipt(l) \/ WriteFooter(l) \/ WriteRecord(l) \/ Leave(l)

Next ==
    \/ \E l \in Launchers : LauncherStep(l)
    \/ \E id \in Ids : Watch(id)
    \/ ScanFooter \/ CheckAlive
    \/ Tick
    \/ \E l \in Launchers : Kill(l)
    \/ Corrupt

Spec == Init /\ [][Next]_vars

\* The monitor's loop goes on: nothing it calls blocks.
FairSpec == Spec /\ WF_vars(ScanFooter) /\ WF_vars(CheckAlive)

-----------------------------------------------------------------------------
(* Properties. *)

\* Whatever is killed or starts late, no billed command runs past the shared
\* deadline and the grace of `timeout`, not even one whose launcher is gone.
BilledStopsInTime ==
    \A l \in Launchers : job[l].state = "running" => now <= Deadline + Grace

\* Two invocations never write into one directory: the pid, the ladder and the
\* receipt found there are of one run ("the second cannot destroy the first").
OneWriterPerLeaf ==
    \A id \in Ids : \A f, g \in leaf[id] : f.by = g.by

\* A generation starts on corrupted fixtures only when they were corrupted after
\* the launcher's previous billed command had ended: nothing that happened
\* during the ladder or the first generation rides into the next paid run.
PaidOnVerifiedFixtures ==
    [][\A l \in Launchers :
          job[l].state = "none" /\ job'[l].state = "running"
          /\ launcher[l].pc \in Generating /\ fixtures = "bad"
             => l \in hit]_vars

\* The monitor reports an orderly end, clean or not, only of a process that is
\* gone and that ended that way itself; another run's record is no evidence.
OrderlyEndsAreReal ==
    LET w == monitor.watch
        account(ok) == [line |-> "record", pid |-> w, ok |-> ok]
    IN /\ monitor.verdict = "completed_ok" =>
            ~Alive(w) /\ launcher[w].ok /\ \E k \in DOMAIN log : log[k] = account(TRUE)
       /\ monitor.verdict = "completed_failed" =>
            ~Alive(w) /\ \E k \in DOMAIN log : log[k] = account(FALSE)

\* A ladder-only run that reports success has left its receipt.
SuccessHasReceipt ==
    \A k \in DOMAIN log :
        log[k].line = "record" /\ log[k].ok /\ launcher[log[k].pid].ladderOnly
            => Holds(launcher[log[k].pid].id, "receipt")

\* The watched process once gone, the monitor says so, whatever is in the log.
DeathIsReported ==
    (monitor.pc # "off" /\ ~Alive(monitor.watch)) ~> (monitor.verdict # "none")

\* A hard death is reported only of a process that left no account of itself
\* ("the alertable condition is (1) false and (2) false: the process is gone
\* and left no account of itself").
HardDeathLeftNoAccount ==
    monitor.verdict = "died_hard" =>
        \A k \in DOMAIN log : ~(log[k].line = "record" /\ log[k].pid = monitor.watch)
=============================================================================
