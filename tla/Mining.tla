------------------------------- MODULE Mining -------------------------------
(***************************************************************************)
(* One stage directory of mining/mine_pairs.py: the model processes that   *)
(* extend it (backend.execute_model_stage), the rollback processes that    *)
(* extend it too (mine_pairs.redo_run), the operator who relaunches and    *)
(* clears stale locks, and crashes.  The ledger is read and written at the *)
(* grain of its system calls, so that two processes can interleave inside  *)
(* one append(); a crash in a write leaves a fragment of the line.         *)
(***************************************************************************)
EXTENDS LedgerDisk

CONSTANTS Miners, Redoers,  \* processes
          Selected,         \* preflight.selected, in sampling order
          Fresh,            \* the values of --fresh operators launch with
          Alongside,        \* may a rollback and a miner run together?
          BindCrash,        \* may a crash fall between creating run.json and
                            \* writing it?
          MaxFaults,        \* bound on crashes and failed samplings
          MaxSeq,           \* bound on ledger seqs
          MaxRedo           \* bound on --redo-last

ASSUME MiningAssumption ==
    /\ Miners \cap Redoers = {} /\ {"free", "stale"} \cap Miners = {}
    /\ Selected \in Seq(Prompts)
    /\ Fresh \subseteq BOOLEAN
    /\ Alongside \in BOOLEAN /\ BindCrash \in BOOLEAN
    /\ MaxFaults \in Nat /\ MaxSeq \in Nat /\ MaxRedo \in Nat

\* Nothing in the code compares the ids of the pool's rows with each other: the
\* pool is pinned by its sha256 (POOL_SHA256), and its ids are distinct.
ASSUME SelectedOnce ==
    \A i, j \in 1 .. Len(Selected) : Selected[i] = Selected[j] => i = j

VARIABLES identity,  \* run.json: "absent", "torn" (created, empty) or "bound"
          lock,      \* run.lock: "free", the miner that holds it, or "stale"
          chain,     \* the ledger's segments
          derived,   \* each derived file: the active records it was made from
          proc,      \* each process: where it is, and its local variables
          paid,      \* prompts sampled so far (history)
          faults     \* crashes and failed samplings so far

vars == <<identity, lock, chain, derived, proc, paid, faults>>

Procs == Miners \cup Redoers
DerivedFiles == {"mined_pairs", "sft_bucket", "mining_summary"}
Missing == {Garbage}   \* no file yet: never a set of active records

Idle == [pc |-> "out", fresh |-> FALSE, already |-> {}, at |-> 1,
         queue |-> {}, target |-> 0, seq |-> 0, snap |-> {}]

Running(p) == proc[p].pc # "out"
At_(p, pc) == proc[p].pc = pc
Goto(p, pc) == proc' = [proc EXCEPT ![p].pc = pc]

\* Mutant: RunLock.__exit__ leaves run.lock behind.
ExitLocked(p) ==
    /\ proc' = [proc EXCEPT ![p] = Idle]
    /\ UNCHANGED lock

\* The process is over; a miner's RunLock.__exit__ unlinks whatever is there.
Exit(p) ==
    /\ proc' = [proc EXCEPT ![p] = Idle]
    /\ lock' = IF p \in Miners THEN "free" ELSE lock

Init ==
    /\ identity = "absent"
    /\ lock = "free"
    /\ chain = << <<>> >>
    /\ derived = [f \in DerivedFiles |-> Missing]
    /\ proc = [p \in Procs |-> Idle]
    /\ paid = 0
    /\ faults = 0

-----------------------------------------------------------------------------
(* A model process, up to the first sample. *)

\* Mutant: run.lock is opened without O_EXCL.
LaunchOver(m, fresh) ==
    /\ At_(m, "out")
    /\ Alongside \/ \A r \in Redoers : ~Running(r)
    /\ lock' = m
    /\ proc' = [proc EXCEPT ![m] = [Idle EXCEPT !.pc = "preparing", !.fresh = fresh]]
    /\ UNCHANGED <<identity, chain, derived, paid, faults>>

\* RunLock.__enter__: a launch that finds run.lock is refused (a stutter).
Launch(m, fresh) ==
    /\ At_(m, "out")
    /\ lock = "free"
    /\ Alongside \/ \A r \in Redoers : ~Running(r)
    /\ lock' = m
    /\ proc' = [proc EXCEPT ![m] = [Idle EXCEPT !.pc = "preparing", !.fresh = fresh]]
    /\ UNCHANGED <<identity, chain, derived, paid, faults>>

\* Mutant: --fresh looks for derived files only.
DerivedEvidence == \E f \in DerivedFiles : derived[f] # Missing

Evidence ==
    \/ identity # "absent"
    \/ chain # << <<>> >>
    \/ \E f \in DerivedFiles : derived[f] # Missing

\* prepare_stage_run: --fresh refuses a directory that holds anything, and an
\* unreadable run.json raises; the lock is released either way.
RefuseDirectory(m) ==
    /\ At_(m, "preparing")
    /\ (proc[m].fresh /\ Evidence) \/ identity = "torn"
    /\ Exit(m)
    /\ UNCHANGED <<identity, chain, derived, paid, faults>>

\* bind_run_metadata, O_EXCL: the file exists, still empty.
CreateIdentity(m) ==
    /\ At_(m, "preparing")
    /\ ~(proc[m].fresh /\ Evidence)
    /\ identity = "absent"
    /\ identity' = "torn"
    /\ Goto(m, "binding")
    /\ UNCHANGED <<lock, chain, derived, paid, faults>>

WriteIdentity(m) ==
    /\ At_(m, "binding")
    /\ identity' = "bound"
    /\ Goto(m, "bound")
    /\ UNCHANGED <<lock, chain, derived, paid, faults>>

\* bind_run_metadata, the resumed run matches.
MatchIdentity(m) ==
    /\ At_(m, "preparing")
    /\ ~(proc[m].fresh /\ Evidence)
    /\ identity = "bound"
    /\ Goto(m, "bound")
    /\ UNCHANGED <<identity, lock, chain, derived, paid, faults>>

\* Mutant: a resumed run forgets what the ledger holds.
ForgetLedger(m) ==
    /\ At_(m, "bound")
    /\ Goto(m, "mining")
    /\ UNCHANGED <<identity, lock, chain, derived, paid, faults>>

\* _run_prepared: what is paid for is read once, before the loop; outside the
\* try, so a ledger that cannot be read ends the process.
ReadLedger(m) ==
    /\ At_(m, "bound")
    /\ IF Verified(chain)
       THEN /\ proc' = [proc EXCEPT ![m].pc = "mining", ![m].already = ProcessedIds(chain)]
            /\ UNCHANGED lock
       ELSE Exit(m)
    /\ UNCHANGED <<identity, chain, derived, paid, faults>>

-----------------------------------------------------------------------------
(* _mine_selected. *)

Current(m) == Selected[proc[m].at]

Skip(m) ==
    /\ At_(m, "mining")
    /\ proc[m].at <= Len(Selected)
    /\ Current(m) \in proc[m].already
    /\ proc' = [proc EXCEPT ![m].at = @ + 1]
    /\ UNCHANGED <<identity, lock, chain, derived, paid, faults>>

Sample(m) ==
    /\ At_(m, "mining")
    /\ proc[m].at <= Len(Selected)
    /\ Current(m) \notin proc[m].already
    /\ paid' = paid + 1
    /\ Goto(m, "sampled")
    /\ UNCHANGED <<identity, lock, chain, derived, faults>>

\* mine_prompt raises over what was generated, or the generator does.
SampleFails(m) ==
    /\ At_(m, "sampled")
    /\ faults < MaxFaults
    /\ faults' = faults + 1
    /\ Goto(m, "deriving")
    /\ UNCHANGED <<identity, lock, chain, derived, paid>>

\* append(): the dedup guard, on a ledger that reads.
StartAppend(m) ==
    /\ At_(m, "sampled")
    /\ IF Verified(chain) /\ Current(m) \notin ProcessedIds(chain)
       THEN proc' = [proc EXCEPT ![m].pc = "commit", ![m].queue = {WorkDraft(Current(m))}]
       ELSE Goto(m, "deriving")
    /\ UNCHANGED <<identity, lock, chain, derived, paid, faults>>

LoopEnds(m) ==
    /\ At_(m, "mining")
    /\ proc[m].at > Len(Selected)
    /\ Goto(m, "deriving")
    /\ UNCHANGED <<identity, lock, chain, derived, paid, faults>>

-----------------------------------------------------------------------------
(* redo_run: no lock; an identity that cannot be read stops it (a stutter). *)

StartRedo(r, n) ==
    /\ At_(r, "out")
    /\ Alongside \/ \A p \in Procs : ~Running(p)
    /\ identity = "bound"
    /\ Verified(chain)
    /\ LET chosen == {RedoDraft(e) : e \in LastActive(chain, n)}
       IN proc' = [proc EXCEPT ![r].queue = chosen,
                               ![r].pc = IF chosen = {} THEN "deriving" ELSE "commit"]
    /\ UNCHANGED <<identity, lock, chain, derived, paid, faults>>

-----------------------------------------------------------------------------
(* Ledger._commit, by whichever process. *)

InTurn(p, d) ==
    /\ d \in proc[p].queue
    /\ \A e \in proc[p].queue :
         d.type = "redo" /\ e.type = "redo" => d.supersedes <= e.supersedes

\* A read inside _commit raises: a miner goes to its finally, a rollback ends.
CommitRefused(p) ==
    /\ IF p \in Miners THEN Goto(p, "deriving") /\ UNCHANGED lock ELSE Exit(p)
    /\ UNCHANGED chain

\* _active_segment, the last segment whole.
ChooseSegment(p) ==
    /\ At_(p, "commit")
    /\ ~TornTail(ActiveSegment(chain))
    /\ proc' = [proc EXCEPT ![p].pc = "allocate", ![p].target = Len(chain)]
    /\ UNCHANGED <<identity, lock, chain, derived, paid, faults>>

\* _active_segment, the last segment torn: _seal_and_rotate.
SealAndRotate(p) ==
    /\ At_(p, "commit")
    /\ TornTail(ActiveSegment(chain))
    /\ IF Verified(chain)
       THEN /\ NextSeq(chain) <= MaxSeq
            /\ chain' = Append(chain, << Line(Header(Len(chain), ActiveSegment(chain),
                                                    NextSeq(chain)), TRUE) >>)
            /\ proc' = [proc EXCEPT ![p].pc = "allocate", ![p].target = Len(chain) + 1]
            /\ UNCHANGED lock
       ELSE CommitRefused(p)
    /\ UNCHANGED <<identity, derived, paid, faults>>

\* _next_seq, after any rotation and before the write.
Allocate(p) ==
    /\ At_(p, "allocate")
    /\ IF Verified(chain)
       THEN /\ NextSeq(chain) <= MaxSeq
            /\ proc' = [proc EXCEPT ![p].pc = "write", ![p].seq = NextSeq(chain)]
            /\ UNCHANGED <<lock, chain>>
       ELSE CommitRefused(p)
    /\ UNCHANGED <<identity, derived, paid, faults>>

Write(p, line) ==
    chain' = [chain EXCEPT ![proc[p].target] = Written(@, line)]

\* _write_line returns: the next prompt, the next tombstone or the derivatives.
WriteLine(p, d) ==
    /\ At_(p, "write")
    /\ InTurn(p, d)
    /\ Write(p, Line(Stamped(d, proc[p].seq), TRUE))
    /\ proc' = [proc EXCEPT
         ![p].queue = @ \ {d},
         ![p].at = IF p \in Miners THEN @ + 1 ELSE @,
         ![p].pc = IF p \in Miners THEN "mining"
                   ELSE IF proc[p].queue = {d} THEN "deriving" ELSE "commit"]
    /\ UNCHANGED <<identity, lock, derived, paid, faults>>

-----------------------------------------------------------------------------
(* write_derivatives: one reading of the ledger, three replaced files. *)

Summarize(p) ==
    /\ At_(p, "deriving")
    /\ IF Verified(chain)
       THEN /\ proc' = [proc EXCEPT ![p].pc = "mined_pairs", ![p].snap = Active(chain)]
            /\ UNCHANGED lock
       ELSE Exit(p)
    /\ UNCHANGED <<identity, chain, derived, paid, faults>>

\* Mutant: a derived file that exists is kept.
WriteDerivedOnce(p, f, next) ==
    /\ At_(p, f)
    /\ derived' = [derived EXCEPT ![f] = IF @ = Missing THEN proc[p].snap ELSE @]
    /\ Goto(p, next)
    /\ UNCHANGED <<identity, lock, chain, paid, faults>>

WriteDerived(p, f, next) ==
    /\ At_(p, f)
    /\ derived' = [derived EXCEPT ![f] = proc[p].snap]
    /\ Goto(p, next)
    /\ UNCHANGED <<identity, lock, chain, paid, faults>>

\* The process returns, and a miner releases the lock.
Return(p) ==
    /\ At_(p, "returning")
    /\ Exit(p)
    /\ UNCHANGED <<identity, chain, derived, paid, faults>>

-----------------------------------------------------------------------------
(* Crashes and the operator. *)

\* A miner that dies leaves run.lock behind it.
Dies(p) ==
    /\ faults < MaxFaults
    /\ faults' = faults + 1
    /\ proc' = [proc EXCEPT ![p] = Idle]
    /\ lock' = IF lock = p THEN "stale" ELSE lock

Crash(p) ==
    /\ Running(p)
    /\ At_(p, "binding") => BindCrash
    /\ Dies(p)
    /\ UNCHANGED <<identity, chain, derived, paid>>

CrashInWrite(p) ==
    /\ At_(p, "write")
    /\ Write(p, Line(Garbage, FALSE))
    /\ Dies(p)
    /\ UNCHANGED <<identity, derived, paid>>

\* "If it is certainly dead, remove the stale lock deliberately."
RemoveStaleLock ==
    /\ lock = "stale"
    /\ lock' = "free"
    /\ UNCHANGED <<identity, chain, derived, proc, paid, faults>>

MinerStep(m) ==
    \/ RefuseDirectory(m) \/ CreateIdentity(m) \/ WriteIdentity(m)
    \/ MatchIdentity(m) \/ ReadLedger(m)
    \/ Skip(m) \/ Sample(m) \/ StartAppend(m) \/ LoopEnds(m)

ProcStep(p) ==
    \/ p \in Miners /\ MinerStep(p)
    \/ ChooseSegment(p) \/ SealAndRotate(p) \/ Allocate(p)
    \/ \E d \in proc[p].queue : WriteLine(p, d)
    \/ Summarize(p)
    \/ WriteDerived(p, "mined_pairs", "sft_bucket")
    \/ WriteDerived(p, "sft_bucket", "mining_summary")
    \/ WriteDerived(p, "mining_summary", "returning")
    \/ Return(p)

Next ==
    \/ \E m \in Miners, fresh \in Fresh : Launch(m, fresh)
    \/ \E r \in Redoers, n \in 0 .. MaxRedo : StartRedo(r, n)
    \/ \E p \in Procs : ProcStep(p)
    \/ \E m \in Miners : SampleFails(m)
    \/ \E p \in Procs : Crash(p)
    \/ \E p \in Procs : CrashInWrite(p)
    \/ RemoveStaleLock

Spec == Init /\ [][Next]_vars

\* A process that runs goes on running; the operator relaunches the stage and
\* clears the lock of a dead miner.  Crashes end: MaxFaults.
Fairness ==
    /\ \A p \in Procs : WF_vars(ProcStep(p))
    /\ WF_vars(\E m \in Miners, fresh \in Fresh : Launch(m, fresh))
    /\ WF_vars(RemoveStaleLock)

FairSpec == Spec /\ Fairness

-----------------------------------------------------------------------------
(* Properties. *)

\* The stage never pays for more samples than it holds, beyond one prompt per
\* crash or failure and the one in flight: what a kill costs is one prompt.
PaidForOnce ==
    paid <= Cardinality({q \in Parsed(chain) : At(chain, q).type = "work"})
            + faults
            + Cardinality({m \in Miners : proc[m].pc \in
                              {"sampled", "commit", "allocate", "write"}})

\* A prompt whose samples are in effect is never sampled again, although the
\* miner looks them up once, at its start ("already paid for, never
\* re-sampled").
NeverResample ==
    [][\A m \in Miners :
          At_(m, "mining") /\ proc[m]'.pc = "sampled"
             => Current(m) \notin ProcessedIds(chain)]_vars

\* A --fresh run that starts sampling starts from an empty ledger.
FreshStartsEmpty ==
    [][\A m \in Miners :
          At_(m, "bound") /\ proc[m]'.pc = "mining" /\ proc[m].fresh
             => ActivePos(chain) = {}]_vars

\* When a process has written its last derivative, all three say what the
\* ledger says: no tombstone and no record is missing from the yield.
DerivativesCurrent ==
    [][\A p \in Procs :
          At_(p, "mining_summary") /\ proc[p]'.pc = "returning"
             => \A f \in DerivedFiles : derived'[f] = Active(chain)]_vars

\* At rest, with no crash so far and a ledger that reads, no derived file
\* counts a record the ledger has retired ("a tombstone that does not reach the
\* derivatives leaves mining_summary.json reporting a yield the ledger no
\* longer supports").
TombstonesReachDerivatives ==
    (/\ faults = 0 /\ \A p \in Procs : ~Running(p)
     /\ Verified(chain))
        => \A f \in DerivedFiles :
             derived[f] # Missing => derived[f] \subseteq Active(chain)

\* The stage directory implements the log of entries: one append or one
\* tombstone at a time, whatever the processes interleave.
Log == INSTANCE WorkLog WITH
    Stamps <- 1 .. MaxSeq,
    active <- {[prompt |-> r.prompt, seq |-> r.seq] : r \in Active(chain)},
    asked  <- UNION {{[prompt |-> d.prompt, seq |-> d.supersedes] :
                         d \in proc[r].queue} : r \in Redoers}

\* Whatever the processes do at the grain of their reads and writes, an
\* observer sees WorkLog: entries recorded once and retired only on request.
ImplementsWorkLog == Log!Spec

\* A stage that is relaunched after each crash gets done: every selected
\* prompt ends up recorded, with the derivatives to match.
StageCompletes ==
    <>[](/\ \A i \in 1 .. Len(Selected) : Selected[i] \in ProcessedIds(chain)
         /\ \A f \in DerivedFiles : derived[f] = Active(chain))
=============================================================================
