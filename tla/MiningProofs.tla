---------------------------- MODULE MiningProofs ----------------------------
(***************************************************************************)
(* Theorems about Mining, for every set of prompts, miners and rollbacks   *)
(* and every bound, when operators keep rollbacks and miners apart         *)
(* (Alongside = FALSE).                                                    *)
(***************************************************************************)
EXTENDS Mining, LedgerDiskProofs

-----------------------------------------------------------------------------
(* The inductive invariant. *)

RedoPcs == {"out", "commit", "allocate", "write", "deriving", "mined_pairs",
            "sft_bucket", "mining_summary", "returning"}
Pcs == RedoPcs \cup {"preparing", "binding", "bound", "mining", "sampled"}

WorkRecords == [type : {"work"}, seq : Nat, prompt : Prompts]

States == [pc : Pcs, fresh : BOOLEAN, already : SUBSET Prompts, at : Nat \ {0},
           queue : SUBSET Drafts, target : Nat, seq : Nat,
           snap : SUBSET WorkRecords]

TypeInv ==
    /\ identity \in {"absent", "torn", "bound"}
    /\ lock \in {"free", "stale"} \cup Miners
    /\ derived \in [DerivedFiles -> SUBSET (WorkRecords \cup {Garbage})]
    /\ proc \in [Procs -> States]
    /\ \A r \in Redoers : proc[r].pc \in RedoPcs
    /\ \A p \in Procs : ~ Running(p) => proc[p] = Idle
    /\ paid \in Nat /\ faults \in Nat

\* The lock and the operator let one process run at a time.
AloneInv ==
    /\ \A m \in Miners : Running(m) => lock = m
    /\ \A p, q \in Procs : Running(p) /\ Running(q) => p = q

Committing == {"commit", "allocate", "write"}
InLoop == {"mining", "sampled"} \cup Committing

\* A process commits the prompt it sampled, or tombstones of records in effect.
QueueOK(p, s, ch) ==
    /\ s.pc \notin Committing => s.queue = {}
    /\ s.pc \in Committing /\ p \in Miners => s.queue = {WorkDraft(Selected[s.at])}
    /\ s.pc \in Committing /\ p \in Redoers =>
         \A d \in s.queue :
            /\ d.type = "redo"
            /\ \E t \in ActivePos(ch) : /\ At(ch, t).prompt = d.prompt
                                       /\ At(ch, t).seq = d.supersedes

\* What a process found before it writes still holds when it writes.
TargetOK(s, ch) ==
    /\ s.pc \in {"allocate", "write"} =>
         s.target = Len(ch) /\ ~ TornTail(ActiveSegment(ch))
    /\ s.pc = "write" => s.seq = NextSeq(ch) /\ NextSeq(ch) <= MaxSeq

\* What a miner read before its loop covers the prompts still ahead of it.
KnowsPaid(p, s, ch) ==
    p \in Miners /\ s.pc \in InLoop =>
        /\ \A i \in s.at .. Len(Selected) :
             Selected[i] \in ProcessedIds(ch) => Selected[i] \in s.already
        /\ s.pc # "mining" =>
             s.at <= Len(Selected) /\ Selected[s.at] \notin s.already

FreshOK(s, ch) ==
    s.pc \in {"binding", "bound"} /\ s.fresh => ch = << <<>> >>

\* The snapshot of write_derivatives stays current until its last file.
DerivedOK(s, ch, der) ==
    /\ s.pc \in DerivedFiles => s.snap = Active(ch)
    /\ s.pc \in {"sft_bucket", "mining_summary"} => der["mined_pairs"] = s.snap
    /\ s.pc = "mining_summary" => der["sft_bucket"] = s.snap

Local(p, s, ch, der) ==
    /\ QueueOK(p, s, ch)
    /\ TargetOK(s, ch)
    /\ KnowsPaid(p, s, ch)
    /\ FreshOK(s, ch)
    /\ DerivedOK(s, ch, der)

Inv ==
    /\ TypeInv
    /\ AloneInv
    /\ Sound(MaxSeq, chain)
    /\ \A p \in Procs : Local(p, proc[p], chain, derived)

-----------------------------------------------------------------------------
(* One process moves at a time. *)

LEMMA IdleIsAState == Idle \in States /\ Idle.pc = "out" /\ Idle.queue = {}
<1>1. Idle.pc = "out" /\ "out" \in Pcs
  BY DEF Idle, Pcs, RedoPcs
<1> QED BY <1>1 DEF Idle, States

\* A process that is out is bound by nothing.
LEMMA IdleIsLocal ==
    ASSUME NEW p, NEW ch, NEW der
    PROVE  Local(p, Idle, ch, der)
BY IdleIsAState
   DEF Local, QueueOK, TargetOK, KnowsPaid, FreshOK, DerivedOK, Committing, InLoop,
       DerivedFiles

\* What the ledger gives a reader, in terms of types.
LEMMA ChainTypes ==
    ASSUME Inv
    PROVE  /\ Verified(chain) /\ DiskOK(chain) /\ MaxSeq \in Nat
           /\ NextSeq(chain) \in Nat
           /\ Active(chain) \subseteq WorkRecords
           /\ ProcessedIds(chain) \subseteq Prompts
<1>1. /\ Verified(chain) /\ DiskOK(chain) /\ MaxSeq \in Nat
      /\ NextSeq(chain) \in Nat
  BY SoundReads, MiningAssumption DEF Inv
<1>2. Active(chain) \subseteq WorkRecords
  BY <1>1, ActiveIsWork DEF WorkRecords
<1>3. ProcessedIds(chain) \subseteq Prompts
  BY <1>2 DEF ProcessedIds, WorkRecords
<1> QED BY <1>1, <1>2, <1>3

\* When the only running process moves, what it is bound by is all there is to
\* check.
LEMMA OneMoves ==
    ASSUME Inv, NEW p \in Procs, Running(p), NEW s \in States,
           proc' = [proc EXCEPT ![p] = s],
           s.pc = "out" => s = Idle,
           p \in Redoers => s.pc \in RedoPcs,
           \/ lock' = lock
           \/ s = Idle /\ lock' \in {"free", "stale"},
           identity' \in {"absent", "torn", "bound"},
           derived' \in [DerivedFiles -> SUBSET (WorkRecords \cup {Garbage})],
           paid' \in Nat, faults' \in Nat,
           Sound(MaxSeq, chain'),
           s # Idle => Local(p, s, chain', derived')
    PROVE  Inv'
<1>1. proc' \in [Procs -> States] /\ proc'[p] = s
  BY DEF Inv, TypeInv
<1>2. \A q \in Procs : q # p => proc'[q] = proc[q] /\ proc[q] = Idle
  BY DEF Inv, TypeInv, AloneInv
<1>3. TypeInv'
  <2>1. \A r \in Redoers : proc'[r].pc \in RedoPcs
    BY <1>1, <1>2 DEF Inv, TypeInv, Procs
  <2>2. \A q \in Procs : proc'[q].pc = "out" => proc'[q] = Idle
    BY <1>1, <1>2
  <2>3. lock' \in {"free", "stale"} \cup Miners
    BY DEF Inv, TypeInv
  <2> QED BY <1>1, <2>1, <2>2, <2>3 DEF TypeInv, Running
<1>4. AloneInv'
  <2>1. \A q \in Procs : proc'[q].pc # "out" => q = p /\ s # Idle
    BY <1>1, <1>2, IdleIsAState
  <2>2. \A m \in Miners : proc'[m].pc # "out" => lock' = m
    BY <2>1 DEF Inv, AloneInv, Procs
  <2> QED BY <2>1, <2>2 DEF AloneInv, Running
<1>5. ASSUME NEW q \in Procs PROVE Local(q, proc'[q], chain', derived')
  BY <1>1, <1>2, IdleIsLocal
<1> QED BY <1>3, <1>4, <1>5 DEF Inv

\* A move that only changes where the process is.
LEMMA GoesTo ==
    ASSUME Inv, NEW p \in Procs, Running(p), NEW x \in Pcs \ {"out"}, Goto(p, x),
           p \in Redoers => x \in RedoPcs, lock' = lock, chain' = chain,
           identity' \in {"absent", "torn", "bound"},
           derived' \in [DerivedFiles -> SUBSET (WorkRecords \cup {Garbage})],
           paid' \in Nat, faults' \in Nat,
           Local(p, [proc[p] EXCEPT !.pc = x], chain, derived')
    PROVE  Inv'
<1> DEFINE s == [proc[p] EXCEPT !.pc = x]
<1>1. proc[p] \in States
  BY DEF Inv, TypeInv
<1>2. s \in States
  BY <1>1 DEF States
<1>3. s.pc = x
  BY <1>1 DEF States
<1>4. proc' = [proc EXCEPT ![p] = s]
  BY DEF Goto
<1> HIDE DEF s
<1>5. Sound(MaxSeq, chain')
  BY DEF Inv
<1> QED BY <1>2, <1>3, <1>4, <1>5, OneMoves DEF s

\* A process that ends, one way or another.
LEMMA Ends ==
    ASSUME Inv, NEW p \in Procs, Running(p),
           proc' = [proc EXCEPT ![p] = Idle],
           lock' = lock \/ lock' \in {"free", "stale"},
           Sound(MaxSeq, chain'), UNCHANGED <<identity, derived, paid>>,
           faults' \in Nat
    PROVE  Inv'
<1>1. /\ identity' \in {"absent", "torn", "bound"}
      /\ derived' \in [DerivedFiles -> SUBSET (WorkRecords \cup {Garbage})]
      /\ paid' \in Nat
  BY DEF Inv, TypeInv
<1>2. "out" \in RedoPcs
  BY DEF RedoPcs
<1> QED BY <1>1, <1>2, IdleIsAState, OneMoves

LEMMA ExitEnds ==
    ASSUME Inv, NEW p \in Procs, Running(p), Exit(p),
           UNCHANGED <<identity, chain, derived, paid, faults>>
    PROVE  Inv'
<1>1. Sound(MaxSeq, chain') /\ faults' \in Nat
  BY DEF Inv, TypeInv
<1> QED BY <1>1, Ends DEF Exit

\* Nothing but the place changes.
LEMMA SameFields ==
    ASSUME NEW s0 \in States, NEW x, NEW s, s = [s0 EXCEPT !.pc = x]
    PROVE  /\ s.pc = x /\ s.fresh = s0.fresh /\ s.already = s0.already
           /\ s.at = s0.at /\ s.queue = s0.queue /\ s.target = s0.target
           /\ s.seq = s0.seq /\ s.snap = s0.snap
BY DEF States

-----------------------------------------------------------------------------
(* The steps before the loop. *)

LEMMA LaunchKeeps == ASSUME Inv, ~ Alongside, NEW m \in Miners, NEW fresh \in Fresh,
                            Launch(m, fresh)
                     PROVE  Inv'
<1> DEFINE s == [Idle EXCEPT !.pc = "preparing", !.fresh = fresh]
<1>1. /\ s \in States /\ s.pc = "preparing" /\ s.queue = {} /\ s.fresh = fresh
  <2>1. "preparing" \in Pcs /\ fresh \in BOOLEAN
    BY MiningAssumption DEF Pcs
  <2> QED BY <2>1, IdleIsAState DEF States, Idle
<1>2. /\ lock = "free" /\ lock' = m /\ proc' = [proc EXCEPT ![m] = s]
      /\ UNCHANGED <<identity, chain, derived, paid, faults>>
      /\ \A r \in Redoers : ~ Running(r)
  BY DEF Launch
<1> HIDE DEF s
<1>3. \A q \in Procs : proc[q] = Idle
  <2>1. \A q \in Procs : ~ Running(q)
    BY <1>2, MiningAssumption DEF Inv, AloneInv, Procs
  <2> QED BY <2>1 DEF Inv, TypeInv
<1>4. /\ proc' \in [Procs -> States] /\ proc'[m] = s
      /\ \A q \in Procs : q # m => proc'[q] = Idle
  BY <1>1, <1>2, <1>3 DEF Inv, TypeInv, Procs
<1>5. \A r \in Redoers : proc'[r] = Idle
  BY <1>4, MiningAssumption DEF Procs
<1>6. TypeInv'
  <2>1. \A r \in Redoers : proc'[r].pc \in RedoPcs
    BY <1>5, IdleIsAState DEF RedoPcs
  <2>2. \A q \in Procs : proc'[q].pc = "out" => proc'[q] = Idle
    BY <1>1, <1>4
  <2> QED BY <1>2, <1>4, <2>1, <2>2 DEF Inv, TypeInv, Running
<1>7. AloneInv'
  <2>1. \A q \in Procs : proc'[q].pc # "out" => q = m
    BY <1>4, IdleIsAState
  <2> QED BY <1>2, <2>1 DEF AloneInv, Running, Procs
<1>8. Local(m, s, chain, derived)
  BY <1>1, MiningAssumption
     DEF Local, QueueOK, TargetOK, KnowsPaid, FreshOK, DerivedOK, Committing, InLoop,
         DerivedFiles
<1>9. \A q \in Procs : Local(q, proc'[q], chain, derived)
  BY <1>4, <1>8, IdleIsLocal
<1> QED BY <1>2, <1>6, <1>7, <1>9 DEF Inv

LEMMA CreateIdentityKeeps == ASSUME Inv, NEW m \in Miners, CreateIdentity(m) PROVE Inv'
<1> DEFINE s == [proc[m] EXCEPT !.pc = "binding"]
<1>1. /\ m \in Procs /\ Running(m) /\ Goto(m, "binding") /\ m \notin Redoers
      /\ proc[m].pc = "preparing" /\ (proc[m].fresh => chain = << <<>> >>)
      /\ UNCHANGED <<lock, chain, derived, paid, faults>> /\ identity' = "torn"
  BY MiningAssumption DEF CreateIdentity, Evidence, At_, Running, Procs
<1>2. proc[m] \in States /\ Local(m, proc[m], chain, derived)
  BY <1>1 DEF Inv, TypeInv
<1>3. /\ s.pc = "binding" /\ s.fresh = proc[m].fresh /\ s.queue = proc[m].queue
  BY <1>2, SameFields
<1>4. Local(m, s, chain, derived)
  <2> HIDE DEF s
  <2> QED BY <1>1, <1>2, <1>3 DEF Local, QueueOK, TargetOK, KnowsPaid, FreshOK, DerivedOK,
          Committing, InLoop, DerivedFiles
<1>5. "binding" \in Pcs \ {"out"}
  BY DEF Pcs
<1> QED BY <1>1, <1>4, <1>5, GoesTo DEF Inv, TypeInv

LEMMA WriteIdentityKeeps == ASSUME Inv, NEW m \in Miners, WriteIdentity(m) PROVE Inv'
<1> DEFINE s == [proc[m] EXCEPT !.pc = "bound"]
<1>1. /\ m \in Procs /\ Running(m) /\ Goto(m, "bound") /\ m \notin Redoers
      /\ proc[m].pc = "binding"
      /\ UNCHANGED <<lock, chain, derived, paid, faults>> /\ identity' = "bound"
  BY MiningAssumption DEF WriteIdentity, At_, Running, Procs
<1>2. proc[m] \in States /\ Local(m, proc[m], chain, derived)
  BY <1>1 DEF Inv, TypeInv
<1>3. /\ s.pc = "bound" /\ s.fresh = proc[m].fresh /\ s.queue = proc[m].queue
  BY <1>2, SameFields
<1>4. Local(m, s, chain, derived)
  <2> HIDE DEF s
  <2> QED BY <1>1, <1>2, <1>3 DEF Local, QueueOK, TargetOK, KnowsPaid, FreshOK, DerivedOK,
          Committing, InLoop, DerivedFiles
<1>5. "bound" \in Pcs \ {"out"}
  BY DEF Pcs
<1> QED BY <1>1, <1>4, <1>5, GoesTo DEF Inv, TypeInv

LEMMA MatchIdentityKeeps == ASSUME Inv, NEW m \in Miners, MatchIdentity(m) PROVE Inv'
<1> DEFINE s == [proc[m] EXCEPT !.pc = "bound"]
<1>1. /\ m \in Procs /\ Running(m) /\ Goto(m, "bound") /\ m \notin Redoers
      /\ proc[m].pc = "preparing" /\ (proc[m].fresh => chain = << <<>> >>)
      /\ UNCHANGED <<identity, lock, chain, derived, paid, faults>>
  BY MiningAssumption DEF MatchIdentity, Evidence, At_, Running, Procs
<1>2. proc[m] \in States /\ Local(m, proc[m], chain, derived)
  BY <1>1 DEF Inv, TypeInv
<1>3. /\ s.pc = "bound" /\ s.fresh = proc[m].fresh /\ s.queue = proc[m].queue
  BY <1>2, SameFields
<1>4. Local(m, s, chain, derived)
  <2> HIDE DEF s
  <2> QED BY <1>1, <1>2, <1>3 DEF Local, QueueOK, TargetOK, KnowsPaid, FreshOK, DerivedOK,
          Committing, InLoop, DerivedFiles
<1>5. "bound" \in Pcs \ {"out"}
  BY DEF Pcs
<1> QED BY <1>1, <1>4, <1>5, GoesTo DEF Inv, TypeInv

LEMMA ReadLedgerKeeps == ASSUME Inv, NEW m \in Miners, ReadLedger(m) PROVE Inv'
<1> DEFINE s == [proc[m] EXCEPT !.pc = "mining", !.already = ProcessedIds(chain)]
<1>0. Verified(chain) /\ ProcessedIds(chain) \subseteq Prompts
  BY ChainTypes
<1>1. /\ m \in Procs /\ Running(m) /\ m \notin Redoers /\ proc[m].pc = "bound"
      /\ proc' = [proc EXCEPT ![m].pc = "mining", ![m].already = ProcessedIds(chain)]
      /\ UNCHANGED <<identity, lock, chain, derived, paid, faults>>
  BY <1>0, MiningAssumption DEF ReadLedger, At_, Running, Procs
<1>2. proc[m] \in States /\ Local(m, proc[m], chain, derived)
  BY <1>1 DEF Inv, TypeInv
<1>3. s \in States /\ proc' = [proc EXCEPT ![m] = s]
  <2>1. "mining" \in Pcs
    BY DEF Pcs
  <2> QED BY <1>0, <1>1, <1>2, <2>1 DEF States
<1>4. s.pc = "mining" /\ s.queue = proc[m].queue /\ s.already = ProcessedIds(chain)
  BY <1>2 DEF States
<1> HIDE DEF s
<1>5. Local(m, s, chain, derived)
  BY <1>1, <1>2, <1>4 DEF Local, QueueOK, TargetOK, KnowsPaid, FreshOK, DerivedOK,
          Committing, InLoop, DerivedFiles
<1> QED BY <1>1, <1>3, <1>4, <1>5, OneMoves DEF Inv, TypeInv

-----------------------------------------------------------------------------
(* The loop, up to the append. *)

LEMMA SkipKeeps == ASSUME Inv, NEW m \in Miners, Skip(m) PROVE Inv'
<1> DEFINE s == [proc[m] EXCEPT !.at = @ + 1]
<1>1. /\ m \in Procs /\ Running(m) /\ m \notin Redoers /\ proc[m].pc = "mining"
      /\ proc' = [proc EXCEPT ![m].at = @ + 1]
      /\ UNCHANGED <<identity, lock, chain, derived, paid, faults>>
  BY MiningAssumption DEF Skip, At_, Running, Procs
<1>2. proc[m] \in States /\ Local(m, proc[m], chain, derived)
  BY <1>1 DEF Inv, TypeInv
<1>3. s \in States /\ proc' = [proc EXCEPT ![m] = s]
  BY <1>1, <1>2 DEF States
<1>4. /\ s.pc = "mining" /\ s.queue = proc[m].queue /\ s.already = proc[m].already
      /\ s.at = proc[m].at + 1 /\ proc[m].at \in Nat
  BY <1>1, <1>2 DEF States
<1> HIDE DEF s
<1>5. Len(Selected) \in Nat
  BY MiningAssumption
<1>6. s.at .. Len(Selected) \subseteq proc[m].at .. Len(Selected)
  BY <1>4, <1>5
<1>7. Local(m, s, chain, derived)
  BY <1>1, <1>2, <1>4, <1>6 DEF Local, QueueOK, TargetOK, KnowsPaid, FreshOK, DerivedOK,
          Committing, InLoop, DerivedFiles
<1> QED BY <1>1, <1>3, <1>4, <1>7, OneMoves DEF Inv, TypeInv

LEMMA SampleKeeps == ASSUME Inv, NEW m \in Miners, Sample(m) PROVE Inv'
<1> DEFINE s == [proc[m] EXCEPT !.pc = "sampled"]
<1>1. /\ m \in Procs /\ Running(m) /\ m \notin Redoers /\ proc[m].pc = "mining"
      /\ proc[m].at <= Len(Selected) /\ Selected[proc[m].at] \notin proc[m].already
      /\ Goto(m, "sampled")
      /\ UNCHANGED <<identity, lock, chain, derived, faults>> /\ paid' = paid + 1
  BY MiningAssumption DEF Sample, Current, At_, Running, Procs
<1>2. proc[m] \in States /\ Local(m, proc[m], chain, derived)
  BY <1>1 DEF Inv, TypeInv
<1>3. s.pc = "sampled" /\ s.queue = proc[m].queue /\ s.already = proc[m].already
      /\ s.at = proc[m].at
  BY <1>2, SameFields
<1>4. Local(m, s, chain, derived)
  <2> HIDE DEF s
  <2> QED BY <1>1, <1>2, <1>3 DEF Local, QueueOK, TargetOK, KnowsPaid, FreshOK, DerivedOK,
          Committing, InLoop, DerivedFiles
<1>5. "sampled" \in Pcs \ {"out"}
  BY DEF Pcs
<1> QED BY <1>1, <1>4, <1>5, GoesTo DEF Inv, TypeInv

\* What the sampled prompt is, and that nothing in effect holds it.
LEMMA SampledIsNew ==
    ASSUME Inv, NEW m \in Miners, proc[m].pc \in InLoop \ {"mining"}
    PROVE  /\ proc[m].at \in 1 .. Len(Selected)
           /\ Selected[proc[m].at] \in Prompts
           /\ Selected[proc[m].at] \notin ProcessedIds(chain)
<1>1. proc[m] \in States /\ Local(m, proc[m], chain, derived)
  BY DEF Inv, TypeInv, Procs
<1>2. proc[m].at \in Nat \ {0} /\ Len(Selected) \in Nat
  BY <1>1, MiningAssumption DEF States
<1>3. proc[m].at \in 1 .. Len(Selected) /\ proc[m].at \in proc[m].at .. Len(Selected)
  BY <1>1, <1>2 DEF Local, KnowsPaid
<1>4. Selected[proc[m].at] \in Prompts
  BY <1>3, MiningAssumption, ElementOfSeq
<1> QED BY <1>1, <1>3, <1>4 DEF Local, KnowsPaid

LEMMA StartAppendKeeps == ASSUME Inv, NEW m \in Miners, StartAppend(m) PROVE Inv'
<1> DEFINE d == WorkDraft(Selected[proc[m].at])
           s == [proc[m] EXCEPT !.pc = "commit", !.queue = {d}]
<1>0. Verified(chain)
  BY ChainTypes
<1>1. /\ m \in Procs /\ Running(m) /\ m \notin Redoers /\ proc[m].pc = "sampled"
      /\ UNCHANGED <<identity, lock, chain, derived, paid, faults>>
  BY MiningAssumption DEF StartAppend, At_, Running, Procs
<1>2. /\ Selected[proc[m].at] \in Prompts
      /\ Selected[proc[m].at] \notin ProcessedIds(chain)
  BY <1>1, SampledIsNew DEF InLoop
<1>3. proc' = [proc EXCEPT ![m].pc = "commit", ![m].queue = {d}]
  BY <1>0, <1>2 DEF StartAppend, Current
<1>4. proc[m] \in States /\ Local(m, proc[m], chain, derived)
  BY <1>1 DEF Inv, TypeInv
<1>5. d \in Drafts
  BY <1>2 DEF WorkDraft, Drafts
<1> HIDE DEF d
<1>6. s \in States /\ proc' = [proc EXCEPT ![m] = s]
  <2>1. "commit" \in Pcs
    BY DEF Pcs, RedoPcs
  <2> QED BY <1>3, <1>4, <1>5, <2>1 DEF States
<1>7. s.pc = "commit" /\ s.queue = {d} /\ s.already = proc[m].already
      /\ s.at = proc[m].at
  BY <1>4 DEF States
<1> HIDE DEF s
<1>8. Local(m, s, chain, derived)
  <2>1. QueueOK(m, s, chain)
    BY <1>1, <1>7 DEF QueueOK, d, Committing
  <2>2. KnowsPaid(m, s, chain)
    BY <1>1, <1>4, <1>7 DEF Local, KnowsPaid, InLoop
  <2> QED BY <1>1, <1>4, <1>7, <2>1, <2>2
          DEF Local, TargetOK, FreshOK, DerivedOK, DerivedFiles
<1> QED BY <1>1, <1>6, <1>7, <1>8, OneMoves DEF Inv, TypeInv

\* A miner whose loop is over, whatever the reason, derives.
LEMMA DerivingKeeps ==
    ASSUME Inv, NEW m \in Miners, proc[m].pc \in {"mining", "sampled"},
           Goto(m, "deriving"), UNCHANGED <<identity, lock, chain, derived, paid>>,
           faults' \in Nat
    PROVE  Inv'
<1> DEFINE s == [proc[m] EXCEPT !.pc = "deriving"]
<1>1. m \in Procs /\ Running(m) /\ m \notin Redoers
  BY MiningAssumption DEF Running, Procs
<1>2. proc[m] \in States /\ Local(m, proc[m], chain, derived)
  BY <1>1 DEF Inv, TypeInv
<1>3. s.pc = "deriving" /\ s.queue = proc[m].queue
  BY <1>2, SameFields
<1>4. Local(m, s, chain, derived)
  <2> HIDE DEF s
  <2> QED BY <1>1, <1>2, <1>3 DEF Local, QueueOK, TargetOK, KnowsPaid, FreshOK, DerivedOK,
          Committing, InLoop, DerivedFiles
<1>5. "deriving" \in Pcs \ {"out"}
  BY DEF Pcs, RedoPcs
<1> QED BY <1>1, <1>4, <1>5, GoesTo DEF Inv, TypeInv

LEMMA LoopEndsKeeps ==
    ASSUME Inv, NEW m \in Miners, LoopEnds(m) \/ SampleFails(m) PROVE Inv'
<1>1. /\ proc[m].pc \in {"mining", "sampled"} /\ Goto(m, "deriving")
      /\ UNCHANGED <<identity, lock, chain, derived, paid>>
  BY DEF LoopEnds, SampleFails, At_
<1>2. faults' = faults \/ faults' = faults + 1
  BY DEF LoopEnds, SampleFails
<1> QED BY <1>1, <1>2, DerivingKeeps DEF Inv, TypeInv

-----------------------------------------------------------------------------
(* A rollback starts. *)

\* What redo_last chooses, as drafts.
LEMMA ChosenDrafts ==
    ASSUME NEW B \in Nat, NEW ch, Sound(B, ch), NEW n, NEW e \in LastActive(ch, n),
           NEW d, d = RedoDraft(e)
    PROVE  /\ d \in Drafts
           /\ d.type = "redo" /\ d.prompt = e.prompt /\ d.supersedes = e.seq
           /\ \E t \in ActivePos(ch) : /\ At(ch, t).prompt = d.prompt
                                      /\ At(ch, t).seq = d.supersedes
<1>1. e \in Active(ch) /\ DiskOK(ch)
  BY SoundReads DEF LastActive
<1>2. e.prompt \in Prompts /\ e.seq \in Nat
  BY <1>1, ActiveIsWork
<1>3. /\ d.type = "redo" /\ d.prompt = e.prompt /\ d.supersedes = e.seq
      /\ d \in Drafts
  BY <1>2 DEF RedoDraft, Drafts
<1>4. \E t \in ActivePos(ch) : At(ch, t) = e
  BY <1>1 DEF Active
<1> QED BY <1>3, <1>4

LEMMA StartRedoKeeps ==
    ASSUME Inv, ~ Alongside, NEW r \in Redoers, NEW n \in 0 .. MaxRedo, StartRedo(r, n)
    PROVE  Inv'
<1> DEFINE Q == {RedoDraft(e) : e \in LastActive(chain, n)}
           x == IF Q = {} THEN "deriving" ELSE "commit"
           s == [proc[r] EXCEPT !.queue = Q, !.pc = x]
<1>1. /\ \A q \in Procs : ~ Running(q)
      /\ proc' = [proc EXCEPT ![r].queue = Q, ![r].pc = x]
      /\ UNCHANGED <<identity, lock, chain, derived, paid, faults>>
  BY DEF StartRedo
<1>2. r \in Procs /\ r \notin Miners
  BY MiningAssumption DEF Procs
<1>3. /\ Q \subseteq Drafts
      /\ \A d \in Q :
           /\ d.type = "redo"
           /\ \E t \in ActivePos(chain) : /\ At(chain, t).prompt = d.prompt
                                         /\ At(chain, t).seq = d.supersedes
  <2> SUFFICES ASSUME NEW d \in Q
               PROVE  /\ d \in Drafts /\ d.type = "redo"
                      /\ \E t \in ActivePos(chain) : /\ At(chain, t).prompt = d.prompt
                                                    /\ At(chain, t).seq = d.supersedes
    OBVIOUS
  <2>1. Sound(MaxSeq, chain) /\ MaxSeq \in Nat
    BY MiningAssumption DEF Inv
  <2>2. PICK e \in LastActive(chain, n) : d = RedoDraft(e)
    OBVIOUS
  <2> QED BY <2>1, <2>2, ChosenDrafts
<1>4. proc[r] \in States /\ \A q \in Procs : proc[q] = Idle
  BY <1>1, <1>2 DEF Inv, TypeInv
<1>5. x \in RedoPcs /\ x \in Pcs /\ x \in {"deriving", "commit"}
      /\ (x # "commit" => Q = {})
  BY DEF Pcs, RedoPcs
<1> HIDE DEF Q, x
<1>6. s \in States /\ proc' = [proc EXCEPT ![r] = s] /\ s.pc = x /\ s.queue = Q
  BY <1>1, <1>3, <1>4, <1>5 DEF States
<1> HIDE DEF s
<1>7. /\ proc' \in [Procs -> States] /\ proc'[r] = s
      /\ \A q \in Procs : q # r => proc'[q] = Idle
  BY <1>2, <1>4, <1>6 DEF Inv, TypeInv
<1>8. TypeInv'
  <2>1. \A q \in Redoers : proc'[q].pc \in RedoPcs
    BY <1>5, <1>6, <1>7, IdleIsAState DEF RedoPcs, Procs
  <2>2. \A q \in Procs : proc'[q].pc = "out" => proc'[q] = Idle
    BY <1>5, <1>6, <1>7
  <2> QED BY <1>1, <1>7, <2>1, <2>2 DEF Inv, TypeInv, Running
<1>9. AloneInv'
  <2>1. \A q \in Procs : proc'[q].pc # "out" => q = r
    BY <1>7, IdleIsAState
  <2> QED BY <1>2, <2>1 DEF AloneInv, Running, Procs
<1>10. Local(r, s, chain, derived)
  <2>1. QueueOK(r, s, chain)
    BY <1>2, <1>3, <1>5, <1>6 DEF QueueOK, Committing
  <2> QED BY <1>2, <1>5, <1>6, <2>1
          DEF Local, TargetOK, KnowsPaid, FreshOK, DerivedOK, DerivedFiles
<1>11. \A q \in Procs : Local(q, proc'[q], chain, derived)
  BY <1>7, <1>10, IdleIsLocal
<1> QED BY <1>1, <1>8, <1>9, <1>11 DEF Inv

-----------------------------------------------------------------------------
(* _commit. *)

LEMMA ChooseSegmentKeeps == ASSUME Inv, NEW p \in Procs, ChooseSegment(p) PROVE Inv'
<1> DEFINE s == [proc[p] EXCEPT !.pc = "allocate", !.target = Len(chain)]
<1>1. /\ Running(p) /\ proc[p].pc = "commit" /\ ~ TornTail(ActiveSegment(chain))
      /\ proc' = [proc EXCEPT ![p].pc = "allocate", ![p].target = Len(chain)]
      /\ UNCHANGED <<identity, lock, chain, derived, paid, faults>>
  BY DEF ChooseSegment, At_, Running
<1>2. proc[p] \in States /\ Local(p, proc[p], chain, derived) /\ Len(chain) \in Nat
  BY SoundReads, MiningAssumption DEF Inv, TypeInv
<1>3. s \in States /\ proc' = [proc EXCEPT ![p] = s]
  <2>1. "allocate" \in Pcs
    BY DEF Pcs, RedoPcs
  <2> QED BY <1>1, <1>2, <2>1 DEF States
<1>4. /\ s.pc = "allocate" /\ s.queue = proc[p].queue /\ s.already = proc[p].already
      /\ s.at = proc[p].at /\ s.target = Len(chain)
  BY <1>2 DEF States
<1> HIDE DEF s
<1>5. Local(p, s, chain, derived)
  <2>1. QueueOK(p, s, chain)
    BY <1>1, <1>2, <1>4 DEF Local, QueueOK, Committing
  <2>2. KnowsPaid(p, s, chain)
    BY <1>1, <1>2, <1>4 DEF Local, KnowsPaid, InLoop, Committing
  <2> QED BY <1>1, <1>4, <2>1, <2>2 DEF Local, TargetOK, FreshOK, DerivedOK, DerivedFiles
<1>6. s.pc \in RedoPcs /\ s.pc # "out"
  BY <1>4 DEF RedoPcs
<1> QED BY <1>1, <1>3, <1>5, <1>6, OneMoves DEF Inv, TypeInv

LEMMA SealAndRotateKeeps == ASSUME Inv, NEW p \in Procs, SealAndRotate(p) PROVE Inv'
<1> DEFINE s == [proc[p] EXCEPT !.pc = "allocate", !.target = Len(chain) + 1]
<1>0. Verified(chain)
  BY ChainTypes
<1>1. /\ Running(p) /\ proc[p].pc = "commit"
      /\ proc' = [proc EXCEPT ![p].pc = "allocate", ![p].target = Len(chain) + 1]
      /\ NextSeq(chain) <= MaxSeq /\ Rotated(chain, chain')
      /\ UNCHANGED <<identity, lock, derived, paid, faults>>
  BY <1>0 DEF SealAndRotate, At_, Running, Rotated
<1>2. /\ proc[p] \in States /\ Local(p, proc[p], chain, derived) /\ Len(chain) \in Nat
      /\ Sound(MaxSeq, chain) /\ MaxSeq \in Nat
  BY SoundReads, MiningAssumption DEF Inv, TypeInv
<1>3. s \in States /\ proc' = [proc EXCEPT ![p] = s]
  <2>1. "allocate" \in Pcs
    BY DEF Pcs, RedoPcs
  <2>2. Len(chain) + 1 \in Nat
    BY <1>2
  <2>3. s \in States
    BY <1>2, <2>1, <2>2 DEF States
  <2> QED BY <1>1, <2>3
<1>4. /\ s.pc = "allocate" /\ s.queue = proc[p].queue /\ s.already = proc[p].already
      /\ s.at = proc[p].at /\ s.target = Len(chain) + 1
  BY <1>2 DEF States
<1> HIDE DEF s
<1>5. /\ Sound(MaxSeq, chain') /\ Len(chain') = Len(chain) + 1
      /\ ~ TornTail(ActiveSegment(chain'))
      /\ ActivePos(chain') = ActivePos(chain)
      /\ \A q \in ActivePos(chain) : At(chain', q) = At(chain, q)
  BY <1>1, <1>2, SoundRotation
<1>6. ProcessedIds(chain') = ProcessedIds(chain)
  BY <1>5, EntriesSame
<1>7. Local(p, s, chain', derived)
  <2>1. QueueOK(p, s, chain')
    BY <1>1, <1>2, <1>4, <1>5 DEF Local, QueueOK, Committing
  <2>2. KnowsPaid(p, s, chain')
    BY <1>1, <1>2, <1>4, <1>6 DEF Local, KnowsPaid, InLoop, Committing
  <2> QED BY <1>1, <1>4, <1>5, <2>1, <2>2
          DEF Local, TargetOK, FreshOK, DerivedOK, DerivedFiles
<1>8. s.pc \in RedoPcs /\ s.pc # "out"
  BY <1>4 DEF RedoPcs
<1> QED BY <1>1, <1>3, <1>5, <1>7, <1>8, OneMoves DEF Inv, TypeInv

LEMMA AllocateKeeps == ASSUME Inv, NEW p \in Procs, Allocate(p) PROVE Inv'
<1> DEFINE s == [proc[p] EXCEPT !.pc = "write", !.seq = NextSeq(chain)]
<1>0. Verified(chain) /\ NextSeq(chain) \in Nat
  BY ChainTypes
<1>1. /\ Running(p) /\ proc[p].pc = "allocate" /\ NextSeq(chain) <= MaxSeq
      /\ proc' = [proc EXCEPT ![p].pc = "write", ![p].seq = NextSeq(chain)]
      /\ UNCHANGED <<identity, lock, chain, derived, paid, faults>>
  BY <1>0 DEF Allocate, At_, Running
<1>2. proc[p] \in States /\ Local(p, proc[p], chain, derived)
  BY DEF Inv, TypeInv
<1>3. s \in States /\ proc' = [proc EXCEPT ![p] = s]
  <2>1. "write" \in Pcs
    BY DEF Pcs, RedoPcs
  <2> QED BY <1>0, <1>1, <1>2, <2>1 DEF States
<1>4. /\ s.pc = "write" /\ s.queue = proc[p].queue /\ s.already = proc[p].already
      /\ s.at = proc[p].at /\ s.target = proc[p].target /\ s.seq = NextSeq(chain)
  BY <1>2 DEF States
<1> HIDE DEF s
<1>5. Local(p, s, chain, derived)
  <2>1. QueueOK(p, s, chain)
    BY <1>1, <1>2, <1>4 DEF Local, QueueOK, Committing
  <2>2. KnowsPaid(p, s, chain)
    BY <1>1, <1>2, <1>4 DEF Local, KnowsPaid, InLoop, Committing
  <2>3. TargetOK(s, chain)
    BY <1>1, <1>2, <1>4 DEF Local, TargetOK
  <2> QED BY <1>1, <1>4, <2>1, <2>2, <2>3 DEF Local, FreshOK, DerivedOK, DerivedFiles
<1>6. s.pc \in RedoPcs /\ s.pc # "out"
  BY <1>4 DEF RedoPcs
<1> QED BY <1>1, <1>3, <1>5, <1>6, OneMoves DEF Inv, TypeInv

\* What a process that writes knows: the line lands where and as it was meant.
LEMMA WriteLands ==
    ASSUME Inv, NEW p \in Procs, NEW d, WriteLine(p, d)
    PROVE  /\ Running(p) /\ proc[p].pc = "write" /\ proc[p] \in States
           /\ d \in proc[p].queue /\ d \in Drafts
           /\ ~ TornTail(ActiveSegment(chain)) /\ NextSeq(chain) <= MaxSeq
           /\ Wrote(chain, chain', Stamped(d, NextSeq(chain)))
           /\ Stamped(d, NextSeq(chain)).prompt = d.prompt
           /\ Stamped(d, NextSeq(chain)).seq = NextSeq(chain)
           /\ Stamped(d, NextSeq(chain)).type = d.type
           /\ p \in Miners => /\ d = WorkDraft(Selected[proc[p].at])
                              /\ d.type = "work" /\ d.prompt = Selected[proc[p].at]
                              /\ proc[p].queue = {d}
           /\ p \in Redoers => d.type = "redo"
<1>1. /\ proc[p].pc = "write" /\ Running(p) /\ d \in proc[p].queue
      /\ chain' = [chain EXCEPT ![proc[p].target] =
                     Written(@, Line(Stamped(d, proc[p].seq), TRUE))]
  BY DEF WriteLine, InTurn, Write, At_, Running
<1>2. proc[p] \in States /\ Local(p, proc[p], chain, derived)
  BY DEF Inv, TypeInv
<1>3. /\ proc[p].target = Len(chain) /\ proc[p].seq = NextSeq(chain)
      /\ ~ TornTail(ActiveSegment(chain)) /\ NextSeq(chain) <= MaxSeq
  BY <1>1, <1>2 DEF Local, TargetOK
<1>4. d \in Drafts /\ NextSeq(chain) \in Nat
  BY <1>1, <1>2, ChainTypes DEF States
<1>5. Wrote(chain, chain', Stamped(d, NextSeq(chain)))
  BY <1>1, <1>3 DEF Wrote
<1>6. p \in Miners => /\ d = WorkDraft(Selected[proc[p].at])
                      /\ d.type = "work" /\ d.prompt = Selected[proc[p].at]
                      /\ proc[p].queue = {d}
  BY <1>1, <1>2 DEF Local, QueueOK, Committing, WorkDraft
<1>7. p \in Redoers => d.type = "redo"
  BY <1>1, <1>2 DEF Local, QueueOK, Committing
<1>8. /\ Stamped(d, NextSeq(chain)).prompt = d.prompt
      /\ Stamped(d, NextSeq(chain)).seq = NextSeq(chain)
      /\ Stamped(d, NextSeq(chain)).type = d.type
  BY <1>4, StampedIsARecord
<1> QED BY <1>1, <1>2, <1>3, <1>4, <1>5, <1>6, <1>7, <1>8

\* A miner's line returns: its prompt is in effect, the ones ahead are not.
LEMMA WriteWorkKeeps ==
    ASSUME Inv, NEW p \in Miners, NEW d, WriteLine(p, d) PROVE Inv'
<1> DEFINE s == [proc[p] EXCEPT !.queue = @ \ {d}, !.at = @ + 1, !.pc = "mining"]
<1>0. p \in Procs /\ p \notin Redoers
  BY MiningAssumption DEF Procs
<1>1. /\ Running(p) /\ proc[p].pc = "write" /\ proc[p] \in States
      /\ d \in Drafts /\ d.type = "work" /\ d.prompt = Selected[proc[p].at]
      /\ proc[p].queue = {d}
      /\ ~ TornTail(ActiveSegment(chain)) /\ NextSeq(chain) <= MaxSeq
      /\ Wrote(chain, chain', Stamped(d, NextSeq(chain)))
      /\ Stamped(d, NextSeq(chain)).prompt = d.prompt
  BY <1>0, WriteLands
<1>2. /\ proc' = [proc EXCEPT ![p].queue = @ \ {d}, ![p].at = @ + 1, ![p].pc = "mining"]
      /\ UNCHANGED <<identity, lock, derived, paid, faults>>
  BY DEF WriteLine
<1>3. Local(p, proc[p], chain, derived) /\ Sound(MaxSeq, chain) /\ MaxSeq \in Nat
  BY <1>0, MiningAssumption DEF Inv
<1>4. s \in States /\ proc' = [proc EXCEPT ![p] = s]
  <2>1. "mining" \in Pcs /\ proc[p].at + 1 \in Nat \ {0}
    BY <1>1 DEF Pcs, States
  <2>2. s \in States
    BY <1>1, <2>1 DEF States
  <2> QED BY <1>2, <2>2
<1>5. /\ s.pc = "mining" /\ s.queue = {} /\ s.already = proc[p].already
      /\ s.at = proc[p].at + 1
  BY <1>1 DEF States
<1> HIDE DEF s
<1>6. /\ Sound(MaxSeq, chain')
      /\ \E z : /\ ActivePos(chain') = ActivePos(chain) \cup {z}
                /\ At(chain', z) = Stamped(d, NextSeq(chain))
                /\ \A q \in ActivePos(chain) : At(chain', q) = At(chain, q)
  BY <1>1, <1>3, SoundWork
<1>7. \A x : x \in ProcessedIds(chain') =>
               x \in ProcessedIds(chain) \/ x = Selected[proc[p].at]
  BY <1>1, <1>6, ProcessedAt
<1>8. KnowsPaid(p, s, chain')
  <2>0. Len(Selected) \in Nat /\ proc[p].at \in 1 .. Len(Selected)
    BY <1>1, MiningAssumption, SampledIsNew DEF InLoop, Committing
  <2> SUFFICES ASSUME NEW i \in s.at .. Len(Selected),
                      Selected[i] \in ProcessedIds(chain')
               PROVE  Selected[i] \in s.already
    BY <1>5 DEF KnowsPaid
  <2>1. i \in proc[p].at .. Len(Selected) /\ i \in 1 .. Len(Selected) /\ i # proc[p].at
    BY <1>5, <2>0
  <2>2. Selected[i] # Selected[proc[p].at]
    BY <2>0, <2>1, SelectedOnce
  <2>3. Selected[i] \in ProcessedIds(chain)
    BY <1>7, <2>2
  <2> QED BY <1>1, <1>3, <1>5, <2>1, <2>3 DEF Local, KnowsPaid, InLoop, Committing
<1>9. Local(p, s, chain', derived)
  BY <1>5, <1>8
     DEF Local, QueueOK, TargetOK, FreshOK, DerivedOK, DerivedFiles, Committing
<1> QED BY <1>0, <1>1, <1>2, <1>4, <1>5, <1>6, <1>9, OneMoves DEF Inv, TypeInv

\* A rollback's line returns: its target is out, the targets ahead are not.
LEMMA WriteRedoKeeps ==
    ASSUME Inv, NEW p \in Redoers, NEW d, WriteLine(p, d) PROVE Inv'
<1> DEFINE x == IF proc[p].queue = {d} THEN "deriving" ELSE "commit"
           s == [proc[p] EXCEPT !.queue = @ \ {d}, !.at = @, !.pc = x]
<1>0. p \in Procs /\ p \notin Miners
  BY MiningAssumption DEF Procs
<1>1. /\ Running(p) /\ proc[p].pc = "write" /\ proc[p] \in States
      /\ d \in Drafts /\ d.type = "redo" /\ d \in proc[p].queue
      /\ ~ TornTail(ActiveSegment(chain)) /\ NextSeq(chain) <= MaxSeq
      /\ Wrote(chain, chain', Stamped(d, NextSeq(chain)))
  BY <1>0, WriteLands
<1>2. /\ proc' = [proc EXCEPT ![p].queue = @ \ {d}, ![p].at = @, ![p].pc = x]
      /\ UNCHANGED <<identity, lock, derived, paid, faults>>
  BY <1>0 DEF WriteLine
<1>3. Local(p, proc[p], chain, derived) /\ Sound(MaxSeq, chain) /\ MaxSeq \in Nat
  BY <1>0, MiningAssumption DEF Inv
<1>4. x \in RedoPcs /\ x \in Pcs /\ x \in {"deriving", "commit"}
      /\ (x # "commit" => proc[p].queue \ {d} = {})
  BY <1>1 DEF Pcs, RedoPcs
<1> HIDE DEF x
<1>5. s \in States /\ proc' = [proc EXCEPT ![p] = s]
  <2>1. s \in States
    BY <1>1, <1>4 DEF States
  <2> QED BY <1>2, <2>1
<1>6. s.pc = x /\ s.queue = proc[p].queue \ {d}
  BY <1>1 DEF States
<1> HIDE DEF s
<1>7. PICK t \in ActivePos(chain) : /\ At(chain, t).prompt = d.prompt
                                   /\ At(chain, t).seq = d.supersedes
  BY <1>0, <1>1, <1>3 DEF Local, QueueOK, Committing
<1>8. /\ Sound(MaxSeq, chain')
      /\ ActivePos(chain') = ActivePos(chain) \ {t}
      /\ \A q \in ActivePos(chain) : At(chain', q) = At(chain, q)
  BY <1>1, <1>3, <1>7, SoundRedo
<1>9. ASSUME NEW e \in s.queue
      PROVE  /\ e.type = "redo"
             /\ \E u \in ActivePos(chain') : /\ At(chain', u).prompt = e.prompt
                                            /\ At(chain', u).seq = e.supersedes
  <2>1. e \in proc[p].queue /\ e # d /\ e \in Drafts
    BY <1>1, <1>6, <1>9 DEF States
  <2>2. e.type = "redo"
    BY <1>0, <1>1, <1>3, <2>1 DEF Local, QueueOK, Committing
  <2>3. PICK u \in ActivePos(chain) : /\ At(chain, u).prompt = e.prompt
                                     /\ At(chain, u).seq = e.supersedes
    BY <1>0, <1>1, <1>3, <2>1 DEF Local, QueueOK, Committing
  <2>4. u # t
    <3> SUFFICES ASSUME u = t PROVE e = d
      BY <2>1
    <3>1. e.prompt = d.prompt /\ e.supersedes = d.supersedes
      BY <1>7, <2>3
    <3> QED BY <1>1, <2>1, <2>2, <3>1 DEF Drafts
  <2> QED BY <1>8, <2>2, <2>3, <2>4
<1>10. QueueOK(p, s, chain')
  BY <1>0, <1>4, <1>6, <1>9 DEF QueueOK, Committing
<1>11. Local(p, s, chain', derived)
  BY <1>0, <1>4, <1>6, <1>10
     DEF Local, TargetOK, KnowsPaid, FreshOK, DerivedOK, DerivedFiles
<1>12. s.pc \in RedoPcs /\ s.pc # "out"
  BY <1>4, <1>6
<1> QED BY <1>0, <1>1, <1>2, <1>5, <1>8, <1>11, <1>12, OneMoves DEF Inv, TypeInv

-----------------------------------------------------------------------------
(* The derivatives, and the end of a process. *)

LEMMA SummarizeKeeps == ASSUME Inv, NEW p \in Procs, Summarize(p) PROVE Inv'
<1> DEFINE s == [proc[p] EXCEPT !.pc = "mined_pairs", !.snap = Active(chain)]
<1>0. Verified(chain) /\ Active(chain) \subseteq WorkRecords
  BY ChainTypes
<1>1. /\ Running(p) /\ proc[p].pc = "deriving"
      /\ proc' = [proc EXCEPT ![p].pc = "mined_pairs", ![p].snap = Active(chain)]
      /\ UNCHANGED <<identity, lock, chain, derived, paid, faults>>
  BY <1>0 DEF Summarize, At_, Running
<1>2. proc[p] \in States /\ Local(p, proc[p], chain, derived)
  BY DEF Inv, TypeInv
<1>3. s \in States /\ proc' = [proc EXCEPT ![p] = s]
  <2>1. "mined_pairs" \in Pcs
    BY DEF Pcs, RedoPcs
  <2> QED BY <1>0, <1>1, <1>2, <2>1 DEF States
<1>4. s.pc = "mined_pairs" /\ s.queue = proc[p].queue /\ s.snap = Active(chain)
  BY <1>2 DEF States
<1> HIDE DEF s
<1>5. Local(p, s, chain, derived)
  BY <1>1, <1>2, <1>4 DEF Local, QueueOK, TargetOK, KnowsPaid, FreshOK, DerivedOK,
          Committing, InLoop, DerivedFiles
<1>6. s.pc \in RedoPcs /\ s.pc # "out"
  BY <1>4 DEF RedoPcs
<1> QED BY <1>1, <1>3, <1>5, <1>6, OneMoves DEF Inv, TypeInv

LEMMA WriteDerivedKeeps ==
    ASSUME Inv, NEW p \in Procs, NEW f, NEW next, WriteDerived(p, f, next),
           <<f, next>> \in {<<"mined_pairs", "sft_bucket">>,
                            <<"sft_bucket", "mining_summary">>,
                            <<"mining_summary", "returning">>}
    PROVE  Inv'
<1> DEFINE s == [proc[p] EXCEPT !.pc = next]
<1>1. /\ Running(p) /\ proc[p].pc = f /\ Goto(p, next) /\ f \in DerivedFiles
      /\ derived' = [derived EXCEPT ![f] = proc[p].snap]
      /\ UNCHANGED <<identity, lock, chain, paid, faults>>
  BY DEF WriteDerived, At_, Running, DerivedFiles
<1>2. /\ proc[p] \in States /\ Local(p, proc[p], chain, derived)
      /\ derived \in [DerivedFiles -> SUBSET (WorkRecords \cup {Garbage})]
  BY DEF Inv, TypeInv
<1>3. /\ s.pc = next /\ s.queue = proc[p].queue /\ s.snap = proc[p].snap
      /\ s.snap \subseteq WorkRecords
  BY <1>2, SameFields DEF States
<1>4. /\ derived' \in [DerivedFiles -> SUBSET (WorkRecords \cup {Garbage})]
      /\ derived'[f] = proc[p].snap
      /\ \A g \in DerivedFiles : g # f => derived'[g] = derived[g]
  BY <1>1, <1>2, <1>3
<1>5. Local(p, s, chain, derived')
  <2>1. DerivedOK(s, chain, derived')
    <3> HIDE DEF s
    <3> QED BY <1>1, <1>2, <1>3, <1>4 DEF Local, DerivedOK, DerivedFiles
  <2> HIDE DEF s
  <2> QED BY <1>1, <1>2, <1>3, <2>1
          DEF Local, QueueOK, TargetOK, KnowsPaid, FreshOK, Committing, InLoop, DerivedFiles
<1>6. next \in Pcs \ {"out"} /\ next \in RedoPcs
  BY DEF Pcs, RedoPcs
<1> QED BY <1>1, <1>4, <1>5, <1>6, GoesTo DEF Inv, TypeInv

LEMMA CrashKeeps ==
    ASSUME Inv, NEW p \in Procs, Crash(p) \/ CrashInWrite(p) PROVE Inv'
<1>1. /\ Running(p) /\ proc' = [proc EXCEPT ![p] = Idle]
      /\ lock' = lock \/ lock' = "stale"
      /\ faults' = faults + 1 /\ UNCHANGED <<identity, derived, paid>>
  BY DEF Crash, CrashInWrite, Dies, At_, Running
<1>2. Sound(MaxSeq, chain')
  <2>1. CASE Crash(p)
    BY <2>1 DEF Crash, Inv
  <2>2. CASE CrashInWrite(p)
    <3>1. /\ proc[p].pc = "write"
          /\ chain' = [chain EXCEPT ![proc[p].target] =
                         Written(@, Line(Garbage, FALSE))]
      BY <2>2 DEF CrashInWrite, Write, At_
    <3>2. /\ proc[p].target = Len(chain) /\ ~ TornTail(ActiveSegment(chain))
          /\ NextSeq(chain) <= MaxSeq
      BY <3>1 DEF Inv, Local, TargetOK
    <3> QED BY <3>1, <3>2, SoundFragment, MiningAssumption DEF Inv
  <2> QED BY <2>1, <2>2
<1>3. faults' \in Nat
  BY <1>1 DEF Inv, TypeInv
<1> QED BY <1>1, <1>2, <1>3, Ends

LEMMA StaleLockKeeps == ASSUME Inv, RemoveStaleLock PROVE Inv'
<1>1. /\ lock = "stale" /\ lock' = "free"
      /\ UNCHANGED <<identity, chain, derived, proc, paid, faults>>
  BY DEF RemoveStaleLock
<1>2. \A m \in Miners : ~ Running(m)
  BY <1>1, MiningAssumption DEF Inv, AloneInv
<1> QED BY <1>1, <1>2 DEF Inv, TypeInv, AloneInv, Running

-----------------------------------------------------------------------------
(* Every step. *)

LEMMA InitInv == Init => Inv
<1> SUFFICES ASSUME Init PROVE Inv
  OBVIOUS
<1>1. Sound(MaxSeq, chain)
  BY EmptyIsSound, MiningAssumption DEF Init
<1>2. proc \in [Procs -> States] /\ \A p \in Procs : proc[p] = Idle
  BY IdleIsAState DEF Init
<1>3. derived \in [DerivedFiles -> SUBSET (WorkRecords \cup {Garbage})]
  BY DEF Init, Missing
<1>4. TypeInv
  <2>1. \A r \in Redoers : proc[r].pc \in RedoPcs
    BY <1>2, IdleIsAState DEF Procs, RedoPcs
  <2> QED BY <1>2, <1>3, <2>1 DEF Init, TypeInv
<1>5. AloneInv
  BY <1>2, IdleIsAState DEF AloneInv, Running, Procs
<1>6. \A p \in Procs : Local(p, proc[p], chain, derived)
  BY <1>2, IdleIsLocal
<1> QED BY <1>1, <1>4, <1>5, <1>6 DEF Inv

LEMMA NextInv ==
    ASSUME ~ Alongside
    PROVE  Inv /\ [Next]_vars => Inv'
<1> SUFFICES ASSUME Inv, [Next]_vars PROVE Inv'
  OBVIOUS
<1>1. ASSUME NEW m \in Miners, NEW fresh \in Fresh, Launch(m, fresh) PROVE Inv'
  BY <1>1, LaunchKeeps
<1>2. ASSUME NEW r \in Redoers, NEW n \in 0 .. MaxRedo, StartRedo(r, n) PROVE Inv'
  BY <1>2, StartRedoKeeps
<1>3. ASSUME NEW m \in Miners, MinerStep(m) PROVE Inv'
  <2>1. CASE RefuseDirectory(m)
    <3>1. m \in Procs /\ Running(m)
      BY <2>1 DEF RefuseDirectory, At_, Running, Procs
    <3> QED BY <2>1, <3>1, ExitEnds DEF RefuseDirectory
  <2> QED BY <1>3, <2>1, CreateIdentityKeeps, WriteIdentityKeeps, MatchIdentityKeeps,
             ReadLedgerKeeps, SkipKeeps, SampleKeeps, StartAppendKeeps, LoopEndsKeeps
          DEF MinerStep
<1>4. ASSUME NEW p \in Procs, NEW d, WriteLine(p, d) PROVE Inv'
  BY <1>4, WriteWorkKeeps, WriteRedoKeeps DEF Procs
<1>5. ASSUME NEW p \in Procs, Return(p) PROVE Inv'
  <2>1. Running(p)
    BY <1>5 DEF Return, At_, Running
  <2> QED BY <1>5, <2>1, ExitEnds DEF Return
<1>6. ASSUME NEW p \in Procs, ProcStep(p) PROVE Inv'
  BY <1>3, <1>4, <1>5, <1>6, ChooseSegmentKeeps, SealAndRotateKeeps, AllocateKeeps,
     SummarizeKeeps, WriteDerivedKeeps DEF ProcStep
<1>7. ASSUME NEW m \in Miners, SampleFails(m) PROVE Inv'
  BY <1>7, LoopEndsKeeps
<1>8. CASE UNCHANGED vars
  BY <1>8 DEF vars, Inv, TypeInv, AloneInv, Running
<1> QED BY <1>1, <1>2, <1>6, <1>7, <1>8, CrashKeeps, StaleLockKeeps DEF Next

\* The stage is always in the invariant when rollbacks and miners keep apart.
LEMMA AlwaysInv ==
    ASSUME ~ Alongside
    PROVE  Spec => []Inv
BY InitInv, NextInv, PTL DEF Spec

\* One stage directory is extended by one process at a time, and its ledger
\* reads back whenever a process reads it: CommitRefused never happens.
THEOREM StageReadsBack ==
    ASSUME ~ Alongside
    PROVE  Spec => [](Verified(chain) /\ AloneInv)
<1>1. Inv => Verified(chain) /\ AloneInv
  BY ChainTypes DEF Inv
<1> QED BY AlwaysInv, <1>1, PTL

-----------------------------------------------------------------------------
(* What a step may do. *)

\* A step that starts or ends nothing moves one process.
LEMMA WhoMoved ==
    ASSUME Inv, [Next]_vars, NEW q \in Procs, proc'[q] # proc[q]
    PROVE  \/ q \in Miners /\ \E fresh \in Fresh : Launch(q, fresh)
           \/ q \in Redoers /\ \E n \in 0 .. MaxRedo : StartRedo(q, n)
           \/ ProcStep(q)
           \/ q \in Miners /\ SampleFails(q)
           \/ Crash(q)
           \/ CrashInWrite(q)
<1>0. proc \in [Procs -> States]
  BY DEF Inv, TypeInv
<1>1. ASSUME NEW m \in Miners, NEW fresh \in Fresh, Launch(m, fresh) PROVE q = m
  BY <1>0, <1>1 DEF Launch
<1>2. ASSUME NEW r \in Redoers, NEW n \in 0 .. MaxRedo, StartRedo(r, n) PROVE q = r
  BY <1>0, <1>2 DEF StartRedo
<1>3. ASSUME NEW p \in Procs, NEW x, Goto(p, x) PROVE q = p
  BY <1>0, <1>3 DEF Goto
<1>4. ASSUME NEW p \in Procs, Exit(p) PROVE q = p
  BY <1>0, <1>4 DEF Exit
<1>5. ASSUME NEW p \in Procs, MinerStep(p) PROVE q = p
  BY <1>0, <1>3, <1>4, <1>5
     DEF MinerStep, RefuseDirectory, CreateIdentity, WriteIdentity, MatchIdentity,
         ReadLedger, Skip, Sample, StartAppend, LoopEnds
<1>6. ASSUME NEW p \in Procs, ProcStep(p) PROVE q = p
  <2>1. ASSUME CommitRefused(p) PROVE q = p
    BY <1>3, <1>4, <2>1 DEF CommitRefused
  <2>2. ASSUME NEW d, WriteLine(p, d) PROVE q = p
    BY <1>0, <2>2 DEF WriteLine
  <2>3. ASSUME NEW f, NEW next, WriteDerived(p, f, next) PROVE q = p
    BY <1>3, <2>3 DEF WriteDerived
  <2>4. CASE ChooseSegment(p) \/ SealAndRotate(p) \/ Allocate(p)
    BY <1>0, <2>1, <2>4 DEF ChooseSegment, SealAndRotate, Allocate
  <2>5. CASE Summarize(p) \/ Return(p)
    BY <1>0, <1>4, <2>5 DEF Summarize, Return
  <2> QED BY <1>5, <1>6, <2>2, <2>3, <2>4, <2>5 DEF ProcStep
<1>7. ASSUME NEW p \in Procs, SampleFails(p) PROVE q = p
  BY <1>3, <1>7 DEF SampleFails
<1>8. ASSUME NEW p \in Procs, Crash(p) \/ CrashInWrite(p) PROVE q = p
  BY <1>0, <1>8 DEF Crash, CrashInWrite, Dies
<1>9. RemoveStaleLock \/ UNCHANGED vars => FALSE
  BY DEF RemoveStaleLock, vars
<1> QED BY <1>1, <1>2, <1>6, <1>7, <1>8, <1>9 DEF Next, Procs

\* A miner goes from the head of the loop to a sample through Sample only.
LEMMA OnlySampleSamples ==
    ASSUME Inv, [Next]_vars, NEW m \in Miners,
           proc[m].pc = "mining", proc'[m].pc = "sampled"
    PROVE  Sample(m)
<1>0. m \in Procs /\ proc \in [Procs -> States] /\ proc[m] \in States
  BY DEF Inv, TypeInv, Procs
<1>1. \/ \E fresh \in Fresh : Launch(m, fresh)
      \/ ProcStep(m) \/ SampleFails(m) \/ Crash(m) \/ CrashInWrite(m)
  BY <1>0, WhoMoved, MiningAssumption
<1>2. ~ (\E fresh \in Fresh : Launch(m, fresh)) /\ ~ SampleFails(m)
  BY DEF Launch, SampleFails, At_
<1>3. ~ Crash(m) /\ ~ CrashInWrite(m)
  BY <1>0, IdleIsAState DEF Crash, CrashInWrite, Dies
<1>4. ProcStep(m) => MinerStep(m)
  BY DEF ProcStep, ChooseSegment, SealAndRotate, Allocate, WriteLine, Summarize,
         WriteDerived, Return, At_
<1>5. MinerStep(m) => Skip(m) \/ Sample(m) \/ LoopEnds(m)
  BY DEF MinerStep, RefuseDirectory, CreateIdentity, WriteIdentity, MatchIdentity,
         ReadLedger, StartAppend, At_
<1>6. ~ LoopEnds(m)
  <2> SUFFICES ASSUME LoopEnds(m) PROVE FALSE
    OBVIOUS
  <2>1. proc' = [proc EXCEPT ![m] = [proc[m] EXCEPT !.pc = "deriving"]]
    BY DEF LoopEnds, Goto
  <2>2. proc'[m].pc = "deriving"
    BY <1>0, <2>1 DEF States
  <2> QED BY <2>2
<1>7. ~ Skip(m)
  <2> SUFFICES ASSUME Skip(m) PROVE FALSE
    OBVIOUS
  <2>1. proc' = [proc EXCEPT ![m] = [proc[m] EXCEPT !.at = @ + 1]]
    BY DEF Skip
  <2>2. proc'[m].pc = proc[m].pc
    BY <1>0, <2>1 DEF States
  <2> QED BY <2>2
<1> QED BY <1>1, <1>2, <1>3, <1>4, <1>5, <1>6, <1>7

\* Nobody's samples are paid for twice: what a miner samples is in effect
\* nowhere, although it looked that up once, before its loop.
THEOREM SamplesAreNew ==
    ASSUME ~ Alongside
    PROVE  Spec => NeverResample
<1>1. ASSUME Inv, [Next]_vars
      PROVE  \A m \in Miners : At_(m, "mining") /\ proc[m]'.pc = "sampled"
                => Current(m) \notin ProcessedIds(chain)
  <2> SUFFICES ASSUME NEW m \in Miners, proc[m].pc = "mining", proc'[m].pc = "sampled"
               PROVE  Selected[proc[m].at] \notin ProcessedIds(chain)
    BY DEF At_, Current
  <2>1. /\ proc[m].at <= Len(Selected)
        /\ Selected[proc[m].at] \notin proc[m].already
    BY <1>1, OnlySampleSamples DEF Sample, Current
  <2>2. KnowsPaid(m, proc[m], chain) /\ proc[m] \in States
    BY <1>1 DEF Inv, TypeInv, Local, Procs
  <2>3. proc[m].at \in proc[m].at .. Len(Selected)
    BY <2>1, <2>2, MiningAssumption DEF States
  <2> QED BY <2>1, <2>2, <2>3 DEF KnowsPaid, InLoop
<1>2. Inv /\ [Next]_vars =>
        [\A m \in Miners : At_(m, "mining") /\ proc[m]'.pc = "sampled"
            => Current(m) \notin ProcessedIds(chain)]_vars
  BY <1>1
<1> QED BY <1>2, AlwaysInv, PTL DEF Spec, NeverResample

\* A --fresh run samples into an empty ledger.
THEOREM FreshMeansEmpty ==
    ASSUME ~ Alongside
    PROVE  Spec => FreshStartsEmpty
<1>1. ASSUME Inv, NEW m \in Miners, At_(m, "bound"), proc[m].fresh
      PROVE  ActivePos(chain) = {}
  <2>1. chain = << <<>> >>
    BY <1>1 DEF Inv, Local, FreshOK, At_, Procs
  <2> QED BY <2>1, EmptyIsSound, MiningAssumption
<1>2. Inv /\ [Next]_vars =>
        [\A m \in Miners :
            At_(m, "bound") /\ proc[m]'.pc = "mining" /\ proc[m].fresh
                => ActivePos(chain) = {}]_vars
  BY <1>1
<1> QED BY <1>2, AlwaysInv, PTL DEF Spec, FreshStartsEmpty

\* When write_derivatives returns, its three files agree with the ledger.
THEOREM DerivativesAgree ==
    ASSUME ~ Alongside
    PROVE  Spec => DerivativesCurrent
<1>1. ASSUME Inv, [Next]_vars, NEW p \in Procs,
             proc[p].pc = "mining_summary", proc'[p].pc = "returning",
             NEW f \in DerivedFiles
      PROVE  derived'[f] = Active(chain)
  <2>0. /\ proc \in [Procs -> States] /\ proc[p] \in States
        /\ Local(p, proc[p], chain, derived)
        /\ derived \in [DerivedFiles -> SUBSET (WorkRecords \cup {Garbage})]
    BY <1>1 DEF Inv, TypeInv
  <2>1. \/ \E fresh \in Fresh : Launch(p, fresh)
        \/ \E n \in 0 .. MaxRedo : StartRedo(p, n)
        \/ ProcStep(p) \/ SampleFails(p) \/ Crash(p) \/ CrashInWrite(p)
    BY <1>1, <2>0, WhoMoved
  <2>2. /\ ~ (\E fresh \in Fresh : Launch(p, fresh))
        /\ ~ (\E n \in 0 .. MaxRedo : StartRedo(p, n))
        /\ ~ SampleFails(p)
    BY <1>1 DEF Launch, StartRedo, SampleFails, At_
  <2>3. ~ Crash(p) /\ ~ CrashInWrite(p)
    BY <1>1, <2>0, IdleIsAState DEF Crash, CrashInWrite, Dies
  <2>4. ~ MinerStep(p)
    BY <1>1 DEF MinerStep, RefuseDirectory, CreateIdentity, WriteIdentity, MatchIdentity,
                ReadLedger, Skip, Sample, StartAppend, LoopEnds, At_
  <2>5. ProcStep(p) => WriteDerived(p, "mining_summary", "returning")
    BY <1>1, <2>4 DEF ProcStep, ChooseSegment, SealAndRotate, Allocate, WriteLine,
                Summarize, WriteDerived, Return, At_
  <2>6. derived' = [derived EXCEPT !["mining_summary"] = proc[p].snap]
    BY <2>1, <2>2, <2>3, <2>5 DEF WriteDerived
  <2>7. /\ proc[p].snap = Active(chain)
        /\ derived["mined_pairs"] = proc[p].snap /\ derived["sft_bucket"] = proc[p].snap
    BY <1>1, <2>0 DEF Local, DerivedOK, DerivedFiles
  <2> QED BY <2>0, <2>6, <2>7 DEF DerivedFiles
<1>2. Inv /\ [Next]_vars =>
        [\A p \in Procs :
            At_(p, "mining_summary") /\ proc[p]'.pc = "returning"
                => \A f \in DerivedFiles : derived'[f] = Active(chain)]_vars
  BY <1>1 DEF At_
<1> QED BY <1>2, AlwaysInv, PTL DEF Spec, DerivativesCurrent

-----------------------------------------------------------------------------
(* What a kill costs. *)

WorkPos(ch) == {q \in Parsed(ch) : At(ch, q).type = "work"}

InFlight == {m \in Miners : proc[m].pc \in {"sampled", "commit", "allocate", "write"}}

\* Every sample is on disk, was lost to a fault, or is in flight.
PaidInv == paid <= Cardinality(WorkPos(chain)) + faults + Cardinality(InFlight)

\* How many work records a chain holds after each kind of write.
LEMMA WorkPosAfter ==
    ASSUME NEW ch, IsFiniteSet(WorkPos(ch)), NEW ch2
    PROVE  /\ SameRecords(ch, ch2) => WorkPos(ch2) = WorkPos(ch)
           /\ \A z, r : OneMore(ch, ch2, z, r) /\ r.type # "work"
                          => WorkPos(ch2) = WorkPos(ch)
           /\ \A z, r : OneMore(ch, ch2, z, r) /\ r.type = "work" =>
                Cardinality(WorkPos(ch2)) = Cardinality(WorkPos(ch)) + 1
<1>1. SameRecords(ch, ch2) => WorkPos(ch2) = WorkPos(ch)
  BY DEF SameRecords, WorkPos
<1>2. \A z, r : OneMore(ch, ch2, z, r) /\ r.type # "work" => WorkPos(ch2) = WorkPos(ch)
  BY DEF OneMore, WorkPos
<1>3. ASSUME NEW z, NEW r, OneMore(ch, ch2, z, r), r.type = "work"
      PROVE  Cardinality(WorkPos(ch2)) = Cardinality(WorkPos(ch)) + 1
  <2>1. WorkPos(ch2) = WorkPos(ch) \cup {z} /\ z \notin WorkPos(ch)
    BY <1>3 DEF OneMore, WorkPos
  <2> QED BY <2>1, FS_AddElement
<1> QED BY <1>1, <1>2, <1>3

\* A set without two members has none or one.
LEMMA AtMostOne ==
    ASSUME NEW S, \A x, y \in S : x = y
    PROVE  /\ IsFiniteSet(S) /\ Cardinality(S) \in {0, 1}
           /\ S = {} => Cardinality(S) = 0
           /\ S # {} => Cardinality(S) = 1
<1>1. CASE S = {}
  BY <1>1, FS_EmptySet
<1>2. CASE S # {}
  <2>1. PICK x \in S : TRUE
    BY <1>2
  <2>2. S = {x}
    BY <2>1
  <2> QED BY <1>2, <2>2, FS_Singleton
<1> QED BY <1>1, <1>2

\* The counts of PaidInv are counts.
LEMMA Counts ==
    Inv => /\ IsFiniteSet(WorkPos(chain)) /\ Cardinality(WorkPos(chain)) \in Nat
           /\ Cardinality(InFlight) \in {0, 1}
           /\ InFlight = {} => Cardinality(InFlight) = 0
           /\ InFlight # {} => Cardinality(InFlight) = 1
<1> SUFFICES ASSUME Inv
             PROVE  /\ IsFiniteSet(WorkPos(chain)) /\ Cardinality(WorkPos(chain)) \in Nat
                    /\ Cardinality(InFlight) \in {0, 1}
                    /\ InFlight = {} => Cardinality(InFlight) = 0
                    /\ InFlight # {} => Cardinality(InFlight) = 1
  OBVIOUS
<1>1. IsFiniteSet(Parsed(chain))
  BY ParsedFinite, MiningAssumption DEF Inv
<1>2. IsFiniteSet(WorkPos(chain))
  BY <1>1, FS_Subset DEF WorkPos
<1>3. Cardinality(WorkPos(chain)) \in Nat
  BY <1>2, FS_CardinalityType
<1>4. \A x, y \in InFlight : x = y
  BY DEF Inv, AloneInv, InFlight, Running, Procs
<1> QED BY <1>2, <1>3, <1>4, AtMostOne

\* A miner past its sample loses it to a fault or commits it.
LEMMA InFlightStays ==
    ASSUME Inv, [Next]_vars, NEW m \in InFlight, proc'[m] # proc[m]
    PROVE  \/ proc'[m].pc \in {"sampled", "commit", "allocate", "write"}
           \/ SampleFails(m) \/ Crash(m) \/ CrashInWrite(m)
           \/ \E d \in proc[m].queue : WriteLine(m, d)
<1>0. /\ m \in Miners /\ m \in Procs /\ proc \in [Procs -> States] /\ proc[m] \in States
      /\ proc[m].pc \in {"sampled", "commit", "allocate", "write"}
      /\ Verified(chain)
  BY ChainTypes DEF InFlight, Inv, TypeInv, Procs
<1>1. ProcStep(m) \/ SampleFails(m) \/ Crash(m) \/ CrashInWrite(m)
  <2>1. ~ (\E fresh \in Fresh : Launch(m, fresh))
    BY <1>0 DEF Launch, At_
  <2> QED BY <1>0, <2>1, WhoMoved, MiningAssumption
<1>2. ProcStep(m) => \/ StartAppend(m) \/ ChooseSegment(m) \/ SealAndRotate(m)
                     \/ Allocate(m) \/ \E d \in proc[m].queue : WriteLine(m, d)
  BY <1>0 DEF ProcStep, MinerStep, RefuseDirectory, CreateIdentity, WriteIdentity,
              MatchIdentity, ReadLedger, Skip, Sample, LoopEnds, Summarize, WriteDerived,
              Return, At_
<1>3. StartAppend(m) => proc'[m].pc = "commit"
  <2> SUFFICES ASSUME StartAppend(m) PROVE proc'[m].pc = "commit"
    OBVIOUS
  <2>1. Selected[proc[m].at] \notin ProcessedIds(chain)
    BY <1>0, SampledIsNew DEF InLoop, Committing
  <2>2. proc' = [proc EXCEPT ![m] = [proc[m] EXCEPT !.pc = "commit",
                                       !.queue = {WorkDraft(Selected[proc[m].at])}]]
    BY <1>0, <2>1 DEF StartAppend, Current
  <2> QED BY <1>0, <2>2 DEF States
<1>4. ChooseSegment(m) => proc'[m].pc = "allocate"
  <2> SUFFICES ASSUME ChooseSegment(m) PROVE proc'[m].pc = "allocate"
    OBVIOUS
  <2>1. proc' = [proc EXCEPT ![m] = [proc[m] EXCEPT !.pc = "allocate",
                                       !.target = Len(chain)]]
    BY DEF ChooseSegment
  <2> QED BY <1>0, <2>1 DEF States
<1>5. SealAndRotate(m) => proc'[m].pc = "allocate"
  <2> SUFFICES ASSUME SealAndRotate(m) PROVE proc'[m].pc = "allocate"
    OBVIOUS
  <2>1. proc' = [proc EXCEPT ![m] = [proc[m] EXCEPT !.pc = "allocate",
                                       !.target = Len(chain) + 1]]
    BY <1>0 DEF SealAndRotate
  <2> QED BY <1>0, <2>1 DEF States
<1>6. Allocate(m) => proc'[m].pc = "write"
  <2> SUFFICES ASSUME Allocate(m) PROVE proc'[m].pc = "write"
    OBVIOUS
  <2>1. proc' = [proc EXCEPT ![m] = [proc[m] EXCEPT !.pc = "write",
                                       !.seq = NextSeq(chain)]]
    BY <1>0 DEF Allocate
  <2> QED BY <1>0, <2>1 DEF States
<1> QED BY <1>1, <1>2, <1>3, <1>4, <1>5, <1>6

\* The steps that pay, fail or write a line, and all the others.
LEMMA WhatCosts ==
    ASSUME Inv, [Next]_vars
    PROVE  \/ \E m \in Miners : Sample(m)
           \/ \E m \in Miners : SampleFails(m)
           \/ \E p \in Procs : Crash(p) \/ CrashInWrite(p)
           \/ \E p \in Procs : \E d : WriteLine(p, d)
           \/ /\ UNCHANGED <<paid, faults>>
              /\ chain' = chain \/ (Rotated(chain, chain') /\ NextSeq(chain) <= MaxSeq)
              /\ \A m \in InFlight : proc'[m] = proc[m]
                   \/ proc'[m].pc \in {"sampled", "commit", "allocate", "write"}
<1> DEFINE Quiet == /\ UNCHANGED <<paid, faults>>
                    /\ \/ chain' = chain
                       \/ Rotated(chain, chain') /\ NextSeq(chain) <= MaxSeq
           Costs == \/ \E m \in Miners : Sample(m)
                    \/ \E m \in Miners : SampleFails(m)
                    \/ \E p \in Procs : Crash(p) \/ CrashInWrite(p)
                    \/ \E p \in Procs : \E d : WriteLine(p, d)
<1>0. Verified(chain)
  BY ChainTypes
<1>1. ASSUME NEW m \in Miners, MinerStep(m) PROVE Sample(m) \/ Quiet
  BY <1>1 DEF MinerStep, RefuseDirectory, CreateIdentity, WriteIdentity, MatchIdentity,
              ReadLedger, Skip, StartAppend, LoopEnds
<1>2. ASSUME NEW p \in Procs, SealAndRotate(p) PROVE Quiet
  BY <1>0, <1>2 DEF SealAndRotate, Rotated
<1>3. ASSUME NEW p \in Procs, Allocate(p) PROVE Quiet
  BY <1>0, <1>3 DEF Allocate
<1>4. ASSUME NEW p \in Procs, ChooseSegment(p) \/ Summarize(p) \/ Return(p) PROVE Quiet
  BY <1>4 DEF ChooseSegment, Summarize, Return
<1>5. ASSUME NEW p \in Procs, NEW f, NEW next, WriteDerived(p, f, next) PROVE Quiet
  BY <1>5 DEF WriteDerived
<1>6. ASSUME NEW p \in Procs, ProcStep(p) PROVE Costs \/ Quiet
  BY <1>1, <1>2, <1>3, <1>4, <1>5, <1>6 DEF ProcStep
<1>7. ASSUME NEW m \in Miners, NEW fresh \in Fresh, Launch(m, fresh) PROVE Quiet
  BY <1>7 DEF Launch
<1>8. ASSUME NEW r \in Redoers, NEW n \in 0 .. MaxRedo, StartRedo(r, n) PROVE Quiet
  BY <1>8 DEF StartRedo
<1>9. RemoveStaleLock \/ UNCHANGED vars => Quiet
  BY DEF RemoveStaleLock, vars
<1>10. Costs \/ Quiet
  BY <1>6, <1>7, <1>8, <1>9 DEF Next
<1>11. ASSUME ~ Costs, NEW m \in InFlight, proc'[m] # proc[m]
       PROVE  proc'[m].pc \in {"sampled", "commit", "allocate", "write"}
  BY <1>11, InFlightStays DEF InFlight, Procs
<1> QED BY <1>10, <1>11

LEMMA NextPaid ==
    ASSUME ~ Alongside
    PROVE  Inv /\ Inv' /\ PaidInv /\ [Next]_vars => PaidInv'
<1> SUFFICES ASSUME Inv, Inv', PaidInv, [Next]_vars PROVE PaidInv'
  OBVIOUS
<1>c. (Inv => /\ IsFiniteSet(WorkPos(chain)) /\ Cardinality(WorkPos(chain)) \in Nat
              /\ Cardinality(InFlight) \in {0, 1}
              /\ InFlight = {} => Cardinality(InFlight) = 0
              /\ InFlight # {} => Cardinality(InFlight) = 1)'
  BY Counts, PTL
<1>t. paid' \in Nat /\ faults' \in Nat
  BY DEF Inv, TypeInv
<1>w. PICK w : w = Cardinality(WorkPos(chain))
  OBVIOUS
<1>v. PICK w2 : w2 = Cardinality(WorkPos(chain'))
  OBVIOUS
<1>i. PICK i : i = Cardinality(InFlight)
  OBVIOUS
<1>j. PICK i2 : i2 = Cardinality(InFlight')
  OBVIOUS
<1>0. /\ w = Cardinality(WorkPos(chain)) /\ w2 = Cardinality(WorkPos(chain'))
      /\ i = Cardinality(InFlight) /\ i2 = Cardinality(InFlight')
  BY <1>w, <1>v, <1>i, <1>j
<1>1. /\ IsFiniteSet(WorkPos(chain))
      /\ w \in Nat /\ i \in {0, 1} /\ paid \in Nat /\ faults \in Nat
      /\ InFlight = {} => i = 0
      /\ InFlight # {} => i = 1
      /\ Sound(MaxSeq, chain) /\ MaxSeq \in Nat
  BY <1>0, Counts, MiningAssumption DEF Inv, TypeInv
<1>2. /\ w2 \in Nat /\ i2 \in {0, 1} /\ paid' \in Nat /\ faults' \in Nat
      /\ InFlight' # {} => i2 = 1
  BY <1>0, <1>c, <1>t
<1>4. paid <= w + faults + i
  BY <1>0 DEF PaidInv
<1> SUFFICES paid' <= w2 + faults' + i2
  BY <1>0 DEF PaidInv
<1>5. ASSUME NEW m \in Miners, Sample(m) PROVE paid' <= w2 + faults' + i2
  <2>1. proc[m].pc = "mining" /\ paid' = paid + 1 /\ faults' = faults /\ chain' = chain
        /\ proc' = [proc EXCEPT ![m] = [proc[m] EXCEPT !.pc = "sampled"]]
    BY <1>5 DEF Sample, At_, Goto
  <2>2. proc \in [Procs -> States] /\ proc[m] \in States /\ m \in Procs
    BY DEF Inv, TypeInv, Procs
  <2>3. proc'[m].pc = "sampled"
    BY <2>1, <2>2 DEF States
  <2>4. i2 = 1
    BY <1>2, <2>3 DEF InFlight
  <2>5. InFlight = {}
    BY <2>1 DEF InFlight, Inv, AloneInv, Running, Procs
  <2>6. w2 = w
    BY <1>0, <2>1
  <2> QED BY <1>1, <1>4, <2>1, <2>4, <2>5, <2>6
<1>6. ASSUME paid' = paid, faults' = faults + 1, w2 = w
      PROVE  paid' <= w2 + faults' + i2
  BY <1>1, <1>2, <1>4, <1>6
<1>7. ASSUME NEW m \in Miners, SampleFails(m) PROVE paid' <= w2 + faults' + i2
  <2>1. paid' = paid /\ faults' = faults + 1 /\ chain' = chain
    BY <1>7 DEF SampleFails
  <2> QED BY <1>0, <1>6, <2>1
<1>8. ASSUME NEW p \in Procs, Crash(p) \/ CrashInWrite(p)
      PROVE  paid' <= w2 + faults' + i2
  <2>1. paid' = paid /\ faults' = faults + 1
    BY <1>8 DEF Crash, CrashInWrite, Dies
  <2>2. CASE Crash(p)
    <3>1. chain' = chain
      BY <2>2 DEF Crash
    <3> QED BY <1>0, <1>6, <2>1, <3>1
  <2>3. CASE CrashInWrite(p)
    <3>1. /\ proc[p].pc = "write"
          /\ chain' = [chain EXCEPT ![proc[p].target] = Written(@, Line(Garbage, FALSE))]
      BY <2>3 DEF CrashInWrite, Write, At_
    <3>2. /\ proc[p].target = Len(chain) /\ ~ TornTail(ActiveSegment(chain))
          /\ NextSeq(chain) <= MaxSeq
      BY <3>1 DEF Inv, Local, TargetOK
    <3>3. SameRecords(chain, chain')
      BY <1>1, <3>1, <3>2, SoundFragment
    <3>4. WorkPos(chain') = WorkPos(chain)
      BY <1>1, <3>3, WorkPosAfter
    <3> QED BY <1>0, <1>6, <2>1, <3>4
  <2> QED BY <1>8, <2>2, <2>3
<1>9. ASSUME NEW p \in Procs, NEW d, WriteLine(p, d) PROVE paid' <= w2 + faults' + i2
  <2>1. /\ d \in Drafts /\ ~ TornTail(ActiveSegment(chain)) /\ NextSeq(chain) <= MaxSeq
        /\ Wrote(chain, chain', Stamped(d, NextSeq(chain)))
        /\ Stamped(d, NextSeq(chain)).type = d.type
        /\ (p \in Miners => d.type = "work")
        /\ (p \in Redoers => d.type = "redo")
    BY <1>9, WriteLands
  <2>2. PICK z : OneMore(chain, chain', z, Stamped(d, NextSeq(chain)))
    BY <1>1, <2>1, SoundWrite
  <2>3. paid' = paid /\ faults' = faults
    BY <1>9 DEF WriteLine
  <2>4. CASE p \in Miners
    <3>1. w2 = w + 1
      BY <1>1, <1>0, <2>1, <2>2, <2>4, WorkPosAfter
    <3> QED BY <1>1, <1>2, <1>4, <2>3, <3>1
  <2>5. CASE p \in Redoers
    <3>1. w2 = w
      BY <1>1, <1>0, <2>1, <2>2, <2>5, WorkPosAfter
    <3>2. InFlight = {}
      BY <1>9, <2>5, MiningAssumption
         DEF InFlight, WriteLine, At_, Inv, AloneInv, Running, Procs
    <3> QED BY <1>1, <1>2, <1>4, <2>3, <3>1, <3>2
  <2> QED BY <2>4, <2>5 DEF Procs
<1>10. ASSUME UNCHANGED <<paid, faults>>,
              chain' = chain \/ (Rotated(chain, chain') /\ NextSeq(chain) <= MaxSeq),
              \A m \in InFlight : proc'[m] = proc[m]
                 \/ proc'[m].pc \in {"sampled", "commit", "allocate", "write"}
       PROVE  paid' <= w2 + faults' + i2
  <2>1. WorkPos(chain') = WorkPos(chain)
    <3>1. CASE chain' = chain
      BY <3>1
    <3>2. CASE Rotated(chain, chain') /\ NextSeq(chain) <= MaxSeq
      <4>1. PICK z, r : r.type = "segment_open" /\ OneMore(chain, chain', z, r)
        BY <1>1, <3>2, SoundRotation
      <4> QED BY <1>1, <4>1, WorkPosAfter
    <3> QED BY <1>10, <3>1, <3>2
  <2>2. w2 = w
    BY <1>0, <2>1
  <2>3. InFlight # {} => InFlight' # {}
    BY <1>10 DEF InFlight
  <2> QED BY <1>1, <1>2, <1>4, <1>10, <2>2, <2>3
<1> QED BY <1>5, <1>7, <1>8, <1>9, <1>10, WhatCosts

\* A kill costs one prompt: whatever was paid for and is not on disk was in
\* flight at a crash or a failure, or still is.
THEOREM KillCostsOnePrompt ==
    ASSUME ~ Alongside
    PROVE  Spec => []PaidForOnce
<1>1. Init => PaidInv
  <2> SUFFICES ASSUME Init PROVE PaidInv
    OBVIOUS
  <2>1. paid = 0 /\ faults = 0 /\ Inv
    BY InitInv DEF Init
  <2> QED BY <2>1, Counts DEF PaidInv
<1>2. Inv /\ Inv' /\ PaidInv /\ [Next]_vars => PaidInv'
  BY NextPaid
<1>3. PaidInv => PaidForOnce
  BY DEF PaidInv, PaidForOnce, WorkPos, InFlight
<1> QED BY <1>1, <1>2, <1>3, AlwaysInv, PTL DEF Spec

-----------------------------------------------------------------------------
(* The stage directory implements WorkLog.                                  *)

\* What tombstones to be written would retire, and what all rollbacks have
\* still to retire.
Targets(queue) == {[prompt |-> d.prompt, seq |-> d.supersedes] : d \in queue}
AskedBy(procs) == UNION {Targets(procs[r].queue) : r \in Redoers}

\* The refinement mapping, in the terms of LedgerDiskProofs.
Recorded(p) ==
    /\ AskedBy(proc) = {} /\ AskedBy(proc') = {}
    /\ \A e \in EntriesOf(chain) : e.prompt # p
    /\ \E k \in 1 .. MaxSeq :
         /\ \A e \in EntriesOf(chain) : e.seq < k
         /\ EntriesOf(chain') = EntriesOf(chain) \cup {[prompt |-> p, seq |-> k]}

RolledBack ==
    /\ AskedBy(proc) = {} /\ EntriesOf(chain') = EntriesOf(chain)
    /\ \E n \in 1 .. Cardinality(EntriesOf(chain)) :
         AskedBy(proc') = LatestOf(EntriesOf(chain), n)

Retired(e) ==
    /\ e \in AskedBy(proc) /\ \A d \in AskedBy(proc) : e.seq <= d.seq
    /\ EntriesOf(chain') = EntriesOf(chain) \ {e}
    /\ AskedBy(proc') = AskedBy(proc) \ {e}

Interrupted == EntriesOf(chain') = EntriesOf(chain) /\ AskedBy(proc') = {}

Stutters == EntriesOf(chain') = EntriesOf(chain) /\ AskedBy(proc') = AskedBy(proc)

LEMMA MapsToWorkLog ==
    ASSUME \/ \E p \in Prompts : Recorded(p)
           \/ RolledBack
           \/ \E e \in AskedBy(proc) : Retired(e)
           \/ Interrupted
           \/ Stutters
    PROVE  [Log!Next]_(Log!vars)
<1> DEFINE active == {[prompt |-> r.prompt, seq |-> r.seq] : r \in Active(chain)}
           asked == UNION {{[prompt |-> d.prompt, seq |-> d.supersedes] :
                               d \in proc[r].queue} : r \in Redoers}
<1>1. EntriesOf(chain) = active /\ AskedBy(proc) = asked
  BY DEF EntriesOf, EntryOf, AskedBy, Targets
<1>2. EntriesOf(chain') = active' /\ AskedBy(proc') = asked'
  BY DEF EntriesOf, EntryOf, AskedBy, Targets
<1>3. ASSUME NEW p \in Prompts, Recorded(p) PROVE Log!Record(p)
  BY <1>1, <1>2, <1>3 DEF Recorded, Log!Record
<1>4. CASE RolledBack
  <2>0. \A S : Log!Cardinality(S) = Cardinality(S)
    BY DEF Log!Cardinality, Cardinality
  <2>1. \A S, n : Log!Newest(S, n) = LatestOf(S, n)
    BY <2>0 DEF Log!Newest, LatestOf
  <2>2. PICK n \in 1 .. Cardinality(active) : asked' = Log!Newest(active, n)
    BY <1>1, <1>2, <1>4, <2>1 DEF RolledBack
  <2>3. n \in 1 .. Log!Cardinality(active)
    BY <2>0
  <2>4. asked = {} /\ active' = active
    BY <1>1, <1>2, <1>4 DEF RolledBack
  <2>5. Log!Rollback
    BY <2>2, <2>3, <2>4 DEF Log!Rollback
  <2> QED BY <2>5 DEF Log!Next
<1>5. ASSUME NEW e \in AskedBy(proc), Retired(e) PROVE e \in asked /\ Log!Retire(e)
  BY <1>1, <1>2, <1>5 DEF Retired, Log!Retire
<1>6. CASE Interrupted
  BY <1>1, <1>2, <1>6 DEF Interrupted, Log!Next, Log!Interrupt, Log!vars
<1>7. CASE Stutters
  BY <1>1, <1>2, <1>7 DEF Stutters, Log!vars
<1> QED BY <1>3, <1>4, <1>5, <1>6, <1>7 DEF Log!Next

\* When one rollback has anything to retire, that is what is asked.
LEMMA OneAsks ==
    ASSUME NEW procs, NEW r \in Redoers,
           \A q \in Redoers : q # r => procs[q].queue = {}
    PROVE  AskedBy(procs) = Targets(procs[r].queue)
BY DEF AskedBy, Targets

LEMMA NobodyAsks ==
    ASSUME NEW procs, \A q \in Redoers : procs[q].queue = {}
    PROVE  AskedBy(procs) = {}
BY DEF AskedBy, Targets

LEMMA SameAsked ==
    ASSUME NEW procs, NEW procs2, \A q \in Redoers : procs2[q].queue = procs[q].queue
    PROVE  AskedBy(procs2) = AskedBy(procs)
BY DEF AskedBy

\* While a process runs, no other has tombstones to write.
LEMMA OthersAskNothing ==
    ASSUME Inv, NEW p \in Procs, Running(p)
    PROVE  \A q \in Procs : q # p => proc[q] = Idle /\ proc[q].queue = {}
BY IdleIsAState DEF Inv, TypeInv, AloneInv

\* A step of one process that keeps its tombstones and the records in effect.
LEMMA KeepsAsking ==
    ASSUME Inv, NEW p \in Procs,
           \A q \in Procs : q # p => proc'[q] = proc[q],
           p \in Redoers => proc'[p].queue = proc[p].queue
    PROVE  AskedBy(proc') = AskedBy(proc)
<1>1. \A q \in Redoers : proc'[q].queue = proc[q].queue
  BY DEF Procs
<1> QED BY <1>1, SameAsked

LEMMA MinerStutters ==
    ASSUME Inv, NEW m \in Miners,
           \/ \E fresh \in Fresh : Launch(m, fresh)
           \/ MinerStep(m) \/ SampleFails(m)
    PROVE  Stutters
<1>0. proc \in [Procs -> States] /\ m \in Procs /\ m \notin Redoers
  BY MiningAssumption DEF Inv, TypeInv, Procs
<1>1. ASSUME NEW x, Goto(m, x) PROVE \A q \in Procs : q # m => proc'[q] = proc[q]
  BY <1>0, <1>1 DEF Goto
<1>2. ASSUME Exit(m) PROVE \A q \in Procs : q # m => proc'[q] = proc[q]
  BY <1>0, <1>2 DEF Exit
<1>3. chain' = chain
  BY DEF Launch, MinerStep, RefuseDirectory, CreateIdentity, WriteIdentity, MatchIdentity,
         ReadLedger, Skip, Sample, StartAppend, LoopEnds, SampleFails
<1>4. ASSUME NEW fresh \in Fresh, Launch(m, fresh)
      PROVE  \A q \in Procs : q # m => proc'[q] = proc[q]
  BY <1>0, <1>4 DEF Launch
<1>5. ASSUME MinerStep(m) PROVE \A q \in Procs : q # m => proc'[q] = proc[q]
  BY <1>0, <1>1, <1>2, <1>5
     DEF MinerStep, RefuseDirectory, CreateIdentity, WriteIdentity, MatchIdentity,
         ReadLedger, Skip, Sample, StartAppend, LoopEnds
<1>6. ASSUME SampleFails(m) PROVE \A q \in Procs : q # m => proc'[q] = proc[q]
  BY <1>1, <1>6 DEF SampleFails
<1>7. \A q \in Procs : q # m => proc'[q] = proc[q]
  BY <1>4, <1>5, <1>6
<1> QED BY <1>0, <1>3, <1>7, KeepsAsking DEF Stutters

LEMMA ReaderStutters ==
    ASSUME Inv, NEW p \in Procs,
           \/ ChooseSegment(p) \/ Allocate(p) \/ Summarize(p)
           \/ \E f, next : WriteDerived(p, f, next)
    PROVE  Stutters
<1>0. proc \in [Procs -> States] /\ proc[p] \in States /\ Verified(chain)
  BY ChainTypes DEF Inv, TypeInv
<1>1. chain' = chain
  BY <1>0 DEF ChooseSegment, Allocate, Summarize, WriteDerived
<1>2. CASE ChooseSegment(p)
  <2>1. proc' = [proc EXCEPT ![p] = [proc[p] EXCEPT !.pc = "allocate",
                                       !.target = Len(chain)]]
    BY <1>2 DEF ChooseSegment
  <2>2. proc'[p].queue = proc[p].queue /\ \A q \in Procs : q # p => proc'[q] = proc[q]
    BY <1>0, <2>1 DEF States
  <2> QED BY <1>1, <2>2, KeepsAsking DEF Stutters
<1>3. CASE Allocate(p)
  <2>1. proc' = [proc EXCEPT ![p] = [proc[p] EXCEPT !.pc = "write",
                                       !.seq = NextSeq(chain)]]
    BY <1>0, <1>3 DEF Allocate
  <2>2. proc'[p].queue = proc[p].queue /\ \A q \in Procs : q # p => proc'[q] = proc[q]
    BY <1>0, <2>1 DEF States
  <2> QED BY <1>1, <2>2, KeepsAsking DEF Stutters
<1>4. CASE Summarize(p)
  <2>1. proc' = [proc EXCEPT ![p] = [proc[p] EXCEPT !.pc = "mined_pairs",
                                       !.snap = Active(chain)]]
    BY <1>0, <1>4 DEF Summarize
  <2>2. proc'[p].queue = proc[p].queue /\ \A q \in Procs : q # p => proc'[q] = proc[q]
    BY <1>0, <2>1 DEF States
  <2> QED BY <1>1, <2>2, KeepsAsking DEF Stutters
<1>5. ASSUME NEW f, NEW next, WriteDerived(p, f, next) PROVE Stutters
  <2>1. proc' = [proc EXCEPT ![p] = [proc[p] EXCEPT !.pc = next]]
    BY <1>5 DEF WriteDerived, Goto
  <2>2. proc'[p].queue = proc[p].queue /\ \A q \in Procs : q # p => proc'[q] = proc[q]
    BY <1>0, <2>1 DEF States
  <2> QED BY <1>1, <2>2, KeepsAsking DEF Stutters
<1> QED BY <1>2, <1>3, <1>4, <1>5

LEMMA RotationStutters ==
    ASSUME Inv, NEW p \in Procs, SealAndRotate(p) PROVE Stutters
<1>0. /\ proc \in [Procs -> States] /\ proc[p] \in States /\ Verified(chain)
      /\ Sound(MaxSeq, chain) /\ MaxSeq \in Nat
  BY ChainTypes DEF Inv, TypeInv
<1>1. proc' = [proc EXCEPT ![p] = [proc[p] EXCEPT !.pc = "allocate",
                                     !.target = Len(chain) + 1]]
  BY <1>0 DEF SealAndRotate
<1>2. proc'[p].queue = proc[p].queue /\ \A q \in Procs : q # p => proc'[q] = proc[q]
  BY <1>0, <1>1 DEF States
<1>3. Rotated(chain, chain') /\ NextSeq(chain) <= MaxSeq
  BY <1>0 DEF SealAndRotate, Rotated
<1>4. EntriesOf(chain') = EntriesOf(chain)
  BY <1>0, <1>3, SoundRotation, EntriesSame
<1> QED BY <1>2, <1>4, KeepsAsking DEF Stutters

\* A process that ends, well or not, has nothing more to retire.
LEMMA EndInterrupts ==
    ASSUME Inv, NEW p \in Procs, Running(p), proc' = [proc EXCEPT ![p] = Idle],
           EntriesOf(chain') = EntriesOf(chain)
    PROVE  Interrupted
<1>1. \A q \in Procs : proc'[q].queue = {}
  BY OthersAskNothing, IdleIsAState DEF Inv, TypeInv
<1> QED BY <1>1, NobodyAsks DEF Interrupted, Procs

LEMMA EndMaps ==
    ASSUME Inv, NEW p \in Procs, Return(p) \/ Crash(p) \/ CrashInWrite(p)
    PROVE  Interrupted
<1>1. Running(p) /\ proc' = [proc EXCEPT ![p] = Idle]
  BY DEF Return, Exit, Crash, CrashInWrite, Dies, Running, At_
<1>2. EntriesOf(chain') = EntriesOf(chain)
  <2>1. CASE Return(p) \/ Crash(p)
    BY <2>1 DEF Return, Crash
  <2>2. CASE CrashInWrite(p)
    <3>1. /\ proc[p].pc = "write"
          /\ chain' = [chain EXCEPT ![proc[p].target] = Written(@, Line(Garbage, FALSE))]
      BY <2>2 DEF CrashInWrite, Write, At_
    <3>2. /\ proc[p].target = Len(chain) /\ ~ TornTail(ActiveSegment(chain))
          /\ NextSeq(chain) <= MaxSeq
      BY <3>1 DEF Inv, Local, TargetOK
    <3>3. Sound(MaxSeq, chain) /\ MaxSeq \in Nat
      BY MiningAssumption DEF Inv
    <3>4. chain' = [chain EXCEPT ![Len(chain)] = Written(@, Line(Garbage, FALSE))]
      BY <3>1, <3>2
    <3>5. SameRecords(chain, chain')
      BY <3>2, <3>3, <3>4, SoundFragment
    <3> QED BY <3>5, SameInEffect, EntriesSame
  <2> QED BY <2>1, <2>2
<1> QED BY <1>1, <1>2, EndInterrupts

LEMMA RedoRollsBack ==
    ASSUME Inv, ~ Alongside, NEW r \in Redoers, NEW n \in 0 .. MaxRedo, StartRedo(r, n)
    PROVE  RolledBack \/ Stutters
<1> DEFINE Q == {RedoDraft(e) : e \in LastActive(chain, n)}
           x == IF Q = {} THEN "deriving" ELSE "commit"
           E == EntriesOf(chain)
<1>0. /\ Sound(MaxSeq, chain) /\ MaxSeq \in Nat /\ n \in Nat /\ r \in Procs
      /\ proc \in [Procs -> States]
  BY MiningAssumption DEF Inv, TypeInv, Procs
<1>1. /\ \A q \in Procs : ~ Running(q)
      /\ proc' = [proc EXCEPT ![r].queue = Q, ![r].pc = x]
      /\ chain' = chain
  BY DEF StartRedo
<1>2. \A q \in Redoers : proc[q].queue = {}
  BY <1>1, IdleIsAState DEF Inv, TypeInv, Procs
<1>3. /\ proc'[r].queue = Q
      /\ \A q \in Redoers : q # r => proc'[q].queue = {}
  <2> HIDE DEF Q, x
  <2>1. proc' = [proc EXCEPT ![r] = [proc[r] EXCEPT !.queue = Q, !.pc = x]]
    BY <1>1
  <2> QED BY <1>0, <1>2, <2>1 DEF States, Procs
<1>4. AskedBy(proc) = {} /\ AskedBy(proc') = Targets(Q)
  BY <1>2, <1>3, NobodyAsks, OneAsks
<1>5. Targets(Q) = {EntryOf(e) : e \in LastActive(chain, n)}
  <2>1. \A e : EntryOf(e) = [prompt |-> RedoDraft(e).prompt, seq |-> RedoDraft(e).supersedes]
    BY DEF EntryOf, RedoDraft
  <2> QED BY <2>1 DEF Targets
<1>6. AskedBy(proc') = LatestOf(E, n)
  BY <1>0, <1>4, <1>5, LastActiveIsLatest
<1>7. /\ IsFiniteSet(E) /\ E \subseteq [prompt : Prompts, seq : Nat]
  BY <1>0, ParsedFinite, EntriesTyped
<1>8. EntriesOf(chain') = E
  BY <1>1
<1>9. CASE E = {}
  BY <1>4, <1>6, <1>8, <1>9 DEF LatestOf, Stutters
<1>10. CASE n = 0
  <2>1. \A e \in E : Cardinality({d \in E : d.seq > e.seq}) \in Nat
    BY <1>7, FS_Subset, FS_CardinalityType
  <2>2. LatestOf(E, n) = {}
    BY <1>10, <2>1 DEF LatestOf
  <2> QED BY <1>4, <1>6, <1>8, <2>2 DEF Stutters
<1>11. CASE E # {} /\ n # 0
  <2>1. \E k \in 1 .. Cardinality(E) : LatestOf(E, n) = LatestOf(E, k)
    BY <1>0, <1>7, <1>11, LatestCapped
  <2> QED BY <1>4, <1>6, <1>8, <2>1 DEF RolledBack
<1> QED BY <1>9, <1>10, <1>11

LEMMA WorkIsRecorded ==
    ASSUME Inv, NEW p \in Miners, NEW d, WriteLine(p, d)
    PROVE  \E x \in Prompts : Recorded(x)
<1> DEFINE r == Stamped(d, NextSeq(chain))
<1>0. p \in Procs /\ p \notin Redoers /\ proc \in [Procs -> States]
  BY MiningAssumption DEF Inv, TypeInv, Procs
<1>1. /\ Running(p) /\ proc[p].pc = "write" /\ d \in Drafts /\ d.type = "work"
      /\ d.prompt = Selected[proc[p].at]
      /\ ~ TornTail(ActiveSegment(chain)) /\ NextSeq(chain) <= MaxSeq
      /\ Wrote(chain, chain', r) /\ r.prompt = d.prompt /\ r.seq = NextSeq(chain)
  BY <1>0, WriteLands
<1>2. d.prompt \in Prompts /\ d.prompt \notin ProcessedIds(chain)
  BY <1>1, SampledIsNew DEF InLoop, Committing
<1>3. /\ Sound(MaxSeq, chain) /\ MaxSeq \in Nat
      /\ NextSeq(chain) \in Nat /\ NextSeq(chain) > 0
      /\ \A z \in Parsed(chain) : At(chain, z).seq < NextSeq(chain)
  BY SoundReads, MiningAssumption DEF Inv
<1>4. \A q \in Redoers : proc[q].queue = {} /\ proc'[q].queue = {}
  <2>1. \A q \in Redoers : proc[q].queue = {}
    BY <1>0, <1>1, OthersAskNothing DEF Procs
  <2>2. \A q \in Redoers : proc'[q] = proc[q]
    BY <1>0 DEF WriteLine, Procs
  <2> QED BY <2>1, <2>2
<1>5. AskedBy(proc) = {} /\ AskedBy(proc') = {}
  BY <1>4, NobodyAsks
<1>6. PICK z : /\ ActivePos(chain') = ActivePos(chain) \cup {z}
               /\ At(chain', z) = r
               /\ \A q \in ActivePos(chain) : At(chain', q) = At(chain, q)
  BY <1>1, <1>3, SoundWork
<1> HIDE DEF r
<1>7. EntriesOf(chain') = EntriesOf(chain) \cup {EntryOf(r)}
  BY <1>6, EntriesAfterWork
<1>8. EntryOf(r) = [prompt |-> d.prompt, seq |-> NextSeq(chain)]
  BY <1>1 DEF EntryOf
<1>9. \A e \in EntriesOf(chain) : e.prompt # d.prompt /\ e.seq < NextSeq(chain)
  <2> SUFFICES ASSUME NEW e \in EntriesOf(chain)
               PROVE  e.prompt # d.prompt /\ e.seq < NextSeq(chain)
    OBVIOUS
  <2>1. PICK q \in ActivePos(chain) : e = EntryOf(At(chain, q))
    BY EntryAt
  <2>2. e.prompt = At(chain, q).prompt /\ e.seq = At(chain, q).seq
    BY <2>1 DEF EntryOf
  <2>3. q \in Parsed(chain)
    BY DEF ActivePos
  <2> QED BY <1>2, <1>3, <2>2, <2>3, ProcessedAt
<1>10. NextSeq(chain) \in 1 .. MaxSeq
  BY <1>1, <1>3
<1>11. Recorded(d.prompt)
  BY <1>5, <1>7, <1>8, <1>9, <1>10 DEF Recorded
<1> QED BY <1>2, <1>11

LEMMA TombstoneRetires ==
    ASSUME Inv, NEW p \in Redoers, NEW d, WriteLine(p, d)
    PROVE  \E e \in AskedBy(proc) : Retired(e)
<1> DEFINE e == [prompt |-> d.prompt, seq |-> d.supersedes]
           Q == proc[p].queue
<1>0. p \in Procs /\ p \notin Miners /\ proc \in [Procs -> States]
  BY MiningAssumption DEF Inv, TypeInv, Procs
<1>1. /\ Running(p) /\ proc[p].pc = "write" /\ proc[p] \in States
      /\ d \in Drafts /\ d.type = "redo" /\ d \in Q
      /\ ~ TornTail(ActiveSegment(chain)) /\ NextSeq(chain) <= MaxSeq
      /\ Wrote(chain, chain', Stamped(d, NextSeq(chain)))
  BY <1>0, WriteLands
<1>2. /\ Sound(MaxSeq, chain) /\ MaxSeq \in Nat /\ DiskOK(chain) /\ SeqsOK(chain)
      /\ QueueOK(p, proc[p], chain)
  BY <1>0, SoundReads, MiningAssumption DEF Inv, Local
<1>3. \A b \in Q : b.type = "redo" /\ b \in Drafts
  BY <1>0, <1>1, <1>2 DEF QueueOK, Committing, States
<1>4. PICK t \in ActivePos(chain) : /\ At(chain, t).prompt = d.prompt
                                   /\ At(chain, t).seq = d.supersedes
  BY <1>0, <1>1, <1>2 DEF QueueOK, Committing
<1>5. EntriesOf(chain') = EntriesOf(chain) \ {e}
  <2>1. EntryOf(At(chain, t)) = e
    BY <1>4 DEF EntryOf
  <2>2. /\ ActivePos(chain') = ActivePos(chain) \ {t}
        /\ \A q \in ActivePos(chain) : At(chain', q) = At(chain, q)
    BY <1>1, <1>2, <1>4, SoundRedo
  <2> QED BY <1>2, <2>1, <2>2, EntriesAfterRedo
<1>6. /\ proc'[p].queue = Q \ {d}
      /\ \A q \in Redoers : q # p => proc'[q].queue = {} /\ proc[q].queue = {}
  <2>1. proc' = [proc EXCEPT ![p] = [proc[p] EXCEPT !.queue = Q \ {d},
                   !.pc = IF Q = {d} THEN "deriving" ELSE "commit"]]
    <3>1. PICK x : x = IF Q = {d} THEN "deriving" ELSE "commit"
      OBVIOUS
    <3>2. proc' = [proc EXCEPT ![p].queue = @ \ {d}, ![p].at = @, ![p].pc = x]
      BY <1>0, <3>1 DEF WriteLine
    <3>3. [proc[p] EXCEPT !.queue = @ \ {d}, !.at = @, !.pc = x]
             = [proc[p] EXCEPT !.queue = Q \ {d}, !.pc = x]
      BY <1>1 DEF States
    <3> QED BY <3>1, <3>2, <3>3
  <2>2. \A q \in Redoers : q # p => proc[q].queue = {}
    BY <1>0, <1>1, OthersAskNothing DEF Procs
  <2> QED BY <1>0, <1>1, <2>1, <2>2 DEF States, Procs
<1>7. AskedBy(proc) = Targets(Q) /\ AskedBy(proc') = Targets(Q \ {d})
  BY <1>6, OneAsks
<1>8. e \in Targets(Q) /\ \A f \in Targets(Q) : e.seq <= f.seq
  BY <1>1, <1>3 DEF Targets, WriteLine, InTurn
<1>9. ASSUME NEW b \in Q, b.prompt = d.prompt, b.supersedes = d.supersedes PROVE b = d
  BY <1>1, <1>3, <1>9 DEF Drafts
<1>10. Targets(Q \ {d}) = Targets(Q) \ {e}
  <2>1. \A b \in Q \ {d} : [prompt |-> b.prompt, seq |-> b.supersedes] # e
    BY <1>9
  <2> QED BY <2>1 DEF Targets
<1>11. Retired(e)
  BY <1>5, <1>7, <1>8, <1>10 DEF Retired
<1> QED BY <1>7, <1>8, <1>11

LEMMA StepImplements ==
    ASSUME ~ Alongside
    PROVE  Inv /\ [Next]_vars => [Log!Next]_(Log!vars)
<1> SUFFICES ASSUME Inv, [Next]_vars
             PROVE  \/ \E p \in Prompts : Recorded(p)
                    \/ RolledBack
                    \/ \E e \in AskedBy(proc) : Retired(e)
                    \/ Interrupted
                    \/ Stutters
  BY MapsToWorkLog
<1>1. ASSUME NEW m \in Miners, NEW fresh \in Fresh, Launch(m, fresh) PROVE Stutters
  BY <1>1, MinerStutters
<1>2. ASSUME NEW r \in Redoers, NEW n \in 0 .. MaxRedo, StartRedo(r, n)
      PROVE  RolledBack \/ Stutters
  BY <1>2, RedoRollsBack
<1>3. ASSUME NEW m \in Miners, MinerStep(m) \/ SampleFails(m) PROVE Stutters
  BY <1>3, MinerStutters
<1>4. ASSUME NEW p \in Procs, NEW d, WriteLine(p, d)
      PROVE  (\E x \in Prompts : Recorded(x)) \/ (\E e \in AskedBy(proc) : Retired(e))
  BY <1>4, WorkIsRecorded, TombstoneRetires DEF Procs
<1>5. ASSUME NEW p \in Procs, ChooseSegment(p) \/ Allocate(p) \/ Summarize(p) PROVE Stutters
  BY <1>5, ReaderStutters
<1>6. ASSUME NEW p \in Procs, NEW f, NEW next, WriteDerived(p, f, next) PROVE Stutters
  BY <1>6, ReaderStutters
<1>7. ASSUME NEW p \in Procs, SealAndRotate(p) PROVE Stutters
  BY <1>7, RotationStutters
<1>8. ASSUME NEW p \in Procs, Return(p) \/ Crash(p) \/ CrashInWrite(p) PROVE Interrupted
  BY <1>8, EndMaps
<1>9. CASE RemoveStaleLock \/ UNCHANGED vars
  BY <1>9 DEF RemoveStaleLock, vars, Stutters
<1> QED BY <1>1, <1>2, <1>3, <1>4, <1>5, <1>6, <1>7, <1>8, <1>9 DEF Next, ProcStep

\* An observer of the directory sees WorkLog: whatever runs, is killed or is
\* relaunched, an entry is recorded once, and retired only for a rollback.
THEOREM StageImplementsWorkLog ==
    ASSUME ~ Alongside
    PROVE  Spec => ImplementsWorkLog
<1>1. Init => Log!Init
  <2> SUFFICES ASSUME Init PROVE Log!Init
    OBVIOUS
  <2>1. chain = << <<>> >> /\ \A r \in Redoers : proc[r] = Idle
    BY DEF Init, Procs
  <2>2. Active(chain) = {}
    BY <2>1, EmptyIsSound, MiningAssumption
  <2>3. AskedBy(proc) = {}
    BY <2>1, IdleIsAState, NobodyAsks
  <2> QED BY <2>2, <2>3 DEF Log!Init, AskedBy, Targets
<1>2. Inv /\ [Next]_vars => [Log!Next]_(Log!vars)
  BY StepImplements
<1> QED BY <1>1, <1>2, AlwaysInv, PTL DEF Spec, ImplementsWorkLog, Log!Spec
=============================================================================
