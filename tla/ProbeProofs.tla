----------------------------- MODULE ProbeProofs -----------------------------
(***************************************************************************)
(* What is proved of the paid probe, for every number of launchers, every  *)
(* deadline and every number of kills.                                     *)
(***************************************************************************)
EXTENDS Probe, TLAPS

-----------------------------------------------------------------------------
(* Which actions change what. *)

LEMMA LeafChanges ==
    ASSUME [Next]_vars, ~ UNCHANGED leaf
    PROVE  \E l \in Launchers :
              \/ \E id \in Ids, only \in BOOLEAN : Launch(l, id, only)
              \/ PublishPid(l) \/ WriteReceipt(l)
BY DEF Next, vars, LauncherStep, Checkout, Acquire, Verify, StepFails, StartBilled,
       RefuseBilled, BilledEnds, Collect, WriteFooter, WriteRecord, Leave, Watch,
       ScanFooter, CheckAlive, Tick, Kill, Corrupt

LEMMA JobChanges ==
    ASSUME [Next]_vars, ~ UNCHANGED job
    PROVE  \E l \in Launchers :
              \/ StartBilled(l) \/ Collect(l)
              \/ \E how \in {"ok", "failed"} : BilledEnds(l, how)
BY DEF Next, vars, LauncherStep, Launch, PublishPid, Checkout, Acquire, Verify, StepFails,
       RefuseBilled, WriteReceipt, WriteFooter, WriteRecord, Leave, Watch, ScanFooter,
       CheckAlive, Tick, Kill, Corrupt

LEMMA LogChanges ==
    ASSUME [Next]_vars, ~ UNCHANGED log
    PROVE  \E l \in Launchers : WriteFooter(l) \/ WriteRecord(l) \/ Kill(l)
BY DEF Next, vars, LauncherStep, Launch, PublishPid, Checkout, Acquire, Verify, StepFails,
       StartBilled, RefuseBilled, BilledEnds, Collect, WriteReceipt, Leave, Watch,
       ScanFooter, CheckAlive, Tick, Corrupt

LEMMA MonitorChanges ==
    ASSUME [Next]_vars, ~ UNCHANGED monitor
    PROVE  (\E id \in Ids : Watch(id)) \/ ScanFooter \/ CheckAlive
BY DEF Next, vars, LauncherStep, Launch, PublishPid, Checkout, Acquire, Verify, StepFails,
       StartBilled, RefuseBilled, BilledEnds, Collect, WriteReceipt, WriteFooter,
       WriteRecord, Leave, Tick, Kill, Corrupt

LEMMA FixturesChange ==
    ASSUME [Next]_vars, ~ UNCHANGED <<fixtures, hit>>
    PROVE  Corrupt \/ \E l \in Launchers : Acquire(l) \/ Collect(l)
BY DEF Next, vars, LauncherStep, Launch, PublishPid, Checkout, Verify, StepFails,
       StartBilled, RefuseBilled, BilledEnds, WriteReceipt, WriteFooter, WriteRecord,
       Leave, Watch, ScanFooter, CheckAlive, Tick, Kill

LEMMA TimePasses ==
    ASSUME [Next]_vars, ~ UNCHANGED now
    PROVE  Tick
BY DEF Next, vars, LauncherStep, Launch, PublishPid, Checkout, Acquire, Verify, StepFails,
       StartBilled, RefuseBilled, BilledEnds, Collect, WriteReceipt, WriteFooter,
       WriteRecord, Leave, Watch, ScanFooter, CheckAlive, Kill, Corrupt

\* What becomes of one launcher in a step.
Moves(l) ==
    \/ \E id \in Ids, only \in BOOLEAN : Launch(l, id, only)
    \/ launcher[l].pc \in {"publish", "checkout", "acquire"} \cup Billed /\ Proceed(l)
    \/ Verify(l) \/ WriteReceipt(l)
    \/ launcher[l].pc \in Unbilled \cup Billed /\ ExitNonzero(l)
    \/ WriteFooter(l) \/ WriteRecord(l) \/ Leave(l)
    \/ Kill(l)

LEMMA LauncherChanges ==
    ASSUME [Next]_vars, ~ UNCHANGED launcher
    PROVE  \E l \in Launchers : Moves(l)
BY DEF Next, vars, LauncherStep, Moves, PublishPid, Checkout, Acquire, StepFails,
       StartBilled, RefuseBilled, BilledEnds, Collect, Watch, ScanFooter,
       CheckAlive, Tick, Corrupt, IsAt, Unbilled, Billed, Generating, Verifying

-----------------------------------------------------------------------------
(* What the variables hold. *)

Pcs == Unbilled \cup Billed
       \cup {"out", "exiting", "recording", "leaving", "gone"}

LauncherStates == [pc : Pcs, id : Ids \cup {""}, ladderOnly : BOOLEAN, ok : BOOLEAN]

Files == [file : {"dir", "pid", "receipt"}, by : Launchers]

LogLines == [line : {"footer", "cut"}]
            \cup [line : {"record"}, pid : Launchers, ok : BOOLEAN]

Footers == {"absent", "unauthenticated", "malformed_record", "foreign", "complete", "failed"}

MonitorStates ==
    [pc : {"off", "checking", "scanned", "over"},
     watch : Launchers \cup {NoPid},
     footer : Footers,
     verdict : {"none", "completed_ok", "completed_failed", "died_hard"}]

TypeInv ==
    /\ now \in Nat /\ hit \subseteq Launchers
    /\ leaf \in [Ids -> SUBSET Files]
    /\ launcher \in [Launchers -> LauncherStates]
    /\ job \in [Launchers -> [state : {"none", "running", "ok", "failed"}, until : Int]]
    /\ log \in Seq(LogLines)
    /\ monitor \in MonitorStates

LEMMA ThenStays ==
    ASSUME NEW step \in Unbilled \cup Billed, NEW only
    PROVE  Then(step, only) \in Pcs \ {"out", "gone"}
BY DEF Then, Unbilled, Billed, Verifying, Generating, Pcs

LEMMA LeafType ==
    ASSUME TypeInv, [Next]_vars
    PROVE  leaf' \in [Ids -> SUBSET Files]
<1>1. CASE UNCHANGED leaf
  BY <1>1 DEF TypeInv
<1>2. ASSUME NEW l \in Launchers, NEW id \in Ids, NEW only \in BOOLEAN,
             Launch(l, id, only)
      PROVE  leaf' \in [Ids -> SUBSET Files]
  BY <1>2 DEF Launch, Files, TypeInv
<1>3. ASSUME NEW l \in Launchers, NEW file \in {"dir", "pid", "receipt"}, Put(l, file)
      PROVE  leaf' \in [Ids -> SUBSET Files]
  <2>1. [file |-> file, by |-> l] \in Files
    BY DEF Files
  <2> QED BY <1>3, <2>1 DEF Put, TypeInv
<1> QED
  BY <1>1, <1>2, <1>3, LeafChanges DEF PublishPid, WriteReceipt

LEMMA LauncherType ==
    ASSUME TypeInv, [Next]_vars
    PROVE  launcher' \in [Launchers -> LauncherStates]
<1>1. CASE UNCHANGED launcher
  BY <1>1 DEF TypeInv
<1>2. ASSUME NEW l \in Launchers, NEW id \in Ids, NEW only \in BOOLEAN,
             Launch(l, id, only)
      PROVE  launcher' \in [Launchers -> LauncherStates]
  <2>1. "publish" \in Pcs
    BY DEF Pcs, Unbilled
  <2>2. [pc |-> "publish", id |-> id, ladderOnly |-> only, ok |-> TRUE] \in LauncherStates
    BY <2>1 DEF LauncherStates
  <2> QED BY <1>2, <2>2 DEF Launch, TypeInv
<1>3. ASSUME NEW l \in Launchers, NEW pc \in Pcs,
             launcher' = [launcher EXCEPT ![l].pc = pc]
      PROVE  launcher' \in [Launchers -> LauncherStates]
  <2>1. [launcher[l] EXCEPT !.pc = pc] \in LauncherStates
    BY DEF TypeInv, LauncherStates
  <2> QED BY <1>3, <2>1 DEF TypeInv
<1>4. ASSUME NEW l \in Launchers, ExitNonzero(l)
      PROVE  launcher' \in [Launchers -> LauncherStates]
  <2>1. "exiting" \in Pcs
    BY DEF Pcs
  <2>2. [launcher[l] EXCEPT !.pc = "exiting", !.ok = FALSE] \in LauncherStates
    BY <2>1 DEF TypeInv, LauncherStates
  <2> QED BY <1>4, <2>2 DEF TypeInv, ExitNonzero
<1>5. ASSUME NEW l \in Launchers, launcher[l].pc \in Unbilled \cup Billed, Proceed(l)
      PROVE  launcher' \in [Launchers -> LauncherStates]
  <2>1. Then(launcher[l].pc, launcher[l].ladderOnly) \in Pcs
    BY <1>5, ThenStays
  <2> QED BY <1>3, <1>5, <2>1 DEF Proceed
<1>6. ASSUME NEW l \in Launchers, WriteFooter(l) \/ WriteRecord(l) \/ Leave(l) \/ Kill(l)
      PROVE  launcher' \in [Launchers -> LauncherStates]
  BY <1>3, <1>6 DEF WriteFooter, WriteRecord, Leave, Kill, Pcs
<1> QED
  BY <1>1, <1>2, <1>4, <1>5, <1>6, LauncherChanges DEF Moves, Verify, WriteReceipt,
                                                       IsAt, Unbilled

LEMMA JobType ==
    ASSUME ProbeAssumption, TypeInv, [Next]_vars
    PROVE  job' \in [Launchers ->
                        [state : {"none", "running", "ok", "failed"}, until : Int]]
<1>1. CASE UNCHANGED job
  BY <1>1 DEF TypeInv
<1>2. ASSUME NEW l \in Launchers, StartBilled(l) \/ Collect(l)
      PROVE  job' \in [Launchers ->
                        [state : {"none", "running", "ok", "failed"}, until : Int]]
  <2>1. now + Budget \in Int
    BY DEF Budget, ProbeAssumption, TypeInv
  <2>2. CASE StartBilled(l)
    BY <2>1, <2>2 DEF StartBilled, TypeInv
  <2>3. CASE Collect(l)
    <3>1. NoJob \in [state : {"none", "running", "ok", "failed"}, until : Int]
      BY DEF NoJob
    <3> QED BY <2>3, <3>1 DEF Collect, TypeInv
  <2> QED BY <1>2, <2>2, <2>3
<1>3. ASSUME NEW l \in Launchers, NEW how \in {"ok", "failed"}, BilledEnds(l, how)
      PROVE  job' \in [Launchers ->
                        [state : {"none", "running", "ok", "failed"}, until : Int]]
  BY <1>3 DEF BilledEnds, TypeInv
<1> QED
  BY <1>1, <1>2, <1>3, JobChanges

LEMMA LogType ==
    ASSUME TypeInv, [Next]_vars
    PROVE  log' \in Seq(LogLines)
<1>1. CASE UNCHANGED log
  BY <1>1 DEF TypeInv
<1>2. ASSUME NEW l \in Launchers, WriteFooter(l) \/ WriteRecord(l) \/ Kill(l)
      PROVE  log' \in Seq(LogLines)
  <2>1. [line |-> "footer"] \in LogLines /\ [line |-> "cut"] \in LogLines
    BY DEF LogLines
  <2>2. [line |-> "record", pid |-> l, ok |-> launcher[l].ok] \in LogLines
    BY DEF LogLines, TypeInv, LauncherStates
  <2>3. CASE WriteFooter(l)
    BY <2>1, <2>3 DEF WriteFooter, TypeInv
  <2>4. CASE WriteRecord(l)
    BY <2>2, <2>4 DEF WriteRecord, TypeInv
  <2>5. CASE Kill(l)
    <3>1. log' = log \/ log' = Append(log, [line |-> "cut"])
      BY <2>5 DEF Kill
    <3>2. Append(log, [line |-> "cut"]) \in Seq(LogLines)
      BY <2>1 DEF TypeInv
    <3> QED BY <3>1, <3>2 DEF TypeInv
  <2> QED BY <1>2, <2>3, <2>4, <2>5
<1> QED
  BY <1>1, <1>2, LogChanges

LEMMA MonitorType ==
    ASSUME TypeInv, [Next]_vars
    PROVE  monitor' \in MonitorStates
<1>1. CASE UNCHANGED monitor
  BY <1>1 DEF TypeInv
<1>2. ASSUME NEW id \in Ids, Watch(id)
      PROVE  monitor' \in MonitorStates
  <2>1. PICK f \in leaf[id] : monitor' = [monitor EXCEPT !.pc = "checking", !.watch = f.by]
    BY <1>2 DEF Watch
  <2>2. f.by \in Launchers
    BY DEF Files, TypeInv
  <2> QED BY <2>1, <2>2 DEF MonitorStates, TypeInv
<1>3. CASE ScanFooter
  <2>1. Footer(monitor.watch) \in Footers
    BY DEF Footer, Footers
  <2> QED BY <1>3, <2>1 DEF ScanFooter, MonitorStates, TypeInv
<1>4. CASE CheckAlive
  BY <1>4 DEF CheckAlive, MonitorStates, Footers, TypeInv
<1> QED
  BY <1>1, <1>2, <1>3, <1>4, MonitorChanges

LEMMA TypeInit == ProbeAssumption /\ Init => TypeInv
<1> SUFFICES ASSUME ProbeAssumption, Init PROVE TypeInv
  OBVIOUS
<1>1. leaf \in [Ids -> SUBSET Files]
  BY DEF Init
<1>2. launcher \in [Launchers -> LauncherStates]
  <2>1. [pc |-> "out", id |-> "", ladderOnly |-> FALSE, ok |-> TRUE] \in LauncherStates
    BY DEF LauncherStates, Pcs
  <2> QED BY <2>1 DEF Init
<1>3. job \in [Launchers -> [state : {"none", "running", "ok", "failed"}, until : Int]]
  <2>1. NoJob \in [state : {"none", "running", "ok", "failed"}, until : Int]
    BY DEF NoJob
  <2> QED BY <2>1 DEF Init
<1>4. log \in Seq(LogLines)
  <2>1. log = <<>>
    BY DEF Init
  <2> QED BY <2>1
<1>5. monitor \in MonitorStates
  BY DEF Init, MonitorStates, Footers
<1> QED
  BY <1>1, <1>2, <1>3, <1>4, <1>5 DEF Init, TypeInv

LEMMA TypeStep ==
    ASSUME ProbeAssumption, TypeInv, [Next]_vars
    PROVE  TypeInv'
<1>1. now' \in Nat
  BY TimePasses DEF Tick, TypeInv
<1>2. hit' \subseteq Launchers
  BY FixturesChange DEF Corrupt, Acquire, Collect, TypeInv
<1> QED
  BY <1>1, <1>2, LeafType, LauncherType, JobType, LogType, MonitorType DEF TypeInv

-----------------------------------------------------------------------------
(* The billed command. *)

\* A billed command that runs was given what was left of the allowance, and no
\* more than the grace has passed since.
JobInv ==
    \A l \in Launchers :
        job[l].state = "running" => job[l].until = Deadline /\ now <= Deadline + Grace

LEMMA JobStep ==
    ASSUME ProbeAssumption, TypeInv, JobInv, [Next]_vars
    PROVE  JobInv'
<1> SUFFICES ASSUME NEW l \in Launchers, job'[l].state = "running"
             PROVE  job'[l].until = Deadline /\ now' <= Deadline + Grace
  BY DEF JobInv
<1>1. ASSUME NEW m \in Launchers, StartBilled(m)
      PROVE  job'[l].until = Deadline /\ now' <= Deadline + Grace
  <2>1. now < Deadline /\ now' = now
    BY <1>1 DEF StartBilled, Budget, TypeInv, ProbeAssumption
  <2>2. now + Budget = Deadline
    BY DEF Budget, TypeInv, ProbeAssumption
  <2>3. CASE m = l
    BY <1>1, <2>1, <2>2, <2>3 DEF StartBilled, TypeInv, ProbeAssumption
  <2>4. CASE m # l
    BY <1>1, <2>1, <2>4 DEF StartBilled, JobInv, TypeInv
  <2> QED BY <2>3, <2>4
<1>2. ASSUME NEW m \in Launchers, NEW how \in {"ok", "failed"},
             Collect(m) \/ BilledEnds(m, how)
      PROVE  job'[l].until = Deadline /\ now' <= Deadline + Grace
  <2>1. job[l].state = "running" /\ job'[l] = job[l]
    <3>1. CASE Collect(m)
      BY <3>1 DEF Collect, NoJob, TypeInv
    <3>2. CASE BilledEnds(m, how)
      BY <3>2 DEF BilledEnds, TypeInv
    <3> QED BY <1>2, <3>1, <3>2
  <2>2. now' = now
    BY <1>2 DEF Collect, BilledEnds
  <2> QED BY <2>1, <2>2 DEF JobInv
<1>3. CASE Tick
  BY <1>3 DEF Tick, JobInv, TypeInv, ProbeAssumption
<1>4. CASE UNCHANGED <<now, job>>
  BY <1>4 DEF JobInv
<1>5. CASE Tick \/ UNCHANGED now
  BY <1>1, <1>2, <1>3, <1>4, <1>5, JobChanges
<1> QED BY <1>5, TimePasses

-----------------------------------------------------------------------------
(* The leaf of an invocation. *)

\* One launcher moves at a time.
LEMMA OthersStay ==
    ASSUME TypeInv, NEW m \in Launchers, Moves(m), NEW l \in Launchers, m # l
    PROVE  launcher'[l] = launcher[l]
<1>1. CASE \E id \in Ids, only \in BOOLEAN : Launch(m, id, only)
  BY <1>1 DEF Launch, TypeInv
<1>2. CASE Proceed(m)
  BY <1>2 DEF Proceed, TypeInv
<1>3. CASE ExitNonzero(m)
  BY <1>3 DEF ExitNonzero, TypeInv
<1>4. CASE WriteFooter(m) \/ WriteRecord(m) \/ Leave(m) \/ Kill(m)
  BY <1>4 DEF WriteFooter, WriteRecord, Leave, Kill, TypeInv
<1> QED
  BY <1>1, <1>2, <1>3, <1>4 DEF Moves, Verify, WriteReceipt

\* What a launcher that has started keeps.
LEMMA StartedStays ==
    ASSUME TypeInv, [Next]_vars, NEW l \in Launchers, launcher[l].pc # "out"
    PROVE  /\ launcher'[l].pc # "out"
           /\ launcher'[l].id = launcher[l].id
           /\ launcher'[l].ladderOnly = launcher[l].ladderOnly
           /\ launcher'[l].ok => launcher[l].ok
<1>1. CASE UNCHANGED launcher
  BY <1>1
<1>2. ASSUME NEW m \in Launchers, Moves(m), m # l
      PROVE  launcher'[l] = launcher[l]
  BY <1>2, OthersStay
<1>3. CASE Moves(l)
  <2>1. CASE launcher[l].pc \in Unbilled \cup Billed /\ Proceed(l)
    BY <2>1, ThenStays DEF Proceed, TypeInv, LauncherStates
  <2>2. CASE ExitNonzero(l)
    BY <2>2 DEF ExitNonzero, TypeInv, LauncherStates
  <2>3. CASE WriteFooter(l) \/ WriteRecord(l) \/ Leave(l) \/ Kill(l)
    BY <2>3 DEF WriteFooter, WriteRecord, Leave, Kill, TypeInv, LauncherStates
  <2>4. ~ \E id \in Ids, only \in BOOLEAN : Launch(l, id, only)
    BY DEF Launch, IsAt
  <2> QED BY <1>3, <2>1, <2>2, <2>3, <2>4 DEF Moves, Verify, WriteReceipt, IsAt, Unbilled
<1> QED
  BY <1>1, <1>2, <1>3, LauncherChanges

\* A process that is gone stays as it was.
LEMMA GoneStays ==
    ASSUME TypeInv, [Next]_vars, NEW l \in Launchers, launcher[l].pc = "gone"
    PROVE  launcher'[l] = launcher[l]
<1>1. CASE UNCHANGED launcher
  BY <1>1
<1>2. ASSUME NEW m \in Launchers, Moves(m)
      PROVE  m # l
  BY <1>2 DEF Moves, Launch, Verify, WriteReceipt, WriteFooter, WriteRecord, Leave,
              Kill, Alive, IsAt,
              Unbilled, Billed, Verifying, Generating
<1>3. ASSUME NEW m \in Launchers, Moves(m), m # l
      PROVE  launcher'[l] = launcher[l]
  BY <1>3, OthersStay
<1> QED
  BY <1>1, <1>2, <1>3, LauncherChanges

\* A launcher that has started has written into its leaf, the writers in a leaf
\* are launchers that have started, and there is one to a leaf.
LeafInv ==
    /\ \A l \in Launchers : launcher[l].pc # "out" =>
          launcher[l].id \in Ids /\ \E f \in leaf[launcher[l].id] : f.by = l
    /\ \A id \in Ids : \A f \in leaf[id] : launcher[f.by].pc # "out"
    /\ OneWriterPerLeaf

\* No file of a leaf is ever removed.
LEMMA LeafGrows ==
    ASSUME TypeInv, [Next]_vars, NEW id \in Ids
    PROVE  leaf[id] \subseteq leaf'[id]
BY LeafChanges DEF TypeInv, Launch, PublishPid, WriteReceipt, Put

LEMMA LeafStep ==
    ASSUME TypeInv, LeafInv, [Next]_vars
    PROVE  LeafInv'
<1>1. ASSUME NEW l \in Launchers, NEW id \in Ids, NEW only \in BOOLEAN,
             Launch(l, id, only)
      PROVE  LeafInv'
  <2>1. /\ leaf'[id] = {[file |-> "dir", by |-> l]}
        /\ \A i \in Ids \ {id} : leaf'[i] = leaf[i]
    BY <1>1 DEF Launch, TypeInv
  <2>2. /\ launcher'[l].pc = "publish" /\ launcher'[l].id = id
        /\ \A m \in Launchers \ {l} : launcher'[m] = launcher[m]
    BY <1>1 DEF Launch, TypeInv
  <2>3. leaf[id] = {}
    BY <1>1 DEF Launch
  <2>4. \A m \in Launchers : launcher'[m].pc # "out" =>
          launcher'[m].id \in Ids /\ \E f \in leaf'[launcher'[m].id] : f.by = m
    <3>1. ASSUME NEW m \in Launchers \ {l}, launcher[m].pc # "out"
          PROVE  launcher[m].id \in Ids /\ leaf'[launcher[m].id] = leaf[launcher[m].id]
      BY <2>1, <2>3, <3>1 DEF LeafInv
    <3>2. ASSUME NEW m \in Launchers \ {l}, launcher[m].pc # "out"
          PROVE  \E f \in leaf'[launcher[m].id] : f.by = m
      BY <3>1, <3>2 DEF LeafInv
    <3>3. \E f \in leaf'[id] : f.by = l
      BY <2>1
    <3> QED BY <2>2, <3>1, <3>2, <3>3
  <2>5. \A i \in Ids : \A f \in leaf'[i] : launcher'[f.by].pc # "out"
    BY <2>1, <2>2 DEF LeafInv, TypeInv, Files
  <2>6. OneWriterPerLeaf'
    BY <2>1 DEF LeafInv, OneWriterPerLeaf
  <2> QED BY <2>4, <2>5, <2>6 DEF LeafInv
<1>2. ASSUME \A l \in Launchers : launcher'[l].pc # "out" => launcher[l].pc # "out"
      PROVE  \A l \in Launchers : launcher'[l].pc # "out" =>
                launcher'[l].id \in Ids /\ \E f \in leaf'[launcher'[l].id] : f.by = l
  BY <1>2, StartedStays, LeafGrows DEF LeafInv
<1>3. ASSUME NEW l \in Launchers, NEW file, Put(l, file), launcher[l].pc # "out"
      PROVE  /\ \A id \in Ids : \A f \in leaf'[id] : launcher'[f.by].pc # "out"
             /\ OneWriterPerLeaf'
  <2>1. launcher[l].id \in Ids /\ \E f \in leaf[launcher[l].id] : f.by = l
    BY <1>3 DEF LeafInv
  <2>2. \A id \in Ids : \A f \in leaf'[id] :
           f \in leaf[id] \/ (id = launcher[l].id /\ f.by = l)
    <3>1. ASSUME NEW id \in Ids, id # launcher[l].id
          PROVE  leaf'[id] = leaf[id]
      BY <1>3, <3>1 DEF Put, TypeInv
    <3>2. leaf'[launcher[l].id] = leaf[launcher[l].id] \cup {[file |-> file, by |-> l]}
      BY <1>3, <2>1 DEF Put, TypeInv
    <3> QED
      <4> SUFFICES ASSUME NEW id \in Ids, NEW f \in leaf'[id]
                   PROVE  f \in leaf[id] \/ (id = launcher[l].id /\ f.by = l)
        OBVIOUS
      <4>1. CASE id = launcher[l].id
        BY <3>2, <4>1
      <4>2. CASE id # launcher[l].id
        BY <3>1, <4>2
      <4> QED BY <4>1, <4>2
  <2>3. \A id \in Ids : \A f \in leaf'[id] : f.by \in Launchers /\ launcher[f.by].pc # "out"
    BY <1>3, <2>2 DEF LeafInv, TypeInv, Files
  <2>4. \A id \in Ids : \A f, g \in leaf'[id] : f.by = g.by
    BY <2>1, <2>2 DEF LeafInv, OneWriterPerLeaf
  <2> QED BY <2>3, <2>4, StartedStays DEF OneWriterPerLeaf
<1>4. CASE ~ \E l \in Launchers, id \in Ids, only \in BOOLEAN : Launch(l, id, only)
  <2>1. \A l \in Launchers : launcher'[l].pc # "out" => launcher[l].pc # "out"
    <3>1. ASSUME NEW m \in Launchers, Moves(m)
          PROVE  \A l \in Launchers : launcher'[l].pc # "out" => launcher[l].pc # "out"
      <4>1. launcher[m].pc # "out"
        BY <1>4, <3>1 DEF Moves, Verify, WriteReceipt, WriteFooter, WriteRecord, Leave,
                          Kill, Alive, IsAt,
                          Unbilled, Billed, Verifying, Generating
      <4> QED BY <3>1, <4>1, OthersStay
    <3> QED BY <3>1, LauncherChanges
  <2>2. CASE UNCHANGED leaf
    BY <1>2, <2>1, <2>2, StartedStays DEF LeafInv, OneWriterPerLeaf, TypeInv, Files
  <2>3. ASSUME NEW l \in Launchers, PublishPid(l) \/ WriteReceipt(l)
        PROVE  LeafInv'
    BY <1>2, <1>3, <2>1, <2>3 DEF PublishPid, WriteReceipt, IsAt, LeafInv
  <2> QED BY <1>4, <2>2, <2>3, LeafChanges
<1> QED BY <1>1, <1>4

-----------------------------------------------------------------------------
(* The log, the receipt and the monitor. *)

\* A record in the log was written by the launcher it names, at its end, and
\* says what became of it; the records have a last one.
LogInv ==
    /\ \A k \in DOMAIN log : log[k].line = "record" =>
          /\ launcher[log[k].pid].pc \in {"leaving", "gone"}
          /\ launcher[log[k].pid].ok = log[k].ok
    /\ RecordLines # {} => \E i \in RecordLines : \A j \in RecordLines : j <= i

\* The lines of a step.
LEMMA LogGrows ==
    ASSUME TypeInv, [Next]_vars
    PROVE  \/ UNCHANGED log
           \/ \E line \in LogLines :
                 /\ log' = Append(log, line)
                 /\ line.line = "record" =>
                      \E l \in Launchers :
                         /\ WriteRecord(l)
                         /\ line = [line |-> "record", pid |-> l, ok |-> launcher[l].ok]
<1>1. [line |-> "footer"] \in LogLines /\ [line |-> "cut"] \in LogLines
  BY DEF LogLines
<1>2. ASSUME NEW l \in Launchers
      PROVE  [line |-> "record", pid |-> l, ok |-> launcher[l].ok] \in LogLines
  BY DEF LogLines, TypeInv, LauncherStates
<1>3. ASSUME NEW l \in Launchers, WriteFooter(l)
      PROVE  log' = Append(log, [line |-> "footer"])
  BY <1>3 DEF WriteFooter
<1>4. ASSUME NEW l \in Launchers, WriteRecord(l)
      PROVE  log' = Append(log, [line |-> "record", pid |-> l, ok |-> launcher[l].ok])
  BY <1>4 DEF WriteRecord
<1>5. ASSUME NEW l \in Launchers, Kill(l)
      PROVE  UNCHANGED log \/ log' = Append(log, [line |-> "cut"])
  BY <1>5 DEF Kill
<1> QED
  BY <1>1, <1>2, <1>3, <1>4, <1>5, LogChanges

\* What is in the log stays there, with at most one line after it.
LEMMA LogKeeps ==
    ASSUME TypeInv, [Next]_vars
    PROVE  /\ \A k \in DOMAIN log : k \in DOMAIN log' /\ log'[k] = log[k]
           /\ DOMAIN log' \subseteq DOMAIN log \cup {Len(log) + 1}
           /\ DOMAIN log = 1 .. Len(log) /\ Len(log) \in Nat
<1>1. log \in Seq(LogLines) /\ Len(log) \in Nat /\ DOMAIN log = 1 .. Len(log)
  BY DEF TypeInv
<1>2. ASSUME NEW line \in LogLines, log' = Append(log, line)
      PROVE  /\ \A k \in DOMAIN log : k \in DOMAIN log' /\ log'[k] = log[k]
             /\ DOMAIN log' \subseteq DOMAIN log \cup {Len(log) + 1}
  BY <1>1, <1>2
<1> QED
  BY <1>1, <1>2, LogGrows

LEMMA LogStep ==
    ASSUME TypeInv, LogInv, [Next]_vars
    PROVE  LogInv'
<1>1. log \in Seq(LogLines) /\ log' \in Seq(LogLines)
  BY LogType DEF TypeInv
<1>2. ASSUME NEW l \in Launchers, launcher[l].pc \in {"leaving", "gone"}
      PROVE  launcher'[l].pc \in {"leaving", "gone"} /\ launcher'[l].ok = launcher[l].ok
  <2>1. ASSUME NEW m \in Launchers, Moves(m), m # l
        PROVE  launcher'[l] = launcher[l]
    BY <2>1, OthersStay
  <2>2. CASE Moves(l)
    <3>1. Leave(l) \/ Kill(l)
      BY <1>2, <2>2 DEF Moves, Launch, Verify, WriteReceipt, WriteFooter, WriteRecord,
                        IsAt, Unbilled,
                        Billed, Verifying, Generating
    <3> QED BY <3>1 DEF Leave, Kill, TypeInv, LauncherStates
  <2> QED BY <1>2, <2>1, <2>2, LauncherChanges
<1>3. ASSUME NEW l \in Launchers, WriteRecord(l)
      PROVE  launcher'[l].pc = "leaving" /\ launcher'[l].ok = launcher[l].ok
  BY <1>3 DEF WriteRecord, TypeInv, LauncherStates
<1>4. ASSUME NEW k \in DOMAIN log', log'[k].line = "record"
      PROVE  /\ launcher'[log'[k].pid].pc \in {"leaving", "gone"}
             /\ launcher'[log'[k].pid].ok = log'[k].ok
  <2>1. CASE k \in DOMAIN log
    <3>1. log'[k] = log[k] /\ log[k] \in LogLines
      BY <1>1, <2>1, LogKeeps
    <3>2. log[k].pid \in Launchers
      BY <1>4, <3>1 DEF LogLines
    <3> QED BY <1>2, <1>4, <2>1, <3>1, <3>2 DEF LogInv
  <2>2. CASE k \notin DOMAIN log
    <3>1. k = Len(log) + 1
      BY <2>2, LogKeeps
    <3>2. PICK line \in LogLines :
             /\ log' = Append(log, line)
             /\ line.line = "record" =>
                  \E l \in Launchers :
                     /\ WriteRecord(l)
                     /\ line = [line |-> "record", pid |-> l, ok |-> launcher[l].ok]
      BY <2>2, LogGrows
    <3>3. log'[k] = line
      BY <1>1, <3>1, <3>2
    <3> QED BY <1>3, <1>4, <3>2, <3>3
  <2> QED BY <2>1, <2>2
<1>5. RecordLines' # {} =>
         \E i \in RecordLines' : \A j \in RecordLines' : j <= i
  <2>1. CASE Len(log) + 1 \in RecordLines'
    BY <2>1, LogKeeps DEF RecordLines
  <2>2. CASE Len(log) + 1 \notin RecordLines'
    <3>1. RecordLines' = RecordLines
      BY <2>2, LogKeeps DEF RecordLines
    <3> QED BY <3>1 DEF LogInv
  <2> QED BY <2>1, <2>2
<1> QED
  BY <1>4, <1>5 DEF LogInv

\* A ladder-only run on its way out with success has its receipt in its leaf.
Paying == {"verify_again", "multiple", "verify_simple", "simple_python"}
Past == {"exiting", "recording", "leaving"}

ReceiptInv ==
    \A l \in Launchers : launcher[l].ladderOnly =>
        /\ launcher[l].pc \notin Paying
        /\ launcher[l].ok /\ launcher[l].pc \in Past => Holds(launcher[l].id, "receipt")

LEMMA ReceiptStep ==
    ASSUME TypeInv, LeafInv, ReceiptInv, [Next]_vars
    PROVE  ReceiptInv'
<1> SUFFICES ASSUME NEW l \in Launchers, launcher'[l].ladderOnly
             PROVE  /\ launcher'[l].pc \notin Paying
                    /\ launcher'[l].ok /\ launcher'[l].pc \in Past
                          => Holds(launcher[l].id, "receipt")'
  BY DEF ReceiptInv
<1>1. CASE launcher[l].pc = "out"
  <2>1. CASE UNCHANGED launcher
    BY <1>1, <2>1 DEF Past, Paying
  <2>2. ASSUME NEW m \in Launchers, Moves(m), m # l
        PROVE  launcher'[l] = launcher[l]
    BY <2>2, OthersStay
  <2>3. CASE Moves(l)
    <3>1. PICK id \in Ids, only \in BOOLEAN : Launch(l, id, only)
      BY <1>1, <2>3 DEF Moves, Verify, WriteReceipt, WriteFooter, WriteRecord, Leave, Kill,
                        Alive, IsAt, Unbilled, Billed, Verifying, Generating
    <3>2. launcher'[l].pc = "publish"
      BY <3>1 DEF Launch, TypeInv
    <3> QED BY <3>2 DEF Past, Paying
  <2> QED BY <1>1, <2>1, <2>2, <2>3, LauncherChanges DEF Past, Paying
<1>2. CASE launcher[l].pc # "out"
  <2>1. launcher[l].ladderOnly
    BY <1>2, StartedStays
  <2>2. launcher[l].pc \notin Paying
    BY <2>1 DEF ReceiptInv
  <2>3. launcher[l].ok /\ launcher[l].pc \in Past => Holds(launcher[l].id, "receipt")
    BY <2>1 DEF ReceiptInv
  <2>4. Holds(launcher[l].id, "receipt") => Holds(launcher[l].id, "receipt")'
    BY <1>2, StartedStays, LeafGrows DEF Holds, LeafInv
  <2>5. CASE launcher'[l] = launcher[l]
    BY <2>2, <2>3, <2>4, <2>5
  <2>6. CASE launcher[l].pc \in {"publish", "checkout", "acquire"} \cup Billed /\ Proceed(l)
    <3>1. launcher'[l].pc = Then(launcher[l].pc, TRUE)
      BY <2>1, <2>6 DEF Proceed, TypeInv, LauncherStates
    <3>2. launcher'[l].pc \notin Past \cup Paying
      BY <2>2, <2>6, <3>1 DEF Then, Billed, Generating, Past, Paying
    <3> QED BY <3>2
  <2>7. CASE Verify(l)
    <3>1. launcher'[l].pc = Then(launcher[l].pc, TRUE)
      BY <2>1, <2>7 DEF Verify, Proceed, TypeInv, LauncherStates
    <3>2. launcher'[l].pc \notin Past \cup Paying
      BY <2>2, <2>7, <3>1 DEF Verify, Then, Verifying, Past, Paying
    <3> QED BY <3>2
  <2>8. CASE WriteReceipt(l)
    <3>0. /\ launcher' = [launcher EXCEPT ![l] = [launcher[l] EXCEPT !.pc = "exiting"]]
          /\ launcher[l] \in LauncherStates /\ launcher \in [Launchers -> LauncherStates]
      <4>1. launcher[l].pc = "receipt"
        BY <2>8 DEF WriteReceipt, IsAt
      <4>2. Then(launcher[l].pc, launcher[l].ladderOnly) = "exiting"
        BY <4>1 DEF Then
      <4> QED BY <2>8, <4>2 DEF WriteReceipt, Proceed, TypeInv
    <3>1. launcher'[l].pc = "exiting" /\ launcher'[l].id = launcher[l].id
      BY <3>0 DEF LauncherStates
    <3>2. launcher[l].id \in Ids
      BY <1>2 DEF LeafInv
    <3>3. [file |-> "receipt", by |-> l] \in leaf'[launcher[l].id]
      BY <2>8, <3>2 DEF WriteReceipt, Put, TypeInv
    <3>4. Holds(launcher[l].id, "receipt")'
      BY <3>1, <3>3 DEF Holds
    <3> QED BY <3>1, <3>4 DEF Paying
  <2>9. CASE ExitNonzero(l)
    BY <2>9 DEF ExitNonzero, Paying, TypeInv, LauncherStates
  <2>10. CASE WriteFooter(l) \/ WriteRecord(l) \/ Leave(l) \/ Kill(l)
    <3>1. launcher'[l].pc \in {"recording", "leaving", "gone"}
      BY <2>10 DEF WriteFooter, WriteRecord, Leave, Kill, TypeInv, LauncherStates
    <3>2. launcher'[l].pc # "gone" => launcher[l].pc \in Past
      BY <2>10 DEF Past, WriteFooter, WriteRecord, Leave, Kill, IsAt, TypeInv,
                   LauncherStates
    <3>3. launcher'[l].ok => launcher[l].ok
      BY <1>2, StartedStays
    <3> QED BY <2>3, <2>4, <3>1, <3>2, <3>3 DEF Past, Paying
  <2>11. CASE Moves(l)
    <3>1. ~ \E id \in Ids, only \in BOOLEAN : Launch(l, id, only)
      BY <1>2 DEF Launch, IsAt
    <3> QED BY <2>6, <2>7, <2>8, <2>9, <2>10, <2>11, <3>1 DEF Moves
  <2> QED BY <2>5, <2>11, LauncherChanges, OthersStay
<1> QED
  BY <1>1, <1>2

\* Only what left the ladder with success has an ok record.
LEMMA SuccessStep ==
    ASSUME TypeInv, LeafInv, LogInv, ReceiptInv, SuccessHasReceipt, [Next]_vars
    PROVE  SuccessHasReceipt'
<1>1. log \in Seq(LogLines) /\ log' \in Seq(LogLines)
  BY LogType DEF TypeInv
<1> SUFFICES ASSUME NEW k \in DOMAIN log', log'[k].line = "record", log'[k].ok,
                    launcher'[log'[k].pid].ladderOnly
             PROVE  Holds(launcher[log[k].pid].id, "receipt")'
  BY DEF SuccessHasReceipt
<1>2. ASSUME NEW l \in Launchers, launcher[l].pc # "out", Holds(launcher[l].id, "receipt")
      PROVE  Holds(launcher[l].id, "receipt")'
  BY <1>2, StartedStays, LeafGrows DEF Holds, LeafInv
<1>3. CASE k \in DOMAIN log
  <2>1. log'[k] = log[k] /\ log[k] \in LogLines
    BY <1>1, <1>3, LogKeeps
  <2>2. log[k].pid \in Launchers
    BY <2>1 DEF LogLines
  <2>3. launcher[log[k].pid].pc # "out"
    BY <1>3, <2>1 DEF LogInv
  <2>4. launcher'[log[k].pid].ladderOnly = launcher[log[k].pid].ladderOnly
    BY <2>2, <2>3, StartedStays
  <2>5. Holds(launcher[log[k].pid].id, "receipt")
    BY <1>3, <2>1, <2>4 DEF SuccessHasReceipt
  <2> QED BY <1>2, <2>1, <2>2, <2>3, <2>5
<1>4. CASE k \notin DOMAIN log
  <2>1. k = Len(log) + 1
    BY <1>4, LogKeeps
  <2>2. PICK line \in LogLines :
           /\ log' = Append(log, line)
           /\ line.line = "record" =>
                \E l \in Launchers :
                   /\ WriteRecord(l)
                   /\ line = [line |-> "record", pid |-> l, ok |-> launcher[l].ok]
    BY <1>4, LogGrows
  <2>3. log'[k] = line
    BY <1>1, <2>1, <2>2
  <2>4. PICK l \in Launchers :
           /\ WriteRecord(l)
           /\ line = [line |-> "record", pid |-> l, ok |-> launcher[l].ok]
    BY <2>2, <2>3
  <2>5. log'[k].pid = l /\ launcher[l].ok
    BY <2>3, <2>4
  <2>6. launcher[l].pc = "recording"
    BY <2>4 DEF WriteRecord, IsAt
  <2>7. launcher[l].ladderOnly
    BY <2>5, <2>6, StartedStays
  <2>8. Holds(launcher[l].id, "receipt")
    BY <2>5, <2>6, <2>7 DEF ReceiptInv, Past
  <2> QED BY <1>2, <2>5, <2>6, <2>8
<1> QED
  BY <1>3, <1>4

Account(l, ok) == [line |-> "record", pid |-> l, ok |-> ok]
Wrote(l, ok) == \E k \in DOMAIN log : log[k] = Account(l, ok)

\* The monitor watches a launcher that has started, found what it took from the
\* log in the log, and gave its verdict on that once the launcher was gone.
MonitorInv ==
    /\ monitor.pc # "off" =>
          monitor.watch \in Launchers /\ launcher[monitor.watch].pc # "out"
    /\ monitor.pc = "off" => monitor.footer = "absent"
    /\ monitor.pc # "over" => monitor.verdict = "none"
    /\ monitor.pc = "over" => launcher[monitor.watch].pc = "gone"
    /\ monitor.footer = "complete" => Wrote(monitor.watch, TRUE)
    /\ monitor.footer = "failed" => Wrote(monitor.watch, FALSE)
    /\ monitor.verdict = "completed_ok" => monitor.footer = "complete"
    /\ monitor.verdict = "completed_failed" => monitor.footer = "failed"

\* What footer_state takes for the account of a process is one.
LEMMA FooterIsInLog ==
    ASSUME TypeInv, LogInv, NEW pid
    PROVE  /\ Footer(pid) = "complete" => Wrote(pid, TRUE)
           /\ Footer(pid) = "failed" => Wrote(pid, FALSE)
<1> SUFFICES ASSUME Footer(pid) \in {"complete", "failed"}
             PROVE  Wrote(pid, Footer(pid) = "complete")
  BY Zenon
<1> DEFINE i == CHOOSE i \in RecordLines : \A j \in RecordLines : j <= i
<1>1. RecordLines # {}
  BY DEF Footer
<1>2. i \in RecordLines
  BY <1>1 DEF LogInv
<1>3. i \in DOMAIN log /\ log[i] \in LogLines
  BY <1>2 DEF RecordLines, TypeInv
<1> HIDE DEF i
<1>4. Footer(pid) = IF log[i].line = "cut" THEN "malformed_record"
                    ELSE IF log[i].pid # pid THEN "foreign"
                    ELSE IF log[i].ok THEN "complete" ELSE "failed"
  BY <1>1 DEF Footer, LastRecord, i
<1>5. log[i].line = "record" /\ log[i].pid = pid
  BY <1>2, <1>4 DEF RecordLines
<1>6. log[i] \in [line : {"record"}, pid : Launchers, ok : BOOLEAN]
  BY <1>3, <1>5 DEF LogLines
<1>7. log[i].ok = (Footer(pid) = "complete")
  BY <1>4, <1>5, <1>6
<1>8. log[i] = Account(pid, Footer(pid) = "complete")
  BY <1>5, <1>6, <1>7 DEF Account
<1> QED
  BY <1>3, <1>8 DEF Wrote

LEMMA MonitorStep ==
    ASSUME TypeInv, LeafInv, LogInv, MonitorInv, [Next]_vars
    PROVE  MonitorInv'
<1>1. \A l, ok : Wrote(l, ok) => Wrote(l, ok)'
  BY LogKeeps DEF Wrote, Account
<1>2. monitor \in MonitorStates
  BY DEF TypeInv
<1>3. CASE UNCHANGED monitor
  <2>1. ASSUME monitor.pc # "off"
        PROVE  /\ monitor.watch \in Launchers /\ launcher'[monitor.watch].pc # "out"
               /\ monitor.pc = "over" => launcher'[monitor.watch].pc = "gone"
    BY <2>1, StartedStays, GoneStays DEF MonitorInv
  <2> QED BY <1>1, <1>3, <2>1 DEF MonitorInv
<1>4. ASSUME NEW id \in Ids, Watch(id)
      PROVE  MonitorInv'
  <2>1. PICK f \in leaf[id] : monitor' = [monitor EXCEPT !.pc = "checking", !.watch = f.by]
    BY <1>4 DEF Watch
  <2>2. f.by \in Launchers /\ launcher'[f.by].pc # "out"
    BY StartedStays DEF Files, TypeInv, LeafInv
  <2>3. /\ monitor'.pc = "checking" /\ monitor'.watch = f.by
        /\ monitor'.footer = monitor.footer /\ monitor'.verdict = monitor.verdict
    BY <1>2, <2>1 DEF MonitorStates
  <2>4. monitor.footer = "absent" /\ monitor.verdict = "none"
    BY <1>4 DEF Watch, MonitorInv
  <2> QED BY <2>2, <2>3, <2>4 DEF MonitorInv
<1>5. CASE ScanFooter
  <2>1. /\ monitor'.pc = "scanned" /\ monitor'.watch = monitor.watch
        /\ monitor'.footer = Footer(monitor.watch) /\ monitor'.verdict = monitor.verdict
    BY <1>2, <1>5 DEF ScanFooter, MonitorStates
  <2>2. monitor.pc = "checking" /\ launcher' = launcher
    BY <1>5 DEF ScanFooter
  <2>3. monitor.watch \in Launchers /\ launcher[monitor.watch].pc # "out"
        /\ monitor.verdict = "none"
    BY <2>2 DEF MonitorInv
  <2>4. /\ monitor'.footer = "complete" => Wrote(monitor.watch, TRUE)'
        /\ monitor'.footer = "failed" => Wrote(monitor.watch, FALSE)'
    BY <1>1, <2>1, FooterIsInLog
  <2> QED BY <2>1, <2>2, <2>3, <2>4 DEF MonitorInv
<1>6. CASE CheckAlive
  <2>1. monitor.pc = "scanned" /\ launcher' = launcher /\ log' = log
    BY <1>6 DEF CheckAlive
  <2>2. monitor.watch \in Launchers /\ launcher[monitor.watch].pc # "out"
        /\ monitor.verdict = "none"
    BY <2>1 DEF MonitorInv
  <2>3. CASE Alive(monitor.watch)
    <3>1. /\ monitor'.pc = "checking" /\ monitor'.watch = monitor.watch
          /\ monitor'.footer = "absent" /\ monitor'.verdict = monitor.verdict
      BY <1>2, <1>6, <2>3 DEF CheckAlive, MonitorStates
    <3> QED BY <2>1, <2>2, <3>1 DEF MonitorInv
  <2>4. CASE ~ Alive(monitor.watch)
    <3>1. /\ monitor'.pc = "over" /\ monitor'.watch = monitor.watch
          /\ monitor'.footer = monitor.footer
          /\ monitor'.verdict = CASE monitor.footer = "complete" -> "completed_ok"
                                  [] monitor.footer = "failed" -> "completed_failed"
                                  [] OTHER -> "died_hard"
      BY <1>2, <1>6, <2>4 DEF CheckAlive, MonitorStates
    <3>2. launcher'[monitor.watch].pc = "gone"
      BY <2>1, <2>2, <2>4 DEF Alive
    <3>3. /\ monitor'.verdict = "completed_ok" => monitor.footer = "complete"
          /\ monitor'.verdict = "completed_failed" => monitor.footer = "failed"
      BY <3>1
    <3> QED BY <1>1, <2>2, <3>1, <3>2, <3>3 DEF MonitorInv
  <2> QED BY <2>3, <2>4
<1> QED
  BY <1>3, <1>4, <1>5, <1>6, MonitorChanges

LEMMA EndsFollow ==
    ASSUME TypeInv, LogInv, MonitorInv
    PROVE  OrderlyEndsAreReal
<1>1. ASSUME NEW ok \in BOOLEAN, monitor.watch \in Launchers, Wrote(monitor.watch, ok)
      PROVE  launcher[monitor.watch].ok = ok
  BY <1>1 DEF Wrote, Account, LogInv
<1>2. CASE monitor.verdict = "completed_ok"
  <2>1. monitor.pc = "over" /\ monitor.footer = "complete"
    BY <1>2 DEF MonitorInv
  <2>2. /\ monitor.watch \in Launchers /\ launcher[monitor.watch].pc = "gone"
        /\ Wrote(monitor.watch, TRUE)
    BY <2>1 DEF MonitorInv
  <2>3. launcher[monitor.watch].ok
    BY <1>1, <2>2
  <2> QED BY <1>2, <2>2, <2>3 DEF OrderlyEndsAreReal, Alive, Wrote, Account
<1>3. CASE monitor.verdict = "completed_failed"
  <2>1. monitor.pc = "over" /\ monitor.footer = "failed"
    BY <1>3 DEF MonitorInv
  <2>2. launcher[monitor.watch].pc = "gone" /\ Wrote(monitor.watch, FALSE)
    BY <2>1 DEF MonitorInv
  <2> QED BY <1>3, <2>2 DEF OrderlyEndsAreReal, Alive, Wrote, Account
<1> QED
  BY <1>2, <1>3 DEF OrderlyEndsAreReal

-----------------------------------------------------------------------------
(* The fixtures of a paid generation. *)

\* A launcher at a generation it has not started has seen its fixtures good, or
\* they were corrupted since its last billed command ended.
HitInv ==
    \A l \in Launchers :
        fixtures = "bad" /\ launcher[l].pc \in Generating /\ job[l].state = "none"
            => l \in hit

\* Verification is the only way to a generation.
LEMMA IntoGeneration ==
    ASSUME TypeInv, [Next]_vars, NEW l \in Launchers,
           launcher[l].pc \notin Generating, launcher'[l].pc \in Generating
    PROVE  Verify(l)
<1>1. \E m \in Launchers : Moves(m)
  BY LauncherChanges
<1>2. Moves(l)
  BY <1>1, OthersStay
<1>3. launcher[l].pc \in {"publish", "checkout", "acquire"} \cup Billed =>
        Then(launcher[l].pc, launcher[l].ladderOnly) \notin Generating
  BY DEF Then, Billed, Generating
<1>4. ~ (launcher[l].pc \in {"publish", "checkout", "acquire"} \cup Billed /\ Proceed(l))
  BY <1>3 DEF Proceed, TypeInv, LauncherStates
<1>5. ~ \E id \in Ids, only \in BOOLEAN : Launch(l, id, only)
  BY DEF Launch, TypeInv, Generating
<1>6. ~ WriteReceipt(l)
  BY DEF WriteReceipt, IsAt, Proceed, Then, Generating, TypeInv, LauncherStates
<1>7. ~ ExitNonzero(l)
  BY DEF ExitNonzero, Generating, TypeInv, LauncherStates
<1>8. ~ (WriteFooter(l) \/ WriteRecord(l) \/ Leave(l) \/ Kill(l))
  BY DEF WriteFooter, WriteRecord, Leave, Kill, Generating, TypeInv, LauncherStates
<1> QED
  BY <1>2, <1>4, <1>5, <1>6, <1>7, <1>8 DEF Moves

LEMMA HitStep ==
    ASSUME TypeInv, HitInv, [Next]_vars
    PROVE  HitInv'
<1> SUFFICES ASSUME NEW l \in Launchers, fixtures' = "bad", launcher'[l].pc \in Generating,
                    job'[l].state = "none"
             PROVE  l \in hit'
  BY DEF HitInv
<1>1. CASE launcher[l].pc \notin Generating
  <2>1. Verify(l)
    BY <1>1, IntoGeneration
  <2> QED BY <2>1 DEF Verify
<1>2. CASE launcher[l].pc \in Generating
  <2>1. ASSUME NEW m \in Launchers, Collect(m)
        PROVE  m # l
    <3> SUFFICES ASSUME m = l PROVE FALSE
      OBVIOUS
    <3>1. CASE Proceed(l)
      BY <1>2, <3>1 DEF Proceed, Then, Generating, TypeInv, LauncherStates
    <3>2. CASE ExitNonzero(l)
      BY <3>2 DEF ExitNonzero, Generating, TypeInv, LauncherStates
    <3> QED BY <2>1, <3>1, <3>2 DEF Collect
  <2>2. job[l].state = "none"
    <3>1. ASSUME NEW m \in Launchers, StartBilled(m)
          PROVE  job'[l].state # "none" \/ job'[l] = job[l]
      BY <3>1 DEF StartBilled, TypeInv
    <3>2. ASSUME NEW m \in Launchers, NEW how \in {"ok", "failed"}, BilledEnds(m, how)
          PROVE  job'[l].state # "none" \/ job'[l] = job[l]
      BY <3>2 DEF BilledEnds, TypeInv
    <3>3. ASSUME NEW m \in Launchers, Collect(m)
          PROVE  job'[l] = job[l]
      BY <2>1, <3>3 DEF Collect, TypeInv
    <3> QED BY <3>1, <3>2, <3>3, JobChanges
  <2>3. CASE UNCHANGED <<fixtures, hit>>
    BY <1>2, <2>2, <2>3 DEF HitInv
  <2>4. CASE Corrupt
    BY <2>4 DEF Corrupt
  <2>5. ASSUME NEW m \in Launchers, Acquire(m)
        PROVE  FALSE
    BY <2>5 DEF Acquire
  <2>6. ASSUME NEW m \in Launchers, Collect(m)
        PROVE  l \in hit'
    BY <1>2, <2>1, <2>2, <2>6 DEF Collect, HitInv
  <2> QED BY <2>3, <2>4, <2>5, <2>6, FixturesChange
<1> QED
  BY <1>1, <1>2

LEMMA StartsOnVerified ==
    ASSUME TypeInv, HitInv, [Next]_vars
    PROVE  [\A l \in Launchers :
              job[l].state = "none" /\ job'[l].state = "running"
              /\ launcher[l].pc \in Generating /\ fixtures = "bad"
                 => l \in hit]_vars
BY DEF HitInv

-----------------------------------------------------------------------------
(* The theorems. *)

Inv == TypeInv /\ JobInv /\ LeafInv /\ LogInv /\ ReceiptInv /\ SuccessHasReceipt
       /\ MonitorInv /\ HitInv

LEMMA InvInit == ProbeAssumption /\ Init => Inv
<1> SUFFICES ASSUME ProbeAssumption, Init PROVE Inv
  OBVIOUS
<1>1. /\ \A l \in Launchers : /\ launcher[l].pc = "out" /\ ~ launcher[l].ladderOnly
                              /\ job[l].state = "none"
      /\ \A id \in Ids : leaf[id] = {}
      /\ log = <<>> /\ monitor.pc = "off" /\ monitor.footer = "absent"
      /\ monitor.verdict = "none"
  BY DEF Init, NoJob
<1>2. JobInv /\ LeafInv
  BY <1>1 DEF JobInv, LeafInv, OneWriterPerLeaf
<1>3. LogInv /\ SuccessHasReceipt
  <2>1. DOMAIN log = {}
    BY <1>1
  <2> QED BY <2>1 DEF LogInv, RecordLines, SuccessHasReceipt
<1>4. ReceiptInv /\ MonitorInv
  BY <1>1 DEF ReceiptInv, MonitorInv
<1>5. HitInv
  BY <1>1 DEF HitInv, Generating
<1> QED
  BY <1>2, <1>3, <1>4, <1>5, TypeInit DEF Inv

LEMMA InvStep == ProbeAssumption /\ Inv /\ [Next]_vars => Inv'
<1> SUFFICES ASSUME ProbeAssumption, Inv, [Next]_vars PROVE Inv'
  OBVIOUS
<1>1. TypeInv' /\ JobInv' /\ LeafInv'
  BY TypeStep, JobStep, LeafStep DEF Inv
<1>2. LogInv' /\ ReceiptInv' /\ SuccessHasReceipt'
  BY LogStep, ReceiptStep, SuccessStep DEF Inv
<1>3. MonitorInv' /\ HitInv'
  BY MonitorStep, HitStep DEF Inv
<1> QED
  BY <1>1, <1>2, <1>3 DEF Inv

LEMMA ProbeInvariant == Spec => []Inv
BY ProbeAssumption, InvInit, InvStep, PTL DEF Spec

\* No billed command runs past the shared deadline and the grace of `timeout`
\* (run_bounded), however many launchers are killed and however late they start.
THEOREM BilledStops == Spec => []BilledStopsInTime
<1>1. Inv => BilledStopsInTime
  BY DEF Inv, JobInv, BilledStopsInTime
<1> QED
  BY <1>1, ProbeInvariant, PTL

\* One invocation writes into one directory: the plain mkdir of the leaf is
\* enough, whatever ids the operators choose.
THEOREM LeavesAreApart == Spec => []OneWriterPerLeaf
<1>1. Inv => OneWriterPerLeaf
  BY DEF Inv, LeafInv
<1> QED
  BY <1>1, ProbeInvariant, PTL

\* The monitor reports an orderly end (check_once) only of a process that is gone
\* and wrote that account of itself.
THEOREM EndsAreReal == Spec => []OrderlyEndsAreReal
<1>1. Inv => OrderlyEndsAreReal
  BY EndsFollow DEF Inv
<1> QED
  BY <1>1, ProbeInvariant, PTL

\* A ladder-only run that reports success (--stop-after-ladder) has left its
\* receipt, and nobody takes it away.
THEOREM ReceiptBeforeSuccess == Spec => []SuccessHasReceipt
<1>1. Inv => SuccessHasReceipt
  BY DEF Inv
<1> QED
  BY <1>1, ProbeInvariant, PTL

\* A generation is paid for on fixtures verified since the launcher's last billed
\* command: corruption during the ladder or the first generation is caught.
THEOREM PaidOnVerified == Spec => PaidOnVerifiedFixtures
<1>1. Inv /\ [Next]_vars =>
        [\A l \in Launchers :
              job[l].state = "none" /\ job'[l].state = "running"
              /\ launcher[l].pc \in Generating /\ fixtures = "bad"
                 => l \in hit]_vars
  BY StartsOnVerified DEF Inv
<1> QED
  BY <1>1, ProbeInvariant, PTL DEF Spec, PaidOnVerifiedFixtures

=============================================================================
