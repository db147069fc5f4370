---------------------------- MODULE LedgerProofs ----------------------------
(***************************************************************************)
(* Theorems about Ledger, for every set of prompts and every bound.        *)
(***************************************************************************)
EXTENDS Ledger, LedgerDiskProofs

-----------------------------------------------------------------------------
(* Part 1: whatever a crash tears, the segments stay sealed and ordered.    *)

\* What holds of every reachable state, whatever a crash tears.
WholeInv ==
    /\ Whole(MaxSeq, chain)
    /\ pending \subseteq Drafts
    /\ returned \subseteq Prompts

\* The empty ledger is whole.
LEMMA InitWhole == Init => WholeInv
<1> SUFFICES ASSUME Init PROVE WholeInv
  OBVIOUS
<1>1. Sound(MaxSeq, chain)
  BY EmptyIsSound, LedgerAssumption DEF Init
<1> QED BY <1>1 DEF Init, WholeInv, Sound

\* Every step keeps the ledger whole: one case per action.
LEMMA NextWhole == WholeInv /\ [Next]_vars => WholeInv'
<1> SUFFICES ASSUME WholeInv, [Next]_vars PROVE WholeInv'
  OBVIOUS
<1> USE DEF WholeInv
<1>0. /\ DiskOK(chain) /\ Len(chain) >= 1
      /\ NextSeq(chain) \in Nat
  BY NextSeqIsFresh, LedgerAssumption DEF Whole, DiskOK
<1>1. ASSUME NEW p \in Prompts, StartAppend(p) PROVE WholeInv'
  <2>1. pending' \subseteq Drafts
    BY <1>1 DEF StartAppend, WorkDraft, Drafts
  <2> QED BY <1>1, <2>1 DEF StartAppend
<1>2. ASSUME NEW n \in 1 .. MaxRedo, StartRedo(n) PROVE WholeInv'
  <2>1. \A r \in LastActive(chain, n) : r.prompt \in Prompts /\ r.seq \in Nat
    BY <1>0, ActiveIsWork DEF LastActive
  <2>2. pending' \subseteq Drafts
    BY <1>2, <2>1 DEF StartRedo, RedoDraft, Drafts
  <2>3. returned' \subseteq returned /\ chain' = chain
    BY <1>2 DEF StartRedo
  <2> QED BY <2>2, <2>3
<1>3. ASSUME SealAndRotate PROVE WholeInv'
  <2> DEFINE l == Line(Header(Len(chain), ActiveSegment(chain), NextSeq(chain)), TRUE)
             S == LinesOn(chain) \cup {l}
  <2>1. chain' = Append(chain, <<l>>)
    BY <1>3 DEF SealAndRotate
  <2>2. chain \in Seq(Seq(LinesOn(chain))) /\ Len(chain) \in Nat
    BY <1>0, LenProperties DEF DiskOK
  <2>3. chain \in Seq(Seq(S))
    <3>1. Seq(LinesOn(chain)) \subseteq Seq(S)
      BY SeqMonotonic
    <3> HIDE DEF S
    <3>2. Seq(Seq(LinesOn(chain))) \subseteq Seq(Seq(S))
      BY <3>1, SeqMonotonic
    <3> QED BY <2>2, <3>2
  <2>4. /\ LineOK(l) /\ l.eol /\ l.rec.type = "segment_open"
        /\ l.rec.segment = Len(chain) /\ l.rec.prev = chain[Len(chain)]
        /\ l.rec.seq = NextSeq(chain)
    BY <1>0, <2>2 DEF LineOK, Line, Header, RecordOK, ActiveSegment
  <2>5. l \in S /\ NextSeq(chain) <= MaxSeq
    BY <1>3 DEF SealAndRotate
  <2> HIDE DEF l
  <2>6. Published(S, chain, chain', l)
    <3> HIDE DEF S
    <3> QED BY <1>0, <2>1, <2>3, <2>4, <2>5, SegmentPublished
  <2>7. Whole(MaxSeq, chain')
    BY <2>4, <2>5, <2>6, WholeAfterPublication, LedgerAssumption
  <2> QED BY <1>3, <2>7 DEF SealAndRotate
<1>4. ASSUME NEW d \in pending, WriteLine(d) PROVE WholeInv'
  <2> DEFINE l == Line(Stamped(d, NextSeq(chain)), TRUE)
  <2>1. /\ LineOK(l) /\ l.rec.type # "segment_open"
        /\ l.rec.seq = NextSeq(chain) /\ d.prompt \in Prompts
    <3>1. /\ RecordOK(Stamped(d, NextSeq(chain)))
          /\ Stamped(d, NextSeq(chain)).type # "segment_open"
          /\ Stamped(d, NextSeq(chain)).seq = NextSeq(chain)
          /\ d.prompt \in Prompts
      BY <1>0, StampedIsARecord
    <3> QED BY <3>1, LineOfRecord
  <2>2. /\ NextSeq(chain) <= MaxSeq /\ ~ TornTail(chain[Len(chain)])
        /\ chain' = [chain EXCEPT ![Len(chain)] = Written(@, l)]
    BY <1>4 DEF WriteLine, ReadyToWrite, WriteTo, ActiveSegment
  <2> HIDE DEF l
  <2>3. Whole(MaxSeq, chain')
    BY <2>1, <2>2, WholeAfterWrite, LedgerAssumption
  <2> QED BY <1>4, <2>1, <2>3 DEF WriteLine
<1>5. ASSUME NEW d \in pending, NEW tear \in Tears, CrashInWrite(d, tear)
      PROVE  WholeInv'
  <2> DEFINE l == Remains(Stamped(d, NextSeq(chain)), tear)
  <2>1. /\ LineOK(l) /\ l.rec.type # "segment_open"
        /\ l.rec.type # "garbage" => l.rec.seq = NextSeq(chain)
    <3>1. CASE tear = "fragment"
      BY <3>1 DEF Remains, LineOK, Line, Garbage, RecordOK
    <3>2. CASE tear # "fragment"
      <4>1. l = Line(Stamped(d, NextSeq(chain)), FALSE)
        BY <3>2 DEF Remains
      <4>2. /\ RecordOK(Stamped(d, NextSeq(chain)))
            /\ Stamped(d, NextSeq(chain)).type # "segment_open"
            /\ Stamped(d, NextSeq(chain)).seq = NextSeq(chain)
        BY <1>0, StampedIsARecord
      <4>3. LineOK(l) /\ l.rec = Stamped(d, NextSeq(chain))
        BY <4>1, <4>2, LineOfRecord
      <4> QED BY <4>2, <4>3
    <3> QED BY <3>1, <3>2
  <2>2. /\ NextSeq(chain) <= MaxSeq /\ ~ TornTail(chain[Len(chain)])
        /\ chain' = [chain EXCEPT ![Len(chain)] = Written(@, l)]
    BY <1>5 DEF CrashInWrite, ReadyToWrite, WriteTo, ActiveSegment
  <2> HIDE DEF l
  <2>3. Whole(MaxSeq, chain')
    BY <2>1, <2>2, WholeAfterWrite, LedgerAssumption
  <2> QED BY <1>5, <2>3 DEF CrashInWrite
<1>6. CASE Abandon
  BY <1>6 DEF Abandon
<1>7. CASE UNCHANGED vars
  BY <1>7 DEF vars
<1> QED BY <1>1, <1>2, <1>3, <1>4, <1>5, <1>6, <1>7 DEF Next

\* The ledger is always whole.
LEMMA AlwaysWhole == Spec => []WholeInv
BY InitWhole, NextWhole, PTL DEF Spec

\* The disk and the call in progress keep their shape.
THEOREM TypeCorrect == Spec => []TypeOK
<1>1. WholeInv => TypeOK
  BY DEF WholeInv, Whole, TypeOK
<1> QED BY AlwaysWhole, <1>1, PTL

\* No crash, torn newlines included, makes a read find a broken seal, an
\* unreadable line inside a segment, or seqs out of order.
THEOREM SegmentsStaySealed == Spec => []SealsAndSeqsHold
<1>1. WholeInv => SealsAndSeqsHold
  BY DEF WholeInv, Whole, SealsAndSeqsHold
<1> QED BY AlwaysWhole, <1>1, PTL

-----------------------------------------------------------------------------
(* Part 2: crashes that keep no whole record without its newline.           *)

\* A rollback in progress only holds tombstones for records in effect, of
\* prompts nobody counts on any more; an append in progress is alone.
PendingOK ==
    \A d \in pending :
        /\ d.type = "work" => pending = {d} /\ d.prompt \notin ProcessedIds(chain)
        /\ d.type = "redo" =>
             /\ d.prompt \notin returned
             /\ \E p \in ActivePos(chain) : /\ At(chain, p).prompt = d.prompt
                                           /\ At(chain, p).seq = d.supersedes

SoundInv ==
    /\ WholeInv
    /\ AllEnded(chain)
    /\ ControlsOK(chain)
    /\ PendingOK
    /\ OneActivePerPrompt
    /\ DurableOnceReturned

\* The empty ledger is sound.
LEMMA InitSound == Init => SoundInv
<1> SUFFICES ASSUME Init PROVE SoundInv
  OBVIOUS
<1>1. WholeInv
  BY InitWhole
<1>2. chain = << <<>> >> /\ pending = {} /\ returned = {}
  BY DEF Init
<1>3. Sound(MaxSeq, chain) /\ ActivePos(chain) = {}
  BY <1>2, EmptyIsSound, LedgerAssumption
<1> QED BY <1>1, <1>2, <1>3
        DEF SoundInv, Sound, PendingOK, OneActivePerPrompt, DurableOnceReturned

\* The parts of SoundInv that see the chain only through what is in effect.
LEMMA SoundIfSameInEffect ==
    ASSUME SoundInv, WholeInv', AllEnded(chain'),
           ActivePos(chain') = ActivePos(chain),
           \A p \in ActivePos(chain) : At(chain', p) = At(chain, p),
           ControlsOK(chain) => ControlsOK(chain'),
           pending' \subseteq pending, returned' = returned,
           pending' = {} \/ pending' = pending
    PROVE  SoundInv'
<1>1. \A p : p \in ProcessedIds(chain') <=> p \in ProcessedIds(chain)
  BY ProcessedAt
<1>2. ControlsOK(chain') /\ PendingOK' /\ OneActivePerPrompt' /\ DurableOnceReturned'
  BY <1>1 DEF SoundInv, PendingOK, OneActivePerPrompt, DurableOnceReturned
<1> QED BY <1>2 DEF SoundInv

\* Every step keeps the ledger sound when tears are fragments.
LEMMA NextSound ==
    ASSUME Tears \subseteq {"fragment"}
    PROVE  SoundInv /\ [Next]_vars => SoundInv'
<1> SUFFICES ASSUME SoundInv, [Next]_vars PROVE SoundInv'
  OBVIOUS
<1>0. /\ WholeInv' /\ Sound(MaxSeq, chain) /\ MaxSeq \in Nat
      /\ DiskOK(chain) /\ NextSeq(chain) \in Nat
      /\ pending \subseteq Drafts
  <2>1. Sound(MaxSeq, chain) /\ MaxSeq \in Nat
    BY LedgerAssumption DEF SoundInv, WholeInv, Sound
  <2> QED BY <2>1, NextWhole, SoundReads DEF SoundInv, WholeInv
<1>1. ASSUME NEW p \in Prompts, StartAppend(p) PROVE SoundInv'
  <2>1. chain' = chain /\ returned' = returned /\ pending' = {WorkDraft(p)}
    BY <1>1 DEF StartAppend
  <2>2. WorkDraft(p).type = "work" /\ WorkDraft(p).prompt = p
    BY DEF WorkDraft
  <2>3. PendingOK'
    BY <1>1, <2>1, <2>2 DEF PendingOK, StartAppend
  <2> QED BY <1>0, <2>1, <2>3 DEF SoundInv, OneActivePerPrompt, DurableOnceReturned
<1>2. ASSUME NEW n \in 1 .. MaxRedo, StartRedo(n) PROVE SoundInv'
  <2> DEFINE chosen == LastActive(chain, n)
  <2>1. /\ chain' = chain
        /\ pending' = {RedoDraft(r) : r \in chosen}
        /\ returned' = returned \ {r.prompt : r \in chosen}
    BY <1>2 DEF StartRedo
  <2>2. chosen \subseteq Active(chain)
    BY DEF LastActive
  <2> HIDE DEF chosen
  <2>3. ASSUME NEW d \in pending'
        PROVE  /\ d.type = "redo" /\ d.prompt \notin returned'
               /\ \E p \in ActivePos(chain) : /\ At(chain, p).prompt = d.prompt
                                             /\ At(chain, p).seq = d.supersedes
    <3>1. PICK r \in chosen : d = RedoDraft(r)
      BY <2>1, <2>3
    <3>2. d.type = "redo" /\ d.prompt = r.prompt /\ d.supersedes = r.seq
      BY <3>1 DEF RedoDraft
    <3> QED BY <2>1, <2>2, <3>2 DEF Active
  <2>4. PendingOK'
    BY <2>1, <2>3 DEF PendingOK
  <2>5. DurableOnceReturned'
    BY <2>1 DEF SoundInv, DurableOnceReturned
  <2> QED BY <1>0, <2>1, <2>4, <2>5 DEF SoundInv, OneActivePerPrompt
<1>3. ASSUME SealAndRotate PROVE SoundInv'
  <2>1. /\ Rotated(chain, chain') /\ NextSeq(chain) <= MaxSeq
        /\ pending' = pending /\ returned' = returned
    BY <1>3 DEF SealAndRotate, Rotated
  <2>2. /\ Sound(MaxSeq, chain')
        /\ ActivePos(chain') = ActivePos(chain)
        /\ \A p \in ActivePos(chain) : At(chain', p) = At(chain, p)
    BY <1>0, <2>1, SoundRotation
  <2> QED BY <1>0, <2>1, <2>2, SoundIfSameInEffect DEF Sound
<1>4. ASSUME NEW d \in pending, WriteLine(d) PROVE SoundInv'
  <2> DEFINE r == Stamped(d, NextSeq(chain))
  <2>1. /\ ~ TornTail(ActiveSegment(chain)) /\ NextSeq(chain) <= MaxSeq
        /\ Wrote(chain, chain', r)
        /\ pending' = pending \ {d}
        /\ returned' = IF d.type = "work" THEN returned \cup {d.prompt} ELSE returned
    BY <1>4 DEF WriteLine, ReadyToWrite, WriteTo, Wrote
  <2>2. d.type \in {"work", "redo"} /\ r.prompt = d.prompt /\ d \in Drafts
    BY <1>0, StampedIsARecord
  <2>6. CASE d.type = "work"
    <3>1. PICK z : /\ ActivePos(chain') = ActivePos(chain) \cup {z}
                   /\ At(chain', z) = r
                   /\ \A p \in ActivePos(chain) : At(chain', p) = At(chain, p)
      BY <1>0, <2>1, <2>2, <2>6, SoundWork
    <3>0. Sound(MaxSeq, chain')
      BY <1>0, <2>1, <2>2, <2>6, SoundWork
    <3>2. pending = {d} /\ d.prompt \notin ProcessedIds(chain)
      BY <2>6 DEF SoundInv, PendingOK
    <3>3. \A x \in ActivePos(chain) : At(chain, x).prompt # d.prompt
      BY <3>2, ProcessedAt
    <3>4. OneActivePerPrompt'
      BY <2>2, <3>1, <3>3 DEF SoundInv, OneActivePerPrompt
    <3>5. DurableOnceReturned'
      <4>1. \A p \in ProcessedIds(chain) \cup {d.prompt} : p \in ProcessedIds(chain')
        BY <2>2, <3>1, ProcessedAt
      <4> QED BY <2>1, <4>1 DEF SoundInv, DurableOnceReturned
    <3>6. PendingOK'
      BY <2>1, <3>2 DEF PendingOK
    <3> QED BY <1>0, <3>0, <3>4, <3>5, <3>6 DEF SoundInv, Sound
  <2>7. CASE d.type = "redo"
    <3>1. PICK t \in ActivePos(chain) : /\ At(chain, t).prompt = d.prompt
                                       /\ At(chain, t).seq = d.supersedes
      BY <2>7 DEF SoundInv, PendingOK
    <3>2. d.prompt \notin returned
      BY <2>7 DEF SoundInv, PendingOK
    <3>3. /\ ActivePos(chain') = ActivePos(chain) \ {t}
          /\ \A p \in ActivePos(chain) : At(chain', p) = At(chain, p)
          /\ Sound(MaxSeq, chain')
      BY <1>0, <2>1, <2>2, <2>7, <3>1, SoundRedo
    <3>4. OneActivePerPrompt'
      BY <3>3 DEF SoundInv, OneActivePerPrompt
    <3>5. returned' = returned
      BY <2>1, <2>7
    <3>6. DurableOnceReturned'
      <4> SUFFICES ASSUME NEW p \in returned PROVE p \in ProcessedIds(chain')
        BY <3>5 DEF DurableOnceReturned
      <4>1. PICK x \in ActivePos(chain) : At(chain, x).prompt = p
        BY ProcessedAt DEF SoundInv, DurableOnceReturned
      <4>2. x # t
        BY <3>1, <3>2, <4>1
      <4> QED BY <3>3, <4>1, <4>2, ProcessedAt
    <3>7. PendingOK'
      <4> SUFFICES ASSUME NEW e \in pending, e # d
                   PROVE  /\ e.type = "redo" /\ e.prompt \notin returned
                          /\ \E p \in ActivePos(chain') :
                               /\ At(chain', p).prompt = e.prompt
                               /\ At(chain', p).seq = e.supersedes
        BY <2>1, <3>5 DEF PendingOK
      <4>1. e.type = "redo"
        <5>1. e.type # "work"
          BY DEF SoundInv, PendingOK
        <5> QED BY <1>0, <5>1, StampedIsARecord
      <4>2. PICK x \in ActivePos(chain) : /\ At(chain, x).prompt = e.prompt
                                         /\ At(chain, x).seq = e.supersedes
        BY <4>1 DEF SoundInv, PendingOK
      <4>3. x # t
        <5> SUFFICES ASSUME x = t PROVE e = d
          OBVIOUS
        <5>1. e.prompt = d.prompt /\ e.supersedes = d.supersedes
          BY <3>1, <4>2
        <5> QED BY <1>0, <2>7, <4>1, <5>1 DEF Drafts
      <4>4. e.prompt \notin returned
        BY <4>1 DEF SoundInv, PendingOK
      <4> QED BY <3>3, <4>1, <4>2, <4>3, <4>4
    <3> QED BY <1>0, <3>3, <3>4, <3>6, <3>7 DEF SoundInv, Sound
  <2> QED BY <2>2, <2>6, <2>7
<1>5. ASSUME NEW d \in pending, NEW tear \in Tears, CrashInWrite(d, tear)
      PROVE  SoundInv'
  <2>1. tear = "fragment" /\ NextSeq(chain) <= MaxSeq
    BY <1>5 DEF CrashInWrite, ReadyToWrite
  <2>2. /\ ~ TornTail(ActiveSegment(chain))
        /\ chain' = [chain EXCEPT ![Len(chain)] = Written(@, Line(Garbage, FALSE))]
        /\ pending' = {} /\ returned' = returned
    BY <1>5, <2>1 DEF CrashInWrite, ReadyToWrite, WriteTo, Remains
  <2>3. Sound(MaxSeq, chain') /\ SameRecords(chain, chain')
    BY <1>0, <2>1, <2>2, SoundFragment
  <2> QED BY <1>0, <2>2, <2>3, SameInEffect, SoundIfSameInEffect DEF Sound
<1>6. ASSUME pending' = {} \/ pending' = pending, UNCHANGED <<chain, returned>>
      PROVE  SoundInv'
  BY <1>0, <1>6 DEF SoundInv, PendingOK, OneActivePerPrompt, DurableOnceReturned
<1>7. CASE Abandon
  BY <1>6, <1>7 DEF Abandon
<1>8. CASE UNCHANGED vars
  BY <1>6, <1>8 DEF vars
<1> QED BY <1>1, <1>2, <1>3, <1>4, <1>5, <1>7, <1>8 DEF Next

\* The ledger is always sound when tears are fragments.
LEMMA AlwaysSound ==
    ASSUME Tears \subseteq {"fragment"}
    PROVE  Spec => []SoundInv
BY InitSound, NextSound, PTL DEF Spec

\* Reading back never raises: every tombstone names an earlier work record
\* that no other tombstone names, on top of SegmentsStaySealed.
THEOREM ChainAlwaysVerifies ==
    ASSUME Tears \subseteq {"fragment"}
    PROVE  Spec => []ChainVerifies
<1>1. SoundInv => ChainVerifies
  BY DEF SoundInv, WholeInv, Whole, ChainVerifies, Verified
<1> QED BY AlwaysSound, <1>1, PTL

\* A prompt never has two records in effect.
THEOREM PromptCountedOnce ==
    ASSUME Tears \subseteq {"fragment"}
    PROVE  Spec => []OneActivePerPrompt
<1>1. SoundInv => OneActivePerPrompt
  BY DEF SoundInv
<1> QED BY AlwaysSound, <1>1, PTL

\* Work whose append() returned stays in effect until it is rolled back.
THEOREM ReturnedWorkIsDurable ==
    ASSUME Tears \subseteq {"fragment"}
    PROVE  Spec => []DurableOnceReturned
<1>1. SoundInv => DurableOnceReturned
  BY DEF SoundInv
<1> QED BY AlwaysSound, <1>1, PTL

-----------------------------------------------------------------------------
(* Part 3: the ledger implements WorkLog.                                   *)

\* What the call in progress has still to retire.
Asked == {[prompt |-> d.prompt, seq |-> d.supersedes] :
             d \in {e \in pending : e.type = "redo"}}

\* The refinement mapping, in the terms of LedgerDiskProofs.
Recorded(p) ==
    /\ Asked = {} /\ Asked' = {}
    /\ \A e \in EntriesOf(chain) : e.prompt # p
    /\ \E k \in 1 .. MaxSeq :
         /\ \A e \in EntriesOf(chain) : e.seq < k
         /\ EntriesOf(chain)' = EntriesOf(chain) \cup {[prompt |-> p, seq |-> k]}

RolledBack ==
    /\ Asked = {} /\ EntriesOf(chain)' = EntriesOf(chain)
    /\ \E n \in 1 .. Cardinality(EntriesOf(chain)) :
         Asked' = LatestOf(EntriesOf(chain), n)

Retired(e) ==
    /\ e \in Asked /\ \A d \in Asked : e.seq <= d.seq
    /\ EntriesOf(chain)' = EntriesOf(chain) \ {e}
    /\ Asked' = Asked \ {e}

Interrupted == EntriesOf(chain)' = EntriesOf(chain) /\ Asked' = {}

Stutters == EntriesOf(chain)' = EntriesOf(chain) /\ Asked' = Asked

\* These five are WorkLog's actions and its stuttering step.
LEMMA MapsToWorkLog ==
    ASSUME \/ \E p \in Prompts : Recorded(p)
           \/ RolledBack
           \/ \E e \in Asked : Retired(e)
           \/ Interrupted
           \/ Stutters
    PROVE  [Log!Next]_(Log!vars)
<1> DEFINE active == {Entry(r) : r \in Active(chain)}
           asked == {[prompt |-> d.prompt, seq |-> d.supersedes] :
                        d \in {e \in pending : e.type = "redo"}}
<1>1. EntriesOf(chain) = active /\ Asked = asked
  BY DEF EntriesOf, EntryOf, Entry, Asked
<1>2. EntriesOf(chain)' = active' /\ Asked' = asked'
  BY DEF EntriesOf, EntryOf, Entry, Asked
<1>3. ASSUME NEW p \in Prompts, Recorded(p) PROVE Log!Record(p)
  BY <1>1, <1>2, <1>3 DEF Recorded, Log!Record
<1>4. CASE RolledBack
  <2>0. \A S : Log!Cardinality(S) = Cardinality(S)
    BY DEF Log!Cardinality, Cardinality
  <2>1. \A S, n : Log!Newest(S, n) = LatestOf(S, n)
    BY <2>0 DEF Log!Newest, LatestOf
  <2>2. PICK n \in 1 .. Cardinality(active) : asked' = Log!Newest(active, n)
    BY <1>1, <1>2, <1>4, <2>1 DEF RolledBack
  <2>3. n \in 1 .. Log!Cardinality(active)
    BY <2>0
  <2>4. asked = {} /\ active' = active
    BY <1>1, <1>2, <1>4 DEF RolledBack
  <2>5. Log!Rollback
    BY <2>2, <2>3, <2>4 DEF Log!Rollback
  <2> QED BY <2>5 DEF Log!Next
<1>5. ASSUME NEW e \in Asked, Retired(e) PROVE e \in asked /\ Log!Retire(e)
  BY <1>1, <1>2, <1>5 DEF Retired, Log!Retire
<1>6. CASE Interrupted
  BY <1>1, <1>2, <1>6 DEF Interrupted, Log!Next, Log!Interrupt, Log!vars
<1>7. CASE Stutters
  BY <1>1, <1>2, <1>7 DEF Stutters, Log!vars
<1> QED BY <1>3, <1>4, <1>5, <1>6, <1>7 DEF Log!Next

LEMMA StepImplements ==
    ASSUME Tears \subseteq {"fragment"}
    PROVE  SoundInv /\ SoundInv' /\ [Next]_vars => [Log!Next]_(Log!vars)
<1> SUFFICES ASSUME SoundInv, SoundInv', [Next]_vars
             PROVE  \/ \E p \in Prompts : Recorded(p)
                    \/ RolledBack
                    \/ \E e \in Asked : Retired(e)
                    \/ Interrupted
                    \/ Stutters
  BY MapsToWorkLog
<1>0. /\ Sound(MaxSeq, chain) /\ MaxSeq \in Nat /\ pending \subseteq Drafts
      /\ DiskOK(chain) /\ SeqsOK(chain)
      /\ NextSeq(chain) \in Nat /\ NextSeq(chain) > 0
      /\ \A p \in Parsed(chain) : At(chain, p).seq < NextSeq(chain)
  <2>1. Sound(MaxSeq, chain) /\ MaxSeq \in Nat
    BY LedgerAssumption DEF SoundInv, WholeInv, Sound
  <2> QED BY <2>1, SoundReads DEF SoundInv, WholeInv
<1>1. ASSUME NEW p \in Prompts, StartAppend(p) PROVE Stutters
  <2>1. pending = {} /\ pending' = {WorkDraft(p)} /\ chain' = chain
    BY <1>1 DEF StartAppend
  <2>2. Asked = {} /\ Asked' = {}
    BY <2>1 DEF Asked, WorkDraft
  <2> QED BY <2>1, <2>2 DEF Stutters
<1>2. ASSUME NEW n \in 1 .. MaxRedo, StartRedo(n) PROVE RolledBack \/ Stutters
  <2>1. /\ pending = {} /\ chain' = chain
        /\ pending' = {RedoDraft(r) : r \in LastActive(chain, n)}
    BY <1>2 DEF StartRedo
  <2>2. Asked = {}
    BY <2>1 DEF Asked
  <2>3. Asked' = {EntryOf(r) : r \in LastActive(chain, n)}
    <3>1. \A r : /\ RedoDraft(r).type = "redo" /\ RedoDraft(r).prompt = r.prompt
                 /\ RedoDraft(r).supersedes = r.seq
      BY DEF RedoDraft
    <3>2. {d \in pending' : d.type = "redo"} = pending'
      BY <2>1, <3>1
    <3>3. Asked' = {[prompt |-> d.prompt, seq |-> d.supersedes] : d \in pending'}
      BY <3>2 DEF Asked
    <3>4. \A r : EntryOf(r) = [prompt |-> RedoDraft(r).prompt,
                               seq |-> RedoDraft(r).supersedes]
      BY <3>1 DEF EntryOf
    <3> QED BY <2>1, <3>3, <3>4
  <2>4. Asked' = LatestOf(EntriesOf(chain), n)
    BY <1>0, <2>3, LastActiveIsLatest, LedgerAssumption
  <2>5. EntriesOf(chain)' = EntriesOf(chain)
    BY <2>1
  <2>6. CASE EntriesOf(chain) = {}
    BY <2>2, <2>4, <2>5, <2>6 DEF LatestOf, Stutters
  <2>7. CASE EntriesOf(chain) # {}
    <3>1. /\ IsFiniteSet(EntriesOf(chain))
          /\ EntriesOf(chain) \subseteq [prompt : Prompts, seq : Nat]
      BY <1>0, ParsedFinite, EntriesTyped
    <3>2. \E k \in 1 .. Cardinality(EntriesOf(chain)) :
            LatestOf(EntriesOf(chain), n) = LatestOf(EntriesOf(chain), k)
      BY <2>7, <3>1, LatestCapped, LedgerAssumption
    <3> QED BY <2>2, <2>4, <2>5, <3>2 DEF RolledBack
  <2> QED BY <2>6, <2>7
<1>3. ASSUME SealAndRotate PROVE Stutters
  <2>1. /\ Rotated(chain, chain') /\ NextSeq(chain) <= MaxSeq
        /\ pending' = pending
    BY <1>3 DEF SealAndRotate, Rotated
  <2>2. EntriesOf(chain') = EntriesOf(chain)
    BY <1>0, <2>1, SoundRotation, EntriesSame
  <2> QED BY <2>1, <2>2 DEF Stutters, Asked
<1>4. ASSUME NEW d \in pending, WriteLine(d)
      PROVE  (\E p \in Prompts : Recorded(p)) \/ (\E e \in Asked : Retired(e))
  <2> DEFINE r == Stamped(d, NextSeq(chain))
  <2>1. /\ ~ TornTail(ActiveSegment(chain)) /\ NextSeq(chain) <= MaxSeq
        /\ InTurn(d) /\ Wrote(chain, chain', r)
        /\ pending' = pending \ {d}
    BY <1>4 DEF WriteLine, ReadyToWrite, WriteTo, Wrote
  <2>2. /\ d.type \in {"work", "redo"} /\ d.prompt \in Prompts /\ d \in Drafts
        /\ r.prompt = d.prompt /\ r.seq = NextSeq(chain)
    BY <1>0, StampedIsARecord
  <2> HIDE DEF r
  <2>3. CASE d.type = "work"
    <3>1. pending = {d} /\ d.prompt \notin ProcessedIds(chain)
      BY <2>3 DEF SoundInv, PendingOK
    <3>2. Asked = {} /\ Asked' = {}
      BY <2>1, <2>3, <3>1 DEF Asked
    <3>3. PICK z : /\ ActivePos(chain') = ActivePos(chain) \cup {z}
                   /\ At(chain', z) = r
                   /\ \A p \in ActivePos(chain) : At(chain', p) = At(chain, p)
      BY <1>0, <2>1, <2>2, <2>3, SoundWork DEF r
    <3>4. EntriesOf(chain') = EntriesOf(chain) \cup {EntryOf(r)}
      BY <3>3, EntriesAfterWork
    <3>5. EntryOf(r) = [prompt |-> d.prompt, seq |-> NextSeq(chain)]
      BY <2>2 DEF EntryOf
    <3>6. \A e \in EntriesOf(chain) : e.prompt # d.prompt /\ e.seq < NextSeq(chain)
      <4> SUFFICES ASSUME NEW e \in EntriesOf(chain)
                   PROVE  e.prompt # d.prompt /\ e.seq < NextSeq(chain)
        OBVIOUS
      <4>1. PICK p \in ActivePos(chain) : e = EntryOf(At(chain, p))
        BY EntryAt
      <4>2. e.prompt = At(chain, p).prompt /\ e.seq = At(chain, p).seq
        BY <4>1 DEF EntryOf
      <4>3. p \in Parsed(chain)
        BY DEF ActivePos
      <4> QED BY <1>0, <3>1, <4>2, <4>3, ProcessedAt
    <3>7. NextSeq(chain) \in 1 .. MaxSeq
      BY <1>0, <2>1
    <3>8. Recorded(d.prompt)
      BY <3>2, <3>4, <3>5, <3>6, <3>7 DEF Recorded
    <3> QED BY <2>2, <3>8
  <2>4. CASE d.type = "redo"
    <3> DEFINE e == [prompt |-> d.prompt, seq |-> d.supersedes]
    <3>1. PICK t \in ActivePos(chain) : /\ At(chain, t).prompt = d.prompt
                                       /\ At(chain, t).seq = d.supersedes
      BY <2>4 DEF SoundInv, PendingOK
    <3>2. EntryOf(At(chain, t)) = e
      BY <3>1 DEF EntryOf
    <3>3. /\ ActivePos(chain') = ActivePos(chain) \ {t}
          /\ \A p \in ActivePos(chain) : At(chain', p) = At(chain, p)
      BY <1>0, <2>1, <2>2, <2>4, <3>1, SoundRedo DEF r
    <3>4. EntriesOf(chain') = EntriesOf(chain) \ {e}
      BY <1>0, <3>2, <3>3, EntriesAfterRedo
    <3>5. \A b \in pending : b.type = "redo"
      <4> SUFFICES ASSUME NEW b \in pending PROVE b.type = "redo"
        OBVIOUS
      <4>1. b.type # "work"
        BY <2>4 DEF SoundInv, PendingOK
      <4> QED BY <1>0, <4>1, StampedIsARecord
    <3>6. e \in Asked /\ \A f \in Asked : e.seq <= f.seq
      BY <2>1, <2>4 DEF Asked, InTurn
    <3>7. ASSUME NEW b \in pending, b.prompt = d.prompt, b.supersedes = d.supersedes
          PROVE  b = d
      BY <1>0, <2>4, <3>5, <3>7 DEF Drafts
    <3>8. Asked' = Asked \ {e}
      <4>1. \A f : f \in Asked <=> \E b \in pending :
                      f = [prompt |-> b.prompt, seq |-> b.supersedes]
        BY <3>5 DEF Asked
      <4>2. \A f : f \in Asked' <=> \E b \in pending \ {d} :
                      f = [prompt |-> b.prompt, seq |-> b.supersedes]
        BY <2>1, <3>5 DEF Asked
      <4>3. \A b \in pending \ {d} : [prompt |-> b.prompt, seq |-> b.supersedes] # e
        BY <3>7
      <4> QED BY <4>1, <4>2, <4>3
    <3>9. Retired(e)
      BY <3>4, <3>6, <3>8 DEF Retired
    <3> QED BY <3>6, <3>9
  <2> QED BY <2>2, <2>3, <2>4
<1>5. ASSUME NEW d \in pending, NEW tear \in Tears, CrashInWrite(d, tear)
      PROVE  Interrupted
  <2>1. tear = "fragment" /\ NextSeq(chain) <= MaxSeq
    BY <1>5 DEF CrashInWrite, ReadyToWrite
  <2>2. /\ ~ TornTail(ActiveSegment(chain))
        /\ chain' = [chain EXCEPT ![Len(chain)] = Written(@, Line(Garbage, FALSE))]
        /\ pending' = {}
    BY <1>5, <2>1 DEF CrashInWrite, ReadyToWrite, WriteTo, Remains
  <2>3. EntriesOf(chain') = EntriesOf(chain)
    BY <1>0, <2>1, <2>2, SoundFragment, SameInEffect, EntriesSame
  <2> QED BY <2>2, <2>3 DEF Interrupted, Asked
<1>6. CASE Abandon
  BY <1>6 DEF Abandon, Interrupted, Asked
<1>7. CASE UNCHANGED vars
  BY <1>7 DEF vars, Stutters, Asked
<1> QED BY <1>1, <1>2, <1>3, <1>4, <1>5, <1>6, <1>7 DEF Next

\* Every behaviour of the ledger whose crashes leave fragments is a behaviour
\* of WorkLog: append() records one entry, redo_last(n) asks for the latest n
\* and its tombstones retire them oldest first, and a crash only interrupts.
THEOREM LedgerImplementsWorkLog ==
    ASSUME Tears \subseteq {"fragment"}
    PROVE  Spec => ImplementsWorkLog
<1>1. Init => Log!Init
  <2> SUFFICES ASSUME Init PROVE Log!Init
    OBVIOUS
  <2>1. chain = << <<>> >> /\ pending = {}
    BY DEF Init
  <2>2. Active(chain) = {}
    BY <2>1, EmptyIsSound, LedgerAssumption
  <2> QED BY <2>1, <2>2 DEF Log!Init
<1>2. SoundInv /\ SoundInv' /\ [Next]_vars => [Log!Next]_(Log!vars)
  BY StepImplements
<1> QED BY <1>1, <1>2, AlwaysSound, PTL DEF Spec, ImplementsWorkLog, Log!Spec
=============================================================================
