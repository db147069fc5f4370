------------------------------- MODULE Ledger -------------------------------
(***************************************************************************)
(* mining/ledger.py: the Ledger class, used by one process at a time that  *)
(* may die at any point and start again on what is on disk.                *)
(***************************************************************************)
EXTENDS LedgerDisk

CONSTANTS Tears,     \* what a crash during a write can leave: see Remains
          MaxSeq,    \* bound on the seq numbers of a behaviour
          MaxRedo    \* bound on the count given to redo_last

ASSUME LedgerAssumption ==
    /\ Tears \subseteq {"fragment", "newline"}
    /\ MaxSeq \in Nat
    /\ MaxRedo \in Nat

VARIABLES chain,     \* the segments on disk, chain[1] the base path
          pending,   \* records the call in progress still has to commit
          returned   \* prompts whose append() returned and that no
                     \* redo_last() selected since (history only)

vars == <<chain, pending, returned>>

-----------------------------------------------------------------------------
Init ==
    /\ chain = << <<>> >>
    /\ pending = {}
    /\ returned = {}

\* append(): refuses (a stutter) a prompt in effect, or a chain it cannot read.
StartAppend(p) ==
    /\ pending = {}
    /\ Verified(chain)
    /\ p \notin ProcessedIds(chain)
    /\ pending' = {WorkDraft(p)}
    /\ UNCHANGED <<chain, returned>>

\* redo_last(n): the targets are chosen once, before the first tombstone.
StartRedo(n) ==
    /\ pending = {}
    /\ Verified(chain)
    /\ LET chosen == LastActive(chain, n)
       IN /\ pending' = {RedoDraft(r) : r \in chosen}
          /\ returned' = returned \ {r.prompt : r \in chosen}
    /\ UNCHANGED chain

\* The record _commit is called with now: redo_last goes in seq order.
InTurn(d) ==
    /\ d \in pending
    /\ \A e \in pending :
         d.type = "redo" /\ e.type = "redo" => d.supersedes <= e.supersedes

\* _commit, first half: a torn segment is sealed and its successor published
\* whole, before any seq is allocated.
SealAndRotate ==
    /\ pending # {}
    /\ TornTail(ActiveSegment(chain))
    /\ Verified(chain)
    /\ NextSeq(chain) <= MaxSeq
    /\ chain' = Append(chain,
                  << Line(Header(Len(chain), ActiveSegment(chain), NextSeq(chain)), TRUE) >>)
    /\ UNCHANGED <<pending, returned>>

\* _commit's write target and the record it is about to write there.
ReadyToWrite(d) ==
    /\ InTurn(d)
    /\ ~TornTail(ActiveSegment(chain))
    /\ Verified(chain)
    /\ NextSeq(chain) <= MaxSeq

WriteTo(line) == chain' = [chain EXCEPT ![Len(chain)] = Written(@, line)]

\* _commit, second half: the whole line is on disk when _write_line returns.
WriteLine(d) ==
    /\ ReadyToWrite(d)
    /\ WriteTo(Line(Stamped(d, NextSeq(chain)), TRUE))
    /\ pending' = pending \ {d}
    /\ returned' = IF d.type = "work" THEN returned \cup {d.prompt} ELSE returned

\* The process dies inside _write_line, and what it had written stays.
CrashInWrite(d, tear) ==
    /\ ReadyToWrite(d)
    /\ WriteTo(Remains(Stamped(d, NextSeq(chain)), tear))
    /\ pending' = {}
    /\ UNCHANGED returned

\* The process dies between two writes, or a read raises: the call is gone.
Abandon ==
    /\ pending # {}
    /\ pending' = {}
    /\ UNCHANGED <<chain, returned>>

Next ==
    \/ \E p \in Prompts : StartAppend(p)
    \/ \E n \in 1 .. MaxRedo : StartRedo(n)
    \/ SealAndRotate
    \/ \E d \in pending : WriteLine(d)
    \/ \E d \in pending, tear \in Tears : CrashInWrite(d, tear)
    \/ Abandon

Spec == Init /\ [][Next]_vars

-----------------------------------------------------------------------------
(* Properties. *)

\* The shape of the disk and of the call in progress: there is always a base
\* segment, and a line holds one record or Garbage.
TypeOK ==
    /\ DiskOK(chain)
    /\ pending \subseteq Drafts
    /\ returned \subseteq Prompts

\* Whatever interrupts the ledger, even the newline of a line lost, no read
\* finds an unreadable line inside a segment, a seal that does not match the
\* segment it closed, or a seq that does not increase along the chain
\* (_parse_segment, _verify_segment, _verify_seqs never raise).
SealsAndSeqsHold == Parses(chain) /\ SealsOK(chain) /\ SeqsOK(chain)

\* A read never raises LedgerIntegrityError over what the ledger itself wrote:
\* in particular every tombstone redo_last writes names an earlier work record
\* that no other tombstone names, whatever crashes and rotations lie between
\* the choice of its target and its commit.
ChainVerifies == Verified(chain)

\* A prompt is counted once: two records of one prompt are never both in
\* effect, across crashes, rotations, rollbacks and re-appends.
OneActivePerPrompt ==
    \A p, q \in ActivePos(chain) :
        At(chain, p).prompt = At(chain, q).prompt => p = q

\* Work whose append() returned is still in effect after any later crash,
\* until a redo_last() selects it ("a crash immediately after this call
\* returns cannot lose or partially write this line").
DurableOnceReturned == returned \subseteq ProcessedIds(chain)

\* The chain implements the log of entries its callers reason with.
Entry(r) == [prompt |-> r.prompt, seq |-> r.seq]

Log == INSTANCE WorkLog WITH
    Stamps <- 1 .. MaxSeq,
    active <- {Entry(r) : r \in Active(chain)},
    asked  <- {[prompt |-> d.prompt, seq |-> d.supersedes] :
                  d \in {e \in pending : e.type = "redo"}}

\* Every step of the ledger, crashes included, is a step of WorkLog or leaves
\* it alone: entries appear one at a time through append() with a fresh stamp
\* and vanish only through redo_last(), newest n chosen, oldest of them first.
ImplementsWorkLog == Log!Spec
=============================================================================
