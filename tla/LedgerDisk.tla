----------------------------- MODULE LedgerDisk -----------------------------
(***************************************************************************)
(* The bytes of mining/ledger.py's segments and what a reader makes of     *)
(* them: operators only, shared by every module that has a ledger.         *)
(*                                                                         *)
(* A ledger is the sequence of its segments, a segment the sequence of its *)
(* lines.  A line is one whole JSON record, or Garbage (bytes json.loads   *)
(* refuses), and it knows whether its newline reached the disk: only the   *)
(* last line of a segment can lack it, and the next write then lands on    *)
(* the same line.  sha256 is taken to be injective, so a header keeps the  *)
(* contents it sealed as its digest.                                       *)
(***************************************************************************)
EXTENDS Integers, Sequences, FiniteSets

CONSTANT Prompts   \* prompt ids

-----------------------------------------------------------------------------
(* Records and lines. *)

Garbage == [type |-> "garbage"]

WorkDraft(p) == [type |-> "work", prompt |-> p]

\* Mutant: the tombstone names its prompt where its seq belongs.
RedoDraftByPrompt(r) == [type |-> "redo", prompt |-> r.prompt, supersedes |-> r.prompt]

RedoDraft(r) == [type |-> "redo", prompt |-> r.prompt, supersedes |-> r.seq]
Drafts == [type : {"work"}, prompt : Prompts]
          \cup [type : {"redo"}, prompt : Prompts, supersedes : Nat]

\* _commit's `out`: the caller's record with its seq.
Stamped(d, n) ==
    IF d.type = "work"
    THEN [type |-> "work", seq |-> n, prompt |-> d.prompt]
    ELSE [type |-> "redo", seq |-> n, prompt |-> d.prompt,
          supersedes |-> d.supersedes]

\* The header of 0-based segment i, over the bytes of the one it seals.
Header(i, sealed, n) ==
    [type |-> "segment_open", seq |-> n, segment |-> i, prev |-> sealed]

Line(r, ended) == [rec |-> r, eol |-> ended]

LastLine(seg) == seg[Len(seg)]

ActiveSegment(ch) == ch[Len(ch)]

\* open(path, "a") then write: onto the last line when its newline is missing.
Written(seg, line) ==
    IF seg # <<>> /\ ~LastLine(seg).eol
    THEN [seg EXCEPT ![Len(seg)] = Line(Garbage, line.eol)]
    ELSE Append(seg, line)

\* What a write of r cut short leaves: a prefix of the JSON, or all of it but
\* the newline.
Remains(r, tear) ==
    IF tear = "fragment" THEN Line(Garbage, FALSE) ELSE Line(r, FALSE)

-----------------------------------------------------------------------------
(* Reading: positions <<i, j>> of parsed lines, in chain order. *)

Parsed(ch) ==
    {p \in UNION {{i} \X DOMAIN ch[i] : i \in DOMAIN ch} :
        ch[p[1]][p[2]].rec.type # "garbage"}

At(ch, p) == ch[p[1]][p[2]].rec

Before(p, q) == p[1] < q[1] \/ (p[1] = q[1] /\ p[2] < q[2])

\* _parse_segment raises on an unreadable line that is not the last.
Parses(ch) ==
    \A i \in DOMAIN ch : \A j \in DOMAIN ch[i] :
        ch[i][j].rec.type = "garbage" => j = Len(ch[i])

\* Mutant: only a missing newline counts as a torn tail.
OnlyNewlineTorn(seg) ==
    seg # <<>> /\ ~LastLine(seg).eol /\ LastLine(seg).rec.type # "garbage"

TornTail(seg) == seg # <<>> /\ LastLine(seg).rec.type = "garbage"

Headers(seg) == {j \in DOMAIN seg : seg[j].rec.type = "segment_open"}

SealsOK(ch) ==
    \A i \in DOMAIN ch :
        IF i = 1 THEN Headers(ch[1]) = {}
        ELSE /\ Headers(ch[i]) = {1}
             /\ ch[i][1].rec.segment = i - 1
             /\ ch[i][1].rec.prev = ch[i - 1]

SeqsOK(ch) ==
    \A p, q \in Parsed(ch) :
        /\ At(ch, p).seq > 0
        /\ Before(p, q) => At(ch, p).seq < At(ch, q).seq

\* A tombstone names an earlier work record of its prompt, and is the first.
ControlsOK(ch) ==
    \A p \in Parsed(ch) : At(ch, p).type = "redo" =>
        /\ \E q \in Parsed(ch) :
             /\ Before(q, p)
             /\ At(ch, q).type = "work"
             /\ At(ch, q).seq = At(ch, p).supersedes
             /\ At(ch, q).prompt = At(ch, p).prompt
        /\ \A q \in Parsed(ch) :
             At(ch, q).type = "redo" /\ Before(q, p)
                => At(ch, q).supersedes # At(ch, p).supersedes

\* _read_records returns rather than raising.
Verified(ch) == Parses(ch) /\ SealsOK(ch) /\ SeqsOK(ch) /\ ControlsOK(ch)

Superseded(ch) ==
    {At(ch, p).supersedes : p \in {q \in Parsed(ch) : At(ch, q).type = "redo"}}

ActivePos(ch) ==
    {p \in Parsed(ch) : /\ At(ch, p).type = "work"
                        /\ At(ch, p).seq \notin Superseded(ch)}

Active(ch) == {At(ch, p) : p \in ActivePos(ch)}

\* Mutant: the dedup looks at the last segment only.
ProcessedInLast(ch) == {At(ch, p).prompt : p \in {q \in ActivePos(ch) : q[1] = Len(ch)}}

ProcessedIds(ch) == {r.prompt : r \in Active(ch)}

Seqs(ch) == {At(ch, p).seq : p \in Parsed(ch)}

NextSeq(ch) ==
    IF Seqs(ch) = {} THEN 1
    ELSE 1 + CHOOSE n \in Seqs(ch) : \A m \in Seqs(ch) : m <= n

\* Mutant: redo_last forgets that a record can be superseded already.
LastWritten(ch, n) ==
    LET work == {At(ch, p) : p \in {q \in Parsed(ch) : At(ch, q).type = "work"}}
    IN {r \in work : Cardinality({s \in work : s.seq > r.seq}) < n}

\* Mutant: the oldest active records are taken, active[:n] for active[-n:].
FirstActive(ch, n) ==
    {r \in Active(ch) : Cardinality({s \in Active(ch) : s.seq < r.seq}) < n}

\* redo_last's to_supersede.
LastActive(ch, n) ==
    {r \in Active(ch) : Cardinality({s \in Active(ch) : s.seq > r.seq}) < n}

-----------------------------------------------------------------------------
(* The shape of what is on disk. *)

LinesOn(ch) == UNION {{ch[i][j] : j \in DOMAIN ch[i]} : i \in DOMAIN ch}

RecordOK(r) ==
    \/ r = Garbage
    \/ r \in [type : {"work"}, seq : Nat, prompt : Prompts]
    \/ r \in [type : {"redo"}, seq : Nat, prompt : Prompts, supersedes : Nat]
    \/ /\ r = Header(r.segment, r.prev, r.seq)
       /\ r.segment \in Nat
       /\ r.seq \in Nat

DiskOK(ch) ==
    /\ ch \in Seq(Seq(LinesOn(ch))) /\ Len(ch) >= 1
    /\ \A l \in LinesOn(ch) :
         /\ l = Line(l.rec, l.eol)
         /\ RecordOK(l.rec)
         /\ l.eol \in BOOLEAN
=============================================================================
