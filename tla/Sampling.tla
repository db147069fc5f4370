------------------------------ MODULE Sampling ------------------------------
(***************************************************************************)
(* The second round of preferences: data/sample_failures.py samples the    *)
(* policy on every prompt and appends what fails to                        *)
(* failure_candidates.jsonl, data/build_dpo_v2_pairs.py makes pairs of it. *)
(* The sampler writes through a buffer that is flushed after every batch,  *)
(* it may be killed at any point and started again, with --resume or       *)
(* without, and the pairs may be built while it runs.                      *)
(*                                                                         *)
(* A line is [p, by, what]: the prompt, the start of the sampler that      *)
(* wrote it and "sampled", the marker, or the text of a failure, up to its *)
(* canonical form.  A kill can leave the last line torn, or whole without  *)
(* its newline: the next start then appends to that line.                  *)
(***************************************************************************)
EXTENDS Naturals, Sequences, SequencesExt, FiniteSets

CONSTANTS TrainingPrompts,          \* the rows of the training split, in order, as prompt ids
          Excluded,         \* EXCLUDED_SOURCE_IDS
          PerPrompt,          \* --samples-per-prompt
          BatchSize,
          FailureType,          \* [text -> its failure_type]: what the policy may say wrongly
          MinPairs, MaxPairs,   \* MIN_PAIRS, MAX_PAIRS_PER_PROMPT
          MaxStarts,        \* bounds the starts of the sampler
          TornLine

\* In build_dpo_v2_pairs: the most severe first.
severity == [invalid_json |-> 0, wrong_tool |-> 1, wrong_args |-> 2]

SamplingAssumption ==
    /\ FailureType \in [DOMAIN FailureType -> DOMAIN severity] /\ "sampled" \notin DOMAIN FailureType
    /\ TrainingPrompts \in Seq(ToSet(TrainingPrompts)) /\ IsInjective(TrainingPrompts)
    /\ PerPrompt \in Nat /\ BatchSize \in Nat \ {0} /\ MinPairs \in Nat
    /\ MaxPairs \in Nat /\ MaxStarts \in Nat

VARIABLES candidates,   \* failure_candidates.jsonl, the lines in the file
          joined,       \* its last line lacks the newline
          pending,      \* the lines that are still in the buffer
          todo,         \* where the prompts are that this start has still to sample
          batch,        \* and those that are sampled and have still to be written
          sampler,        \* "idle", "resuming" or "fresh" (the model loads), "sampling"
          starts,
          pairs,        \* preferences_dpo_v2.jsonl, its rows
          cleared       \* the last build cleared the gate

SamplingVars == <<candidates, joined, pending, todo, batch, sampler, starts, pairs, cleared>>

SamplingInit ==
    /\ candidates = <<>> /\ joined = FALSE /\ pending = <<>> /\ todo = {} /\ batch = {}
    /\ sampler = "idle" /\ starts = 0 /\ pairs = {} /\ cleared = FALSE

Marker(p) == [p |-> p, by |-> starts, what |-> "sampled"]
Failure(p, text) == [p |-> p, by |-> starts, what |-> text]
IsMarker(line) == line.what = "sampled"
AllParse(file) == TornLine \notin ToSet(file)

-----------------------------------------------------------------------------
(* sample_failures. *)

\* The prompts the file has a marker of.
AlreadySampled == {line.p : line \in {l \in ToSet(candidates) : IsMarker(l)}}

\* The markers are read before the model loads, and a torn line ends the start.
StartSampler ==
    /\ sampler = "idle" /\ starts < MaxStarts
    /\ starts' = starts + 1
    /\ \/ /\ AllParse(candidates)
          /\ todo' = {i \in DOMAIN TrainingPrompts : TrainingPrompts[i] \notin AlreadySampled}
          /\ sampler' = "resuming" /\ UNCHANGED <<candidates, joined>>
       \/ ~ AllParse(candidates) /\ UNCHANGED <<candidates, joined, todo, sampler>>
       \/ todo' = DOMAIN TrainingPrompts /\ sampler' = "fresh" /\ UNCHANGED <<candidates, joined>>
    /\ UNCHANGED <<pending, batch, pairs, cleared>>

\* The file is opened once the model is there: "a" with --resume, else "w".
OpenCandidates ==
    /\ sampler \in {"resuming", "fresh"}
    /\ sampler' = "sampling"
    /\ IF sampler = "fresh" THEN candidates' = <<>> /\ joined' = FALSE
       ELSE UNCHANGED <<candidates, joined>>
    /\ UNCHANGED <<pending, todo, batch, starts, pairs, cleared>>

\* Mutant: the marker comes when the prompt is through.
MarkerLast(p, outcomes) ==
    Append([i \in DOMAIN outcomes |-> Failure(p, outcomes[i])], Marker(p))

\* The lines of one prompt: its marker, then its failures.
LinesOf(p, outcomes) ==
    <<Marker(p)>> \o [i \in DOMAIN outcomes |-> Failure(p, outcomes[i])]

Failed == UNION {[1 .. n -> DOMAIN FailureType] : n \in 0 .. PerPrompt}

\* Mutant: what was seen before is written again.
SampledTwice == Failed

\* What sampling a prompt can come to: classify leaves out the successes, seen_rejects
\* what was seen before.
Sampled == {s \in Failed : IsInjective(s)}

\* flush: a batch is sampled, the next prompts in order.
SampleBatch ==
    /\ sampler = "sampling" /\ pending = <<>> /\ batch = {} /\ todo # {}
    /\ batch' = {i \in todo : Cardinality({j \in todo : j < i}) < BatchSize}
    /\ todo' = todo \ batch'
    /\ UNCHANGED <<candidates, joined, pending, sampler, starts, pairs, cleared>>

\* The loop over it: the lines of one prompt go to the buffer.
WritePrompt ==
    /\ sampler = "sampling"
    /\ \E i \in batch, outcomes \in Sampled :
           /\ \A j \in batch : i <= j
           /\ pending' = pending \o LinesOf(TrainingPrompts[i], outcomes)
           /\ batch' = batch \ {i}
    /\ UNCHANGED <<candidates, joined, todo, sampler, starts, pairs, cleared>>

\* What the file holds once `lines` are appended to it.
Extended(lines) ==
    IF joined /\ lines # <<>> THEN Front(candidates) \o <<TornLine>> \o Tail(lines)
    ELSE candidates \o lines

\* The buffer reaches the file, a part of it early where it is full.
Flush ==
    /\ sampler = "sampling" /\ pending # <<>>
    /\ \E n \in 1 .. Len(pending) :
           /\ candidates' = Extended(SubSeq(pending, 1, n))
           /\ pending' = SubSeq(pending, n + 1, Len(pending))
    /\ joined' = FALSE
    /\ UNCHANGED <<todo, batch, sampler, starts, pairs, cleared>>

FinishSampler ==
    /\ sampler = "sampling" /\ pending = <<>> /\ batch = {} /\ todo = {}
    /\ sampler' = "idle"
    /\ UNCHANGED <<candidates, joined, pending, todo, batch, starts, pairs, cleared>>

\* A kill loses the buffer.  The line that was being written stays as a part of
\* itself, or whole without its newline.
KillSampler ==
    /\ sampler # "idle"
    /\ sampler' = "idle" /\ todo' = {} /\ batch' = {} /\ pending' = <<>>
    /\ \/ UNCHANGED <<candidates, joined>>
       \/ pending # <<>> /\ candidates' = Extended(<<TornLine>>) /\ joined' = TRUE
       \/ pending # <<>> /\ candidates' = Extended(<<Head(pending)>>) /\ joined' = TRUE
    /\ UNCHANGED <<starts, pairs, cleared>>

-----------------------------------------------------------------------------
(* build_dpo_v2_pairs. *)

\* Where the file has a failure of prompt p.
FailuresOf(p) == {i \in DOMAIN candidates : candidates[i].p = p /\ ~ IsMarker(candidates[i])}

SeverityOf(i) == severity[FailureType[candidates[i].what]]

\* Mutant: the rows are left in the order of the file.
InFileOrder(i, j) == i < j

\* sorted is stable: the most severe first, then in the order of the file.
ComesFirst(i, j) == SeverityOf(i) < SeverityOf(j) \/ (SeverityOf(i) = SeverityOf(j) /\ i < j)

\* The rows that are kept of a prompt: each text once, up to the cap.
KeptOf(p) ==
    LET rows == FailuresOf(p)
        firsts == {i \in rows : \A k \in rows : candidates[k].what = candidates[i].what => i <= k}
    IN {candidates[i] : i \in {j \in firsts : Cardinality({k \in firsts : ComesFirst(k, j)}) < MaxPairs}}

Assembled == UNION {KeptOf(p) : p \in ToSet(TrainingPrompts) \ Excluded}

\* The pairs are written before the gate is looked at.
Build ==
    /\ AllParse(candidates)
    /\ pairs' = Assembled
    /\ cleared' = (Cardinality(pairs') >= MinPairs)
    /\ UNCHANGED <<candidates, joined, pending, todo, batch, sampler, starts>>

SamplingNext ==
    \/ StartSampler \/ OpenCandidates \/ SampleBatch \/ WritePrompt \/ Flush
    \/ FinishSampler \/ KillSampler \/ Build

SamplingSpec == SamplingInit /\ [][SamplingNext]_SamplingVars

-----------------------------------------------------------------------------
(* Properties. *)

\* However often the sampler was killed, resumed and started afresh, a file that
\* can be read holds one sampling of each prompt: one marker, each failure once, and
\* no row of another start; else a resumed prompt would count twice in the failure
\* rate.  Nor do the pairs of a prompt come from two starts.
OneSamplingPerPrompt ==
    /\ AllParse(candidates) =>
           \A i, j \in DOMAIN candidates : candidates[i].p = candidates[j].p =>
               /\ candidates[i].by = candidates[j].by
               /\ candidates[i].what = candidates[j].what => i = j
    /\ \A r, q \in pairs : r.p = q.p => r.by = q.by

\* Reference: the failures of prompt p in the file.
FailuresIn(p) == {line \in ToSet(candidates) : line.p = p /\ ~ IsMarker(line)}

\* Whatever the sampler has left, what a build makes of it then has as many of the
\* failures of each prompt as there are, up to the cap, and passes over none for a
\* milder one; of an excluded prompt it has nothing.
HardestAreKept ==
    AllParse(candidates) =>
        \A p \in ToSet(TrainingPrompts) :
            LET taken == {row \in Assembled : row.p = p}
                failed == FailuresIn(p)
                type(line) == severity[FailureType[line.what]]
            IN IF p \in Excluded THEN taken = {}
               ELSE /\ taken \subseteq failed
                    /\ Cardinality(taken) <= MaxPairs
                    /\ taken # failed => Cardinality(taken) = MaxPairs
                    /\ \A line \in failed \ taken, row \in taken : type(row) <= type(line)
=============================================================================
