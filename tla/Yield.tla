-------------------------------- MODULE Yield --------------------------------
(***************************************************************************)
(* What a mining stage makes of its ledger, mining/mine_pairs.py: prompts  *)
(* are allocated to two strata, sampled and judged, a preference pair is   *)
(* taken from each that offers one, and when the calibration is complete   *)
(* the yield decides what is trained next.  Records can be rolled back and *)
(* mined again, and any process may be killed: a rollback between two of   *)
(* its tombstones, a derivation between two of its files.                  *)
(*                                                                         *)
(* The ledger's segments and what a crash leaves in them are Ledger's, and *)
(* processes beside each other are Mining's: here one runs at a time, on   *)
(* the sequence of records they keep.                                      *)
(***************************************************************************)
EXTENDS Turns, Integers

CONSTANTS Survivors,   \* [stratum -> post-screen survivors]
          NPrompts,    \* STAGES[stage]
          Target,      \* [prompt -> its target turn]; a prompt is <<stratum, i>>
          Said,        \* [prompt -> what the policy may generate for it]
          Samples,     \* SAMPLES_PER_PROMPT
          Weights,     \* [stratum -> its weight], as committed
          Proceed, Cautious,  \* GATE_PROCEED and GATE_CAUTIOUS, per 10,000
          PerStep,     \* A0_PAIRS_PER_OPTIMIZER_STEP
          StepLimit,   \* A5_ACTIVATION_STEP_THRESHOLD
          MaxRedo,     \* bound on --redo-last
          MaxLines,    \* bound on the ledger's lines
          MaxFaults    \* bound on kills and failed samplings

Strata == {"multi", "single"}
OtherStratum(s) == IF s = "multi" THEN "single" ELSE "multi"

ASSUME YieldAssumption ==
    /\ Survivors \in [Strata -> Nat] /\ Weights \in [Strata -> Nat]
    /\ NPrompts \in Nat /\ Samples \in Nat \ {0} /\ PerStep \in Nat \ {0}
    /\ StepLimit \in Nat /\ MaxRedo \in Nat /\ MaxLines \in Nat /\ MaxFaults \in Nat
    /\ Cautious \in Nat /\ Proceed \in Nat /\ Cautious <= Proceed

VARIABLES log,        \* the ledger's records, in order
          live,       \* what each prompt's active record holds (history)
          doing,      \* the process: "out", "mining", "retiring", "deriving", "writing"
          doomed,     \* the records a rollback has still to retire
          replaced,   \* how many of the derived files this process has replaced
          derived,    \* the derived files as they are on disk
          unsettled,  \* records were retired and nothing has returned since (history)
          faults,     \* kills and failed samplings so far
          refused     \* mine_prompt raised over what the policy said

YieldVars == <<log, live, doing, doomed, replaced, derived, unsettled, faults, refused>>

-----------------------------------------------------------------------------
(* allocate and select_prompts. *)

\* Largest remainder, then one at least to each stratum; [] when it refuses.
Allocate(n, counts) ==
    LET total == counts["multi"] + counts["single"]
        floor(s) == (counts[s] * n) \div total
        rest(s) == (counts[s] * n) % total
        left == n - floor("multi") - floor("single")
        first(s) == rest(s) > rest(OtherStratum(s)) \/ (rest(s) = rest(OtherStratum(s)) /\ s = "multi")
        rounded(s) == floor(s) + IF left = 2 \/ (left = 1 /\ first(s)) THEN 1 ELSE 0
        given(s) == IF rounded(s) = 0 THEN 1
                    ELSE IF rounded(OtherStratum(s)) = 0 THEN rounded(s) - 1 ELSE rounded(s)
    IN IF n < 2 \/ total = 0 \/ \E s \in Strata : given(s) < 1 \/ given(s) > counts[s]
       THEN <<>>
       ELSE [s \in Strata |-> given(s)]

\* The order within a stratum is that of a digest: any fixed one.
Allocation == Allocate(NPrompts, Survivors)
SelectedPrompts == {<<s, i>> : s \in Strata, i \in 1 .. NPrompts}
    \cap (UNION {{s} \X (1 .. Allocation[s]) : s \in Strata})

\* A stage starts only if the allocation was not refused.
ASSUME StageAssumption ==
    /\ Allocation # <<>>
    /\ \A p \in SelectedPrompts : IsTurn(Target[p]) /\ \A t \in Said[p] : IsTurn(t)

-----------------------------------------------------------------------------
(* Records, and what is derived from them. *)

Record(p, outcome) == [type |-> "work", prompt |-> p, outcome |-> outcome, supersedes |-> 0]
Tombstone(seq) == [type |-> "redo", prompt |-> <<>>, outcome |-> <<>>, supersedes |-> seq]

Retired == {log[i].supersedes : i \in {j \in DOMAIN log : log[j].type = "redo"}}

\* Mutant: a prompt is active if any of its records is.
ActiveByPrompt ==
    {i \in DOMAIN log : /\ log[i].type = "work"
                        /\ \E j \in DOMAIN log : log[j].prompt = log[i].prompt /\ j \notin Retired}

\* By seq, not by prompt.
Active == {i \in DOMAIN log : log[i].type = "work"} \ Retired

Accepted(outcome) == {k \in DOMAIN outcome : outcome[k].verdict = Accept}
Rejected(outcome) == {k \in DOMAIN outcome : outcome[k].verdict # Accept}
Lowest(S) == CHOOSE x \in S : \A y \in S : x <= y

HasPair(outcome) == Accepted(outcome) # {} /\ Rejected(outcome) # {}

\* Mutant: the first sample against the last.
FirstAgainstLast(p, outcome) ==
    [prompt |-> p, chosen |-> outcome[1].text, rejected |-> outcome[Len(outcome)].text,
     reason |-> outcome[Len(outcome)].verdict.reason]

\* materialize_pair: the lowest sample of each kind.
MaterializePair(p, outcome) ==
    LET a == Lowest(Accepted(outcome))
        r == Lowest(Rejected(outcome))
    IN [prompt |-> p, chosen |-> outcome[a].text, rejected |-> outcome[r].text,
        reason |-> outcome[r].verdict.reason]

\* bucket_of, in stratum_breakdown.
BucketOf(outcome) ==
    IF Accepted(outcome) = {} THEN "zero_correct"
    ELSE IF Rejected(outcome) = {} THEN "all_correct" ELSE "pair"

\* summarize: counts over the active records, never carried forward.
Mined == [s \in Strata |-> Cardinality({i \in Active : log[i].prompt[1] = s})]
Unsolved == {log[i].prompt : i \in {j \in Active : Accepted(log[j].outcome) = {}}}
Pairs ==
    {MaterializePair(log[i].prompt, log[i].outcome) : i \in {j \in Active : HasPair(log[j].outcome)}}
PairsOf(s) == Cardinality({p \in Pairs : p.prompt[1] = s})
Buckets == [b \in {"zero_correct", "all_correct", "pair"} |->
               Cardinality({i \in Active : BucketOf(log[i].outcome) = b})]

\* P_std >= gate, in integers: a fraction is never rounded.
Reaches(gate, mined, pairs) ==
    10000 * (Weights["multi"] * pairs["multi"] * mined["single"]
             + Weights["single"] * pairs["single"] * mined["multi"])
        >= gate * (Weights["multi"] + Weights["single"]) * mined["multi"] * mined["single"]

Undefined(mined) == \E s \in Strata : mined[s] = 0

\* gate_decision.
GateDecision(mined, pairs) ==
    IF Undefined(mined) THEN "undecidable"
    ELSE IF Reaches(Proceed, mined, pairs) THEN "proceed"
    ELSE IF Reaches(Cautious, mined, pairs) THEN "cautiously"
    ELSE "do not"

\* a0_planned_optimizer_steps: the 90/10 split of every cell, then the steps.
Cell(r) == Cardinality({p \in Pairs : p.reason = r})
CeilDiv(a, b) == (a + b - 1) \div b
CellEval(n) == IF CeilDiv(n, 10) > 1 THEN CeilDiv(n, 10) ELSE 1
ThinCell == \E r \in Reasons : Cell(r) = 1
Train(r) == IF Cell(r) = 0 THEN 0 ELSE Cell(r) - CellEval(Cell(r))
TrainPairs == Train("invalid_json") + Train("missing_call") + Train("spurious_call")
              + Train("wrong_tool") + Train("wrong_args")
PlannedSteps == CeilDiv(TrainPairs, PerStep)

PairCounts == [s \in Strata |-> PairsOf(s)]

NotResolved == [family |-> 0, steps |-> 0, wide |-> FALSE]

\* resolve_amendment5: the gate comes first, and A0 is planned only where it may
\* run.  A thin cell raises.
Amendment5(decision) ==
    IF decision = "undecidable" THEN NotResolved
    ELSE IF decision = "do not" THEN [family |-> 4, steps |-> 0, wide |-> FALSE]
    ELSE LET wide == decision = "proceed" /\ PlannedSteps < StepLimit
         IN [family |-> IF wide THEN 5 ELSE 4, steps |-> PlannedSteps, wide |-> wide]

Complete == \A s \in Strata : Mined[s] = Allocation[s]

\* Mutant: a decision is emitted from what there is.
DecideEarly == TRUE

\* Whether write_derivatives may decide: calibration_complete.
MayDecide == Complete

Planned == LET decision == GateDecision(Mined, PairCounts)
           IN MayDecide /\ decision \in {"proceed", "cautiously"}

\* write_derivatives: what it makes of the ledger, for each of its files.
Derived ==
    LET decision == IF MayDecide THEN GateDecision(Mined, PairCounts) ELSE "none"
    IN [mined_pairs |-> Pairs, sft_bucket |-> Unsolved,
        mining_summary |-> [decision |-> decision,
                            amendment |-> IF MayDecide THEN Amendment5(decision) ELSE NotResolved]]

-----------------------------------------------------------------------------
(* The stage, in a directory that prepare_stage_run has made. *)

YieldInit ==
    /\ log = <<>>
    /\ live = [p \in {} |-> <<>>]
    /\ doing = "out" /\ doomed = {} /\ replaced = 0
    /\ derived = [mined_pairs |-> {}, sft_bucket |-> {},
                mining_summary |-> [decision |-> "none", amendment |-> NotResolved]]
    /\ unsettled = FALSE /\ faults = 0 /\ refused = FALSE

StartMining ==
    /\ doing = "out"
    /\ doing' = "mining" /\ refused' = FALSE
    /\ UNCHANGED <<log, live, doomed, replaced, derived, unsettled, faults>>

\* The selection in the order it is mined in.
Waiting == SelectedPrompts \ DOMAIN live
IsNext(p) == \A q \in Waiting : p[1] = q[1] => p[2] <= q[2]

\* mine_prompt: every sample gets its verdict, or the loop ends.
MinePrompt(p) ==
    /\ doing = "mining" /\ Len(log) < MaxLines
    /\ p \in Waiting /\ IsNext(p)
    /\ p[1] = "single" => \A q \in Waiting : q[1] = "single"
    /\ \E texts \in [1 .. Samples -> Said[p]] :
           LET outcome == [k \in 1 .. Samples |->
                              [text |-> texts[k], verdict |-> Verify(texts[k], Target[p])]]
           IN IF \E k \in 1 .. Samples : outcome[k].verdict.verdict = "raises"
              THEN /\ refused' = TRUE /\ doing' = "deriving"
                   /\ UNCHANGED <<log, live>>
              ELSE /\ log' = Append(log, Record(p, outcome))
                   /\ live' = [q \in DOMAIN live \cup {p} |-> IF q = p THEN outcome ELSE live[q]]
                   /\ UNCHANGED <<doing, refused>>
    /\ UNCHANGED <<doomed, replaced, derived, unsettled, faults>>

\* The loop is through: the finally clause is next.
EndMining ==
    /\ doing = "mining" /\ Waiting = {}
    /\ doing' = "deriving"
    /\ UNCHANGED <<log, live, doomed, replaced, derived, unsettled, faults, refused>>

\* The generator raises, and the finally clause is next too.
SamplingFails ==
    /\ doing = "mining" /\ Waiting # {} /\ faults < MaxFaults
    /\ faults' = faults + 1
    /\ doing' = "deriving"
    /\ UNCHANGED <<log, live, doomed, replaced, derived, unsettled, refused>>

\* redo_last: the last n of the active records are chosen, once.
Newest(n) == {i \in Active : Cardinality({j \in Active : j > i}) < n}

StartRedo(n) ==
    /\ doing = "out" /\ Len(log) + n <= MaxLines
    /\ doomed' = Newest(n)
    /\ doing' = IF doomed' = {} THEN "deriving" ELSE "retiring"
    /\ UNCHANGED <<log, live, replaced, derived, unsettled, faults, refused>>

\* A tombstone is appended, for the lowest of the doomed.
RetireLowest ==
    LET i == Lowest(doomed)
    IN /\ log' = Append(log, Tombstone(i))
       /\ doomed' = doomed \ {i}
       /\ live' = [q \in DOMAIN live \ {log[i].prompt} |-> live[q]]

\* Mutant: the derivatives are left to the next run.
RetireOnly ==
    /\ doing = "retiring"
    /\ RetireLowest
    /\ doing' = IF doomed' = {} THEN "out" ELSE doing
    /\ unsettled' = (doomed' # {})
    /\ UNCHANGED <<replaced, derived, faults, refused>>

Retire ==
    /\ doing = "retiring"
    /\ RetireLowest
    /\ doing' = IF doomed' = {} THEN "deriving" ELSE doing
    /\ unsettled' = TRUE
    /\ UNCHANGED <<replaced, derived, faults, refused>>

\* write_derivatives, what is computed first: a thin cell raises before any file is
\* written.
Derive ==
    /\ doing = "deriving"
    /\ doing' = IF Planned /\ ThinCell THEN "out" ELSE "writing"
    /\ UNCHANGED <<log, live, doomed, replaced, derived, unsettled, faults, refused>>

\* Mutant: the summary is replaced before what it sums up.
SummaryFirst == <<"mining_summary", "mined_pairs", "sft_bucket">>

WriteOrder == <<"mined_pairs", "sft_bucket", "mining_summary">>

\* One file is replaced; after the last the process returns.
WriteDerived ==
    /\ doing = "writing"
    /\ LET f == WriteOrder[replaced + 1] IN derived' = [derived EXCEPT ![f] = Derived[f]]
    /\ IF replaced + 1 = Len(WriteOrder)
       THEN doing' = "out" /\ replaced' = 0 /\ unsettled' = FALSE
       ELSE replaced' = replaced + 1 /\ UNCHANGED <<doing, unsettled>>
    /\ UNCHANGED <<log, live, doomed, faults, refused>>

\* Whatever a process has not done yet stays undone.
KillStage ==
    /\ doing # "out" /\ faults < MaxFaults
    /\ faults' = faults + 1
    /\ doing' = "out" /\ doomed' = {} /\ replaced' = 0
    /\ UNCHANGED <<log, live, derived, unsettled, refused>>

YieldNext ==
    \/ StartMining \/ (\E p \in SelectedPrompts : MinePrompt(p)) \/ EndMining \/ SamplingFails
    \/ (\E n \in 1 .. MaxRedo : StartRedo(n)) \/ Retire
    \/ Derive \/ WriteDerived
    \/ KillStage

YieldSpec == YieldInit /\ [][YieldNext]_YieldVars

-----------------------------------------------------------------------------
(* Properties. *)

\* Every pair is a preference, whatever was rolled back: what is chosen says
\* exactly what the prompt's target says, what is rejected does not, both were
\* sampled for it, and no prompt gives two.
PairsArePreferences ==
    \A pair \in Pairs :
        /\ Meaning(pair.chosen) = Meaning(Target[pair.prompt])
        /\ Meaning(pair.rejected) # Meaning(Target[pair.prompt])
        /\ pair.prompt \in DOMAIN live
        /\ {pair.chosen, pair.rejected} \subseteq {live[pair.prompt][k].text : k \in 1 .. Samples}
        /\ \A other \in Pairs : other.prompt = pair.prompt => other = pair

\* The yield, from the prompts that are in effect (history) and not from the ledger.
LiveMined == [s \in Strata |-> Cardinality({p \in DOMAIN live : p[1] = s})]
LivePairs == [s \in Strata |-> Cardinality({p \in DOMAIN live : p[1] = s /\ HasPair(live[p])})]

LiveUnsolved == {p \in DOMAIN live : Accepted(live[p]) = {}}

\* A rolled-back prompt leaves both terms of the yield together and returns to both
\* when it is mined again.  A decision on disk is that of the whole calibration as it
\* stands, never an undecidable one, with the family it fixes and with the pairs it
\* was made of in the file beside it, wherever a process was killed; only after a
\* rollback is it the old one, until the rollback has returned, or a run after it.
DecisionStands ==
    /\ Mined = LiveMined /\ PairCounts = LivePairs
    /\ Buckets["zero_correct"] + Buckets["all_correct"] + Buckets["pair"] = Cardinality(DOMAIN live)
    /\ LET summary == derived.mining_summary
       IN ~ unsettled /\ summary.decision # "none" =>
           /\ DOMAIN live = SelectedPrompts /\ Cardinality(SelectedPrompts) = NPrompts
           /\ summary.decision = GateDecision(LiveMined, LivePairs)
           /\ summary.decision # "undecidable"
           /\ derived.mined_pairs = Pairs /\ derived.sft_bucket = LiveUnsolved
           /\ summary.amendment.family = 5 <=>
                  summary.decision = "proceed" /\ PlannedSteps < StepLimit
           /\ summary.decision # "do not" => \A r \in Reasons : Cell(r) # 1

\* "A generation is never a refusal": whatever the policy says, the prompt gets
\* its verdicts and the stage goes on.
GenerationsNeverRefuse == ~ refused
=============================================================================
