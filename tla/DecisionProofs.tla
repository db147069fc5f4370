--------------------------- MODULE DecisionProofs ---------------------------
(***************************************************************************)
(* What is proved of the decisions the repository takes from its data, for *)
(* any files, rows, sweeps and edits: which prompts may be mined (part 1), *)
(* which answer key is the canonical one (part 2), which pairs are         *)
(* preferences and whether their yield lets training go on (part 3).       *)
(***************************************************************************)
EXTENDS Pool, KeyChoice, Yield, WellFoundedInduction, FiniteSetTheorems,
        SequenceTheorems, TLAPS

-----------------------------------------------------------------------------
(* Part 1: the population a stage mines.                                   *)

\* A set of naturals has a least element.
LEMMA LeastExists ==
    ASSUME NEW T \in SUBSET Nat, T # {}
    PROVE  \E x \in T : \A y \in T : x <= y
<1>1. PICK x \in T : \A y \in T : ~ (<<y, x>> \in OpToRel(<, Nat))
  BY NatLessThanWellFounded, WFMin
<1>2. \A y \in T : ~ (y < x)
  BY <1>1 DEF OpToRel
<1> QED BY <1>2

\* A finite sequence of numbers has a largest, and the first of these.
LEMMA FirstLargestExists ==
    ASSUME NEW n \in Nat \ {0}, NEW f \in [1 .. n -> Nat]
    PROVE  \E i \in 1 .. n : \A j \in 1 .. n : f[j] < f[i] \/ (f[j] = f[i] /\ i <= j)
<1> DEFINE T == {k \in 1 .. n : \A i \in 1 .. k : \E j \in 1 .. k : f[i] < f[j]}
<1>0. /\ T \in SUBSET Nat /\ T \subseteq 1 .. n
      /\ \A k \in 1 .. n : k \in T <=> \A i \in 1 .. k : \E j \in 1 .. k : f[i] < f[j]
      /\ \A k \in 1 .. n : f[k] \in Nat
  OBVIOUS
<1> HIDE DEF T
<1>1. \E i \in 1 .. n : \A j \in 1 .. n : f[j] <= f[i]
  <2>1. ASSUME T # {} PROVE FALSE
    <3>1. PICK k \in T : \A y \in T : k <= y
      BY <1>0, <2>1, LeastExists
    <3>2. k \in 1 .. n /\ \A i \in 1 .. k : \E j \in 1 .. k : f[i] < f[j]
      BY <1>0, <3>1
    <3>3. k # 1
      <4>1. SUFFICES ASSUME k = 1 PROVE FALSE
        OBVIOUS
      <4>2. f[1] < f[1]
        BY <3>2, <4>1
      <4> QED BY <1>0, <4>2
    <3>4. k - 1 \in 1 .. n
      BY <3>2, <3>3
    <3>5. k - 1 \notin T
      BY <3>1, <3>2
    <3>6. PICK i \in 1 .. k - 1 : \A j \in 1 .. k - 1 : ~ (f[i] < f[j])
      BY <1>0, <3>4, <3>5
    <3>7. i \in 1 .. k /\ k \in 1 .. k /\ \A j \in 1 .. k : j = k \/ j \in 1 .. k - 1
      BY <3>2, <3>6
    <3>8. f[i] < f[k]
      BY <3>2, <3>6, <3>7
    <3>9. PICK j \in 1 .. k : f[k] < f[j]
      BY <3>2, <3>7
    <3>10. f[i] \in Nat /\ f[j] \in Nat /\ f[k] \in Nat
      BY <1>0, <3>2, <3>7
    <3>11. ~ (f[i] < f[j]) \/ j = k
      BY <3>6, <3>7
    <3> QED BY <3>8, <3>9, <3>10, <3>11
  <2>2. n \in 1 .. n /\ n \notin T
    BY <2>1
  <2>3. PICK i \in 1 .. n : \A j \in 1 .. n : ~ (f[i] < f[j])
    BY <1>0, <2>2
  <2>4. \A j \in 1 .. n : f[j] <= f[i]
    BY <1>0, <2>3
  <2> QED BY <2>3, <2>4
<1>2. PICK m \in 1 .. n : \A j \in 1 .. n : f[j] <= f[m]
  BY <1>1
<1> DEFINE U == {i \in 1 .. n : f[i] = f[m]}
<1>3. PICK i \in U : \A y \in U : i <= y
  <2>1. U \in SUBSET Nat /\ U # {}
    OBVIOUS
  <2> HIDE DEF U
  <2> QED BY <2>1, LeastExists
<1>4. ASSUME NEW j \in 1 .. n PROVE f[j] < f[i] \/ (f[j] = f[i] /\ i <= j)
  BY <1>2, <1>3
<1> QED BY <1>3, <1>4

RowOK(row) ==
    /\ IsSequence(row.lists) /\ \A l \in Range_(row.lists) : IsSequence(l)
    /\ IsSequence(row.messages)
    /\ \A k \in DOMAIN row.messages :
           row.messages[k].role = "assistant" => IsTurn(row.messages[k].says)

\* A row is eligible if a tool is offered.
LEMMA EligibleOffersATool ==
    ASSUME NEW row, RowOK(row)
    PROVE  StratumOf(row) # "ineligible" <=> \E l \in Range_(row.lists) : l # <<>>
<1>1. CASE row.lists = <<>>
  BY <1>1 DEF StratumOf, Range_
<1>2. CASE row.lists # <<>>
  <2> DEFINE n == Len(row.lists)
             f == [i \in 1 .. n |-> Len(row.lists[i])]
  <2>1. /\ n \in Nat \ {0} /\ DOMAIN row.lists = 1 .. n
        /\ \A i \in 1 .. n : /\ Len(row.lists[i]) \in Nat
                              /\ row.lists[i] \in Seq(Range_(row.lists[i]))
    <3>1. row.lists \in Seq(Range_(row.lists))
      BY DEF RowOK, IsSequence
    <3>2. n \in Nat \ {0} /\ DOMAIN row.lists = 1 .. n
      BY <1>2, <3>1
    <3>3. ASSUME NEW i \in 1 .. n
          PROVE  Len(row.lists[i]) \in Nat /\ row.lists[i] \in Seq(Range_(row.lists[i]))
      <4>1. row.lists[i] \in Range_(row.lists)
        BY <3>2 DEF Range_
      <4>2. row.lists[i] \in Seq(Range_(row.lists[i]))
        BY <4>1 DEF RowOK, IsSequence
      <4> QED BY <4>2
    <3> QED BY <3>2, <3>3
  <2>2. \E i \in 1 .. n : \A j \in 1 .. n : f[j] < f[i] \/ (f[j] = f[i] /\ i <= j)
    <3>1. f \in [1 .. n -> Nat]
      BY <2>1
    <3> HIDE DEF f
    <3> QED BY <2>1, <3>1, FirstLargestExists
  <2>3. \E i \in DOMAIN row.lists : \A j \in DOMAIN row.lists :
            \/ Len(row.lists[j]) < Len(row.lists[i])
            \/ Len(row.lists[j]) = Len(row.lists[i]) /\ i <= j
    BY <2>1, <2>2
  <2>4. PICK i \in 1 .. n : /\ Longest(row) = row.lists[i]
                           /\ \A j \in 1 .. n : Len(row.lists[j]) <= Len(row.lists[i])
    <3> DEFINE First(i) == \A j \in DOMAIN row.lists :
                               \/ Len(row.lists[j]) < Len(row.lists[i])
                               \/ Len(row.lists[j]) = Len(row.lists[i]) /\ i <= j
               c == CHOOSE i \in DOMAIN row.lists : First(i)
    <3>1. c \in DOMAIN row.lists /\ First(c)
      <4> HIDE DEF First
      <4> QED BY <2>3 DEF First
    <3>2. Longest(row) = row.lists[c]
      BY DEF Longest
    <3> HIDE DEF c
    <3>3. \A j \in 1 .. n : Len(row.lists[j]) <= Len(row.lists[c])
      BY <2>1, <3>1
    <3> QED BY <2>1, <3>1, <3>2, <3>3
  <2>5. \A j \in 1 .. n : row.lists[j] = <<>> <=> Len(row.lists[j]) = 0
    BY <2>1
  <2>6. StratumOf(row) = "ineligible" <=> Len(row.lists[i]) = 0
    BY <1>2, <2>4 DEF StratumOf
  <2>7. (\E l \in Range_(row.lists) : l # <<>>) <=> \E j \in 1 .. n : row.lists[j] # <<>>
    BY <2>1 DEF Range_
  <2> QED BY <2>1, <2>4, <2>5, <2>6, <2>7
<1> QED BY <1>1, <1>2

IsFirst(row, i) ==
    /\ i \in DOMAIN row.messages /\ row.messages[i].role = "assistant"
    /\ \A j \in 1 .. (i - 1) : row.messages[j].role # "assistant"

\* The prompt is split where an assistant speaks first, if any does.
LEMMA FirstAssistantIsFirst ==
    ASSUME NEW row, RowOK(row)
    PROVE  /\ FirstAssistant(row) \in DOMAIN row.messages => IsFirst(row, FirstAssistant(row))
           /\ \A i : IsFirst(row, i) => FirstAssistant(row) = i
<1> DEFINE n == Len(row.messages)
           at == {i \in DOMAIN row.messages : row.messages[i].role = "assistant"}
<1>1. n \in Nat /\ DOMAIN row.messages = 1 .. n
  BY DEF RowOK, IsSequence
<1>2. at \in SUBSET Nat
  BY <1>1
<1>3. CASE at = {}
  <2>1. FirstAssistant(row) = n + 1
    BY <1>3 DEF FirstAssistant
  <2>2. \A i : ~ IsFirst(row, i)
    BY <1>3 DEF IsFirst
  <2> QED BY <1>1, <2>1, <2>2
<1>4. CASE at # {}
  <2>1. \E i \in at : \A j \in at : i <= j
    <3> HIDE DEF at
    <3> QED BY <1>2, <1>4, LeastExists
  <2> DEFINE c == CHOOSE i \in at : \A j \in at : i <= j
  <2>2. FirstAssistant(row) = c
    BY <1>4 DEF FirstAssistant
  <2>3. c \in at /\ \A j \in at : c <= j
    <3> HIDE DEF at
    <3> QED BY <2>1
  <2> HIDE DEF c
  <2>4. IsFirst(row, c)
    BY <1>1, <2>3 DEF IsFirst
  <2>5. ASSUME NEW i, IsFirst(row, i) PROVE i = c
    <3>1. i \in at /\ i \in Nat /\ c \in 1 .. n
      BY <1>1, <2>3, <2>5 DEF IsFirst
    <3>2. c <= i
      BY <2>3, <3>1
    <3>3. ~ (c < i)
      <4>1. SUFFICES ASSUME c < i PROVE FALSE
        OBVIOUS
      <4>2. c \in 1 .. (i - 1)
        BY <3>1, <4>1
      <4> QED BY <2>3, <2>5, <4>2 DEF IsFirst
    <3> QED BY <3>1, <3>2, <3>3
  <2> QED BY <2>2, <2>4, <2>5
<1> QED BY <1>3, <1>4

\* Prose is read as prose, and calls nothing.
LEMMA ProseIsProse ==
    ASSUME NEW t, IsTurn(t), t.form = "prose"
    PROVE  /\ ClassifyTarget(t).kind # "unreadable" /\ ClassifyTarget(t).names = {}
           /\ Meaning(t)[1] # "nothing" /\ Names(CallsOf(t)) = {}
<1>1. ClassifyTarget(t) = [kind |-> "no_call", names |-> {}]
  BY DEF ClassifyTarget
<1>2. Meaning(t) = <<"prose", {}>>
  BY DEF Meaning
<1>3. DOMAIN t.blocks = {}
  BY EmptySeq DEF IsTurn, IsSequence
<1>4. Names(CallsOf(t)) = {}
  BY <1>3 DEF Names, CallsOf
<1>5. /\ ClassifyTarget(t).kind = "no_call" /\ ClassifyTarget(t).names = {}
      /\ Meaning(t)[1] = "prose"
  BY <1>1, <1>2
<1> QED BY <1>4, <1>5

\* A turn that calls only names that are not empty is read as what it means.
LEMMA ClassifyIsMeaning ==
    ASSUME NEW t, IsTurn(t), NEW names, "" \notin names
    PROVE  ClassifyTarget(t).kind # "unreadable" /\ ClassifyTarget(t).names \subseteq names
             <=> Meaning(t)[1] # "nothing" /\ Names(CallsOf(t)) \subseteq names
<1> DEFINE bs == t.blocks
           called == {bs[i].name : i \in DOMAIN bs}
<1>1. /\ t.form \in {"empty", "prose", "tagged", "bare"}
      /\ t.form \in {"empty", "prose"} => bs = <<>>
      /\ \A i \in DOMAIN bs : bs[i].parses \in {"json", "python", "no"}
  BY DEF IsTurn, Range_
<1>2. Names(CallsOf(t)) = called
  BY DEF Names, CallsOf
<1>3. CASE t.form = "prose"
  BY <1>3, ProseIsProse
<1>4. CASE t.form # "prose"
  <2> DEFINE readable == /\ ~ t.broken /\ bs # <<>>
                         /\ \A i \in DOMAIN bs : IF t.form = "tagged" THEN NamedBlock(bs[i])
                                                                    ELSE NamedMember(bs[i])
             clear == /\ ~ t.broken /\ bs # <<>>
                      /\ \A i \in DOMAIN bs : Intelligible(t, bs[i])
  <2>1. /\ ClassifyTarget(t).kind # "unreadable" <=> t.form # "empty" /\ readable
        /\ t.form # "empty" /\ readable => ClassifyTarget(t).names = called
    <3>1. readable <=>
            /\ ~ t.broken /\ t.blocks # <<>>
            /\ \A b \in Range_(t.blocks) : IF t.form = "tagged" THEN NamedBlock(b)
                                                              ELSE NamedMember(b)
      BY DEF Range_
    <3> HIDE DEF readable
    <3> QED BY <1>2, <1>4, <3>1 DEF ClassifyTarget
  <2>2. Meaning(t)[1] # "nothing" <=> t.form # "empty" /\ clear
    <3>1. (\E b \in Range_(t.blocks) : ~ Intelligible(t, b))
            <=> \E i \in DOMAIN bs : ~ Intelligible(t, bs[i])
      BY DEF Range_
    <3>2. clear <=> ~ (t.broken \/ bs = <<>> \/ \E i \in DOMAIN bs : ~ Intelligible(t, bs[i]))
      OBVIOUS
    <3> HIDE DEF clear
    <3> QED BY <1>4, <3>1, <3>2 DEF Meaning
  <2>3. ASSUME called \subseteq names, t.form # "empty"
        PROVE  readable <=> clear
    <3>1. \A i \in DOMAIN bs : bs[i].name # ""
      BY <2>3
    <3>2. \A i \in DOMAIN bs :
            (IF t.form = "tagged" THEN NamedBlock(bs[i]) ELSE NamedMember(bs[i]))
                <=> Intelligible(t, bs[i])
      BY <1>1, <1>4, <2>3, <3>1 DEF NamedBlock, NamedMember, Intelligible
    <3> QED BY <3>2
  <2> HIDE DEF readable, clear
  <2> QED BY <1>2, <2>1, <2>2, <2>3
<1> QED BY <1>3, <1>4

\* No tool has an empty name.
ToolsAreNamed ==
    \A v \in DOMAIN Rows : \A i \in DOMAIN Rows[v] : "" \notin PresentedNames(Rows[v][i])

\* A pool without defects is screened to what may be mined.
LEMMA ScreenedIsPopulation ==
    ASSUME PoolRowsAssumption, ToolsAreNamed,
           NEW pool \in DOMAIN Rows, NEW manifest \in DOMAIN Manifests, Defects[pool] = {}
    PROVE  Screened[pool][manifest] = Population[pool][manifest]
<1> SUFFICES ASSUME NEW i \in DOMAIN Rows[pool]
             PROVE  i \in Screened[pool][manifest] <=> i \in Population[pool][manifest]
  BY DEF Screened, Population, Retained
<1> DEFINE row == Rows[pool][i]
           turn == TargetOf(row)
<1>1. RowOK(row)
  BY DEF PoolRowsAssumption, RowOK
<1>2. i \in Retained[pool] <=> /\ StratumOf(row) # "ineligible"
                              /\ ClassifyTarget(turn).kind # "unreadable"
  BY DEF Retained, Ineligible, Unreadable
<1>3. i \in Retained[pool] => ClassifyTarget(turn).names \subseteq PresentedNames(row)
  BY DEF Defects
<1>4. Contaminated(row, manifest) <=>
        ~ \A spec \in Specs(manifest) :
              /\ row.grams \cap Questions[spec.sha].grams = {}
              /\ PresentedNames(row) \cap Questions[spec.sha].names = {}
  BY DEF Contaminated, Grams, QuestionNames
<1>5. (\E k \in DOMAIN row.messages :
          /\ row.messages[k].role = "assistant"
          /\ \A j \in 1 .. (k - 1) : row.messages[j].role # "assistant"
          /\ Meaning(row.messages[k].says)[1] # "nothing"
          /\ Names(CallsOf(row.messages[k].says)) \subseteq PresentedNames(row))
        <=> /\ ClassifyTarget(turn).kind # "unreadable"
            /\ ClassifyTarget(turn).names \subseteq PresentedNames(row)
  <2> DEFINE f == FirstAssistant(row)
  <2>1. CASE f \in DOMAIN row.messages
    <3>1. IsFirst(row, f) /\ \A k : IsFirst(row, k) => k = f
      BY <1>1, <2>1, FirstAssistantIsFirst
    <3>2. turn = row.messages[f].says /\ IsTurn(turn)
      BY <1>1, <2>1, <3>1 DEF TargetOf, IsFirst, RowOK
    <3>3. "" \notin PresentedNames(row)
      BY DEF ToolsAreNamed
    <3>4. ClassifyTarget(turn).kind # "unreadable"
              /\ ClassifyTarget(turn).names \subseteq PresentedNames(row)
            <=> /\ Meaning(turn)[1] # "nothing"
                /\ Names(CallsOf(turn)) \subseteq PresentedNames(row)
      BY <3>2, <3>3, ClassifyIsMeaning
    <3> HIDE DEF f, turn
    <3> QED BY <3>1, <3>2, <3>4 DEF IsFirst
  <2>2. CASE f \notin DOMAIN row.messages
    <3>1. \A k : ~ IsFirst(row, k)
      BY <1>1, <2>2, FirstAssistantIsFirst DEF IsFirst
    <3>2. turn = Silence
      BY <2>2 DEF TargetOf
    <3>3. ClassifyTarget(turn).kind = "unreadable"
      BY <3>2 DEF ClassifyTarget, Silence
    <3> QED BY <3>1, <3>3 DEF IsFirst
  <2> QED BY <2>1, <2>2
<1>6. Minable(row, manifest) <=> i \in Retained[pool] /\ ~ Contaminated(row, manifest)
  <2>1. StratumOf(row) # "ineligible" <=> \E l \in Range_(row.lists) : l # <<>>
    BY <1>1, EligibleOffersATool
  <2> QED BY <1>2, <1>3, <1>4, <1>5, <2>1 DEF Minable
<1>7. /\ i \in Screened[pool][manifest]
            <=> i \in Retained[pool] /\ ~ Contaminated(row, manifest)
      /\ i \in Population[pool][manifest] <=> Minable(row, manifest)
  BY DEF Screened, Population
<1> QED BY <1>6, <1>7

\* The artifact holds what its pool and its manifest give.
FaithfulArtifact(a) ==
    /\ a.pool \in DOMAIN Rows /\ a.manifest \in DOMAIN Manifests
    /\ a.ids = Ids(a.pool, Screened[a.pool][a.manifest])

PoolTypeInv ==
    /\ DOMAIN inputs = DOMAIN Versions /\ \A f \in DOMAIN Versions : inputs[f] \in Versions[f]
    /\ slips \in 0 .. MaxSlips /\ DOMAIN job = {"cmd", "pool", "receipt", "rows"}

\* A command has the pool it started on; the screen of one that met no edit is
\* that of the manifest there still is.
JobInv ==
    /\ job.cmd \in {"build", "write"} => job.pool \in DOMAIN Rows
    /\ job.cmd = "write" /\ slips = 0 => job.rows = Screened[job.pool][inputs["manifest"]]

\* Without an edit under a command, an artifact is faithful.
ArtifactInv == slips = 0 /\ Whole(artifact) => FaithfulArtifact(artifact)

\* A stage that passed the pins derives from the pinned manifest, or has a
\* faithful artifact to hold the result against: one edit defeats one of them.
LoadInv ==
    job.cmd = "load" =>
        /\ job.pool = pins.pool
        /\ pins.pool \in DOMAIN Rows /\ pins.manifest \in DOMAIN Manifests
        /\ pins.artifact.pool = pins.pool /\ pins.artifact.manifest = pins.manifest
        /\ slips = 0 => /\ inputs["manifest"] = pins.manifest
                        /\ FaithfulArtifact(pins.artifact)
        /\ inputs["manifest"] = pins.manifest \/ FaithfulArtifact(pins.artifact)

PoolInv == PoolTypeInv /\ JobInv /\ ArtifactInv /\ LoadInv /\ MinedIsScreened

LEMMA PoolInitInv == ASSUME PoolAssumption PROVE PoolInit => PoolInv
BY DEF PoolAssumption, PoolInit, PoolInv, PoolTypeInv, JobInv, ArtifactInv, LoadInv,
       MinedIsScreened, Idle, Whole

\* Rows with the ids of others are those others.
LEMMA IdsTellRows ==
    ASSUME PoolRowsAssumption, NEW pool \in DOMAIN Rows,
           NEW R \in SUBSET DOMAIN Rows[pool], NEW S \in SUBSET DOMAIN Rows[pool],
           Ids(pool, R) = Ids(pool, S)
    PROVE  R = S
<1>1. ASSUME NEW i \in R PROVE i \in S
  <2>1. PICK j \in S : Rows[pool][j].id = Rows[pool][i].id
    BY DEF Ids
  <2>2. i = j
    BY <2>1 DEF PoolRowsAssumption
  <2> QED BY <2>1, <2>2
<1>2. ASSUME NEW i \in S PROVE i \in R
  <2>1. PICK j \in R : Rows[pool][j].id = Rows[pool][i].id
    BY DEF Ids
  <2>2. i = j
    BY <2>1 DEF PoolRowsAssumption
  <2> QED BY <2>1, <2>2
<1> QED BY <1>1, <1>2

LEMMA PoolNextInv ==
    ASSUME PoolAssumption, PoolRowsAssumption, ToolsAreNamed, MaxSlips <= 1
    PROVE  PoolInv /\ [PoolNext]_PoolVars => PoolInv'
<1> SUFFICES ASSUME PoolInv, [PoolNext]_PoolVars PROVE PoolInv'
  OBVIOUS
<1>0. /\ slips \in {0, 1} /\ MaxSlips \in {0, 1}
      /\ inputs["pool"] \in DOMAIN Rows /\ inputs["manifest"] \in DOMAIN Manifests
  BY DEF PoolInv, PoolTypeInv, PoolAssumption
<1>1. ASSUME NEW f \in DOMAIN Versions, Edit(f) PROVE PoolInv'
  <2>1. PICK v \in Versions[f] : inputs' = [inputs EXCEPT ![f] = v]
    BY <1>1 DEF Edit
  <2>2. /\ DOMAIN inputs' = DOMAIN Versions
        /\ \A g \in DOMAIN Versions : inputs'[g] \in Versions[g]
    BY <2>1 DEF PoolInv, PoolTypeInv
  <2>3. CASE job = Idle
    <3>1. job'.cmd = "none" /\ slips' = slips
      BY <1>1, <2>3 DEF Edit, Idle
    <3> QED BY <1>1, <2>2, <3>1 DEF Edit, PoolInv, PoolTypeInv, JobInv, ArtifactInv, LoadInv,
                                    MinedIsScreened
  <2>4. CASE job # Idle
    <3>1. slips = 0 /\ slips' = 1 /\ MaxSlips = 1
      BY <1>0, <1>1, <2>4 DEF Edit
    <3> QED BY <1>1, <2>2, <3>1 DEF Edit, PoolInv, PoolTypeInv, JobInv, ArtifactInv, LoadInv,
                                    MinedIsScreened
  <2> QED BY <2>3, <2>4
<1>2. CASE TargetPreflight
  BY <1>2 DEF TargetPreflight, PoolInv, PoolTypeInv, JobInv, ArtifactInv, LoadInv,
              MinedIsScreened
<1>3. CASE BuildStart
  <2>1. job'.cmd = "build" /\ job'.pool = inputs["pool"]
    BY <1>3 DEF BuildStart
  <2> QED BY <1>0, <1>3, <2>1 DEF BuildStart, PoolInv, PoolTypeInv, JobInv, ArtifactInv,
                                  LoadInv, MinedIsScreened
<1>4. CASE BuildScreen
  <2>1. CASE job' = Idle
    BY <1>4, <2>1 DEF BuildScreen, Idle, PoolInv, PoolTypeInv, JobInv, ArtifactInv, LoadInv,
                      MinedIsScreened
  <2>2. CASE job' = [job EXCEPT !.cmd = "write",
                               !.rows = Screened[job.pool][inputs["manifest"]]]
    <3>1. job.pool \in DOMAIN Rows
      BY <1>4 DEF BuildScreen, PoolInv, JobInv
    <3>2. job'.cmd = "write" /\ job'.pool = job.pool
      BY <1>4, <2>2 DEF BuildScreen, PoolInv, PoolTypeInv
    <3>3. job'.rows = Screened[job.pool][inputs["manifest"]]
      BY <1>4, <2>2 DEF PoolInv, PoolTypeInv
    <3>4. UNCHANGED <<inputs, receipt, artifact, pins, mined, slips>>
      BY <1>4 DEF BuildScreen
    <3>5. PoolTypeInv' /\ ArtifactInv' /\ MinedIsScreened'
      BY <2>2, <3>4 DEF PoolInv, PoolTypeInv, ArtifactInv, MinedIsScreened
    <3>6. JobInv'
      BY <3>1, <3>2, <3>3, <3>4 DEF JobInv
    <3>7. LoadInv'
      BY <3>2 DEF LoadInv
    <3> QED BY <3>5, <3>6, <3>7 DEF PoolInv
  <2> QED BY <1>4, <2>1, <2>2 DEF BuildScreen
<1>5. CASE BuildWrite
  <2>1. /\ job'.cmd = "none" /\ DOMAIN job' = {"cmd", "pool", "receipt", "rows"}
        /\ job.pool \in DOMAIN Rows
    BY <1>5 DEF BuildWrite, Idle, PoolInv, JobInv
  <2>2. ArtifactInv'
    <3>1. CASE UNCHANGED artifact
      BY <1>5, <3>1 DEF BuildWrite, PoolInv, ArtifactInv
    <3>2. CASE artifact' = HalfWritten
      BY <3>2 DEF ArtifactInv, Whole
    <3>3. CASE artifact' = [pool |-> job.pool, manifest |-> inputs["manifest"],
                            receipt |-> job.receipt, ids |-> Ids(job.pool, job.rows),
                            multi |-> InStratum(job.pool, job.rows, "multi"),
                            single |-> InStratum(job.pool, job.rows, "single")]
      <4>1. slips' = slips /\ (slips = 0 => job.rows = Screened[job.pool][inputs["manifest"]])
        BY <1>5 DEF BuildWrite, PoolInv, JobInv
      <4>2. /\ artifact'.pool = job.pool /\ artifact'.manifest = inputs["manifest"]
            /\ artifact'.ids = Ids(job.pool, job.rows)
        BY <3>3
      <4> QED BY <1>0, <2>1, <4>1, <4>2 DEF ArtifactInv, FaithfulArtifact
    <3> QED BY <1>5, <3>1, <3>2, <3>3 DEF BuildWrite
  <2> QED BY <1>5, <2>1, <2>2 DEF BuildWrite, PoolInv, PoolTypeInv, JobInv, LoadInv,
                                  MinedIsScreened
<1>6. CASE Pin
  <2>1. job.cmd = "none"
    BY <1>6 DEF Pin, Idle
  <2> QED BY <1>6, <2>1 DEF Pin, PoolInv, PoolTypeInv, JobInv, ArtifactInv, LoadInv,
                            MinedIsScreened
<1>7. CASE LoadVerify
  <2>1. /\ job'.cmd = "load" /\ job'.pool = pins.pool
        /\ pins.pool \in DOMAIN Rows /\ pins.manifest \in DOMAIN Manifests
        /\ inputs["manifest"] = pins.manifest
        /\ pins.artifact.pool = pins.pool /\ pins.artifact.manifest = pins.manifest
    BY <1>0, <1>7 DEF LoadVerify
  <2>2. slips = 0 => FaithfulArtifact(pins.artifact)
    BY <1>7 DEF LoadVerify, PoolInv, ArtifactInv
  <2>3. LoadInv'
    BY <1>7, <2>1, <2>2 DEF LoadVerify, LoadInv
  <2> QED BY <1>7, <2>1, <2>3 DEF LoadVerify, PoolInv, PoolTypeInv, JobInv, ArtifactInv,
                                  MinedIsScreened
<1>8. CASE LoadScreen
  <2> DEFINE rows == Screened[job.pool][inputs["manifest"]]
  <2>1. job'.cmd = "none" /\ DOMAIN job' = {"cmd", "pool", "receipt", "rows"}
    BY <1>8 DEF LoadScreen, Idle
  <2>2. /\ job.pool = pins.pool
        /\ pins.pool \in DOMAIN Rows /\ pins.manifest \in DOMAIN Manifests
        /\ pins.artifact.pool = pins.pool /\ pins.artifact.manifest = pins.manifest
        /\ inputs["manifest"] = pins.manifest \/ FaithfulArtifact(pins.artifact)
    BY <1>8 DEF LoadScreen, PoolInv, LoadInv
  <2>3. ASSUME Defects[job.pool] = {}, Agrees(rows)
        PROVE  rows = Population[pins.pool][pins.manifest]
    <3>1. Screened[pins.pool][pins.manifest] = Population[pins.pool][pins.manifest]
      BY <2>2, <2>3, ScreenedIsPopulation
    <3>2. CASE inputs["manifest"] = pins.manifest
      BY <2>2, <3>1, <3>2
    <3>3. CASE FaithfulArtifact(pins.artifact)
      <4>1. Ids(pins.pool, rows) = Ids(pins.pool, Screened[pins.pool][pins.manifest])
        BY <2>2, <2>3, <3>3 DEF Agrees, FaithfulArtifact
      <4>2. \A m \in DOMAIN Manifests : Screened[pins.pool][m] \subseteq DOMAIN Rows[pins.pool]
        BY <2>2 DEF Screened, Retained
      <4>3. rows \in SUBSET DOMAIN Rows[pins.pool]
        BY <1>0, <2>2, <4>2
      <4> QED BY <2>2, <3>1, <4>1, <4>2, <4>3, IdsTellRows
    <3> QED BY <2>2, <3>2, <3>3
  <2>4. MinedIsScreened'
    <3>1. CASE UNCHANGED mined
      BY <3>1 DEF PoolInv, MinedIsScreened
    <3>2. CASE /\ Defects[job.pool] = {} /\ Agrees(rows)
               /\ mined' = mined \cup {[pool |-> pins.pool, manifest |-> pins.manifest,
                                       rows |-> rows]}
      <4>1. rows = Population[pins.pool][pins.manifest]
        BY <2>3, <3>2
      <4> HIDE DEF rows
      <4> QED BY <3>2, <4>1 DEF PoolInv, MinedIsScreened
    <3> QED BY <1>8, <3>1, <3>2 DEF LoadScreen
  <2> QED BY <1>8, <2>1, <2>4 DEF LoadScreen, PoolInv, PoolTypeInv, JobInv, ArtifactInv,
                                  LoadInv
<1>9. CASE UNCHANGED PoolVars
  BY <1>9 DEF PoolVars, PoolInv, PoolTypeInv, JobInv, ArtifactInv, LoadInv, MinedIsScreened
<1> QED BY <1>1, <1>2, <1>3, <1>4, <1>5, <1>6, <1>7, <1>8, <1>9 DEF PoolNext

\* For any pools, manifests and questions, what a stage mines is what may be mined
\* from the pinned pool under the pinned manifest, if at most one file is edited
\* under a running command and no tool has an empty name.
THEOREM OnlyTheScreenedAreMined ==
    ASSUME PoolAssumption, PoolRowsAssumption, ToolsAreNamed, MaxSlips <= 1
    PROVE  PoolSpec => []MinedIsScreened
<1>1. PoolInv => MinedIsScreened
  BY DEF PoolInv
<1> QED BY PoolInitInv, PoolNextInv, <1>1, PTL DEF PoolSpec

-----------------------------------------------------------------------------
(* Part 2: the answer key.  First, what it takes for build_report not to     *)
(* raise; then the run.                                                      *)

\* The arguments an entry accepts are those it orders.
Ordered(entry) == DOMAIN entry.accepts = {entry.order[a] : a \in DOMAIN entry.order}

\* The scorer and the reference agree on what is right.
LEMMA ScoreIsCorrect ==
    ASSUME NEW parsed, NEW entry, Ordered(entry)
    PROVE  Score(parsed, entry).ok <=> Correct(parsed, entry)
<1> DEFINE named == parsed.name = entry.name
           missing(i) == /\ entry.order[i] \notin DOMAIN parsed.args
                         /\ Optional \notin entry.accepts[entry.order[i]]
           rejected(i) == /\ entry.order[i] \in DOMAIN parsed.args
                         /\ ~ Accepts(entry, entry.order[i], parsed.args[entry.order[i]])
           wrong == {i \in DOMAIN entry.order : missing(i) \/ rejected(i)}
           known == DOMAIN parsed.args \subseteq DOMAIN entry.accepts
<1>1. Score(parsed, entry).ok <=> parsed.shape = "call" /\ known /\ wrong = {} /\ named
  <2>1. CASE parsed.shape # "call"
    BY <2>1 DEF Score, Unusable, Outcome
  <2>2. CASE parsed.shape = "call" /\ ~ known
    BY <2>2 DEF Score, Outcome
  <2>3. CASE parsed.shape = "call" /\ known /\ wrong # {}
    BY <2>3 DEF Score, Outcome
  <2>4. CASE parsed.shape = "call" /\ known /\ wrong = {}
    BY <2>4 DEF Score, Outcome
  <2> QED BY <2>1, <2>2, <2>3, <2>4
<1>2. ASSUME known
      PROVE  wrong = {} <=>
                /\ \A a \in DOMAIN parsed.args : Accepts(entry, a, parsed.args[a])
                /\ \A a \in DOMAIN entry.accepts \ DOMAIN parsed.args :
                       Optional \in entry.accepts[a]
  <2>1. \A a : a \in DOMAIN entry.accepts <=> \E i \in DOMAIN entry.order : a = entry.order[i]
    BY DEF Ordered
  <2>2. wrong = {} <=> \A i \in DOMAIN entry.order : ~ missing(i) /\ ~ rejected(i)
    OBVIOUS
  <2> HIDE DEF wrong
  <2> QED BY <1>2, <2>1, <2>2
<1> HIDE DEF wrong
<1> QED BY <1>1, <1>2 DEF Correct

\* A key whose items expect one call each, in order.
Scorable(key) ==
    /\ OneCall(key)
    /\ \A i \in DOMAIN key : Ordered(key[i].entries[1])

LEMMA RowIsThere ==
    ASSUME NEW rows, NEW id \in IdsOf(rows)
    PROVE  \E i \in DOMAIN rows : rows[i].id = id /\ RowOf(rows, id) = rows[i]
BY DEF IdsOf, RowOf

LEMMA KeysAreScorable ==
    ASSUME KeyChoiceAssumption, NEW v \in DOMAIN KeyFiles, OneCall(KeyFiles[v])
    PROVE  Scorable(KeyFiles[v])
<1> SUFFICES ASSUME NEW i \in DOMAIN KeyFiles[v]
             PROVE  Ordered(KeyFiles[v][i].entries[1])
  BY DEF Scorable
<1> DEFINE entries == KeyFiles[v][i].entries
<1>1. Len(entries) = 1
  BY DEF OneCall
<1>2. 1 \in DOMAIN entries
  BY <1>1 DEF KeyChoiceAssumption, IsTable
<1> QED BY <1>2 DEF KeyChoiceAssumption, Ordered

\* Of a sweep that covers the key, what passes under it is what is right.
LEMMA PassesAreRight ==
    ASSUME NEW rows, NEW key, Scorable(key), Covers(rows, key), NEW c \in Expected
    PROVE  Passes(rows, key, c) = Right(rows, key, c)
<1>1. \A i \in DOMAIN rows : rows[i].id \in IdsOf(key)
  <2> SUFFICES ASSUME NEW i \in DOMAIN rows PROVE rows[i].id \in IdsOf(key)
    OBVIOUS
  <2>1. <<rows[i].model, rows[i].id>> \in Expected \X IdsOf(key)
    BY DEF Covers
  <2> QED BY <2>1
<1>2. \A i \in DOMAIN rows :
        Under(key, rows[i]).ok <=> Correct(rows[i].parsed, RowOf(key, rows[i].id).entries[1])
  <2> SUFFICES ASSUME NEW i \in DOMAIN rows
               PROVE  Under(key, rows[i]).ok
                        <=> Correct(rows[i].parsed, RowOf(key, rows[i].id).entries[1])
    OBVIOUS
  <2>1. PICK k \in DOMAIN key : RowOf(key, rows[i].id) = key[k]
    BY <1>1, RowIsThere
  <2>2. Ordered(RowOf(key, rows[i].id).entries[1])
    BY <2>1 DEF Scorable
  <2> QED BY <2>2, ScoreIsCorrect DEF Under
<1>3. ASSUME NEW id PROVE id \in Passes(rows, key, c) <=> id \in Right(rows, key, c)
  BY <1>1, <1>2 DEF Passes, Right
<1> QED BY <1>3

\* A sweep that covers a key has a row for every candidate and item, and no more.
LEMMA CoveringIsComplete ==
    ASSUME NEW rows, NEW key, IsTable(rows), IsTable(key), IsFiniteSet(Expected),
           Covers(rows, key)
    PROVE  Len(rows) = Cardinality(Expected) * Cardinality(IdsOf(key))
<1> DEFINE f == [i \in 1 .. Len(rows) |-> <<rows[i].model, rows[i].id>>]
           g == [i \in 1 .. Len(key) |-> key[i].id]
<1>1. IsFiniteSet(IdsOf(key))
  <2>1. g \in Surjection(1 .. Len(key), IdsOf(key))
    BY DEF IsTable, IdsOf, Surjection
  <2>2. IsFiniteSet(1 .. Len(key))
    BY FS_Interval DEF IsTable
  <2> QED BY <2>1, <2>2, FS_Surjection
<1>2. f \in Bijection(1 .. Len(rows), Expected \X IdsOf(key))
  <2>1. f \in [1 .. Len(rows) -> Expected \X IdsOf(key)]
    BY DEF IsTable, Covers
  <2>2. \A i, j \in 1 .. Len(rows) : f[i] = f[j] => i = j
    BY DEF IsTable, Covers
  <2>3. \A x \in Expected \X IdsOf(key) : \E i \in 1 .. Len(rows) : f[i] = x
    BY DEF IsTable, Covers
  <2> HIDE DEF f
  <2> QED BY <2>1, <2>2, <2>3 DEF Bijection, Injection, Surjection, IsInjective
<1>3. Cardinality(Expected \X IdsOf(key)) = Cardinality(Expected) * Cardinality(IdsOf(key))
  BY <1>1, FS_Product
<1> HIDE DEF f, g
<1>4. Len(rows) \in Nat
  BY DEF IsTable
<1>5. Cardinality(1 .. Len(rows)) = Len(rows) /\ IsFiniteSet(1 .. Len(rows))
  <2>1. \A n \in Nat : Cardinality(1 .. n) = n /\ IsFiniteSet(1 .. n)
    BY FS_Interval
  <2> QED BY <1>4, <2>1
<1>6. ExistsBijection(1 .. Len(rows), Expected \X IdsOf(key))
  BY <1>2 DEF ExistsBijection
<1>7. Cardinality(1 .. Len(rows)) = Cardinality(Expected \X IdsOf(key))
  BY <1>5, <1>6, FS_Bijection
<1> QED BY <1>3, <1>5, <1>7

\* Where the keys differ in one item at most, and its answers are concordant under
\* each, no paired comparison depends on the key.
LEMMA NeutralChoice ==
    ASSUME NEW rows, NEW one, NEW other, Reference \in Expected,
           Scorable(one), Scorable(other), Covers(rows, one), Covers(rows, other),
           IdsOf(one) = IdsOf(other),
           \A id \in Differing(one, other) :
               Concordant(rows, one, id) /\ Concordant(rows, other, id)
    PROVE  SameComparisons(rows, one, other)
<1>1. ASSUME NEW c \in Expected, NEW id \in IdsOf(one), id \notin Differing(one, other)
      PROVE  id \in Passes(rows, one, c) <=> id \in Passes(rows, other, c)
  <2>1. RowOf(one, id).entries = RowOf(other, id).entries
    BY <1>1 DEF Differing
  <2>2. \A i \in DOMAIN rows : rows[i].id = id => Under(one, rows[i]) = Under(other, rows[i])
    BY <2>1 DEF Under
  <2> QED BY <2>2 DEF Passes
<1>2. ASSUME NEW c \in Expected, NEW id \in Differing(one, other)
      PROVE  /\ id \in Passes(rows, one, c) <=> id \in Passes(rows, one, Reference)
             /\ id \in Passes(rows, other, c) <=> id \in Passes(rows, other, Reference)
  BY <1>2 DEF Concordant
<1>3. \A c \in Expected : /\ Passes(rows, one, c) \subseteq IdsOf(one)
                         /\ Passes(rows, other, c) \subseteq IdsOf(one)
  <2>1. \A c \in Expected : /\ Right(rows, one, c) \subseteq IdsOf(one)
                           /\ Right(rows, other, c) \subseteq IdsOf(other)
    BY DEF Right
  <2> QED BY <2>1, PassesAreRight
<1>4. ASSUME NEW c \in Expected, NEW id
      PROVE  /\ id \in Passes(rows, one, Reference) \ Passes(rows, one, c)
                 <=> id \in Passes(rows, other, Reference) \ Passes(rows, other, c)
             /\ id \in Passes(rows, one, c) \ Passes(rows, one, Reference)
                 <=> id \in Passes(rows, other, c) \ Passes(rows, other, Reference)
  <2>1. CASE id \notin IdsOf(one)
    BY <2>1, <1>3
  <2>2. CASE id \in IdsOf(one) /\ id \notin Differing(one, other)
    BY <2>2, <1>1
  <2>3. CASE id \in Differing(one, other)
    BY <2>3, <1>2
  <2> QED BY <2>1, <2>2, <2>3
<1>5. \A c \in Expected :
        /\ Passes(rows, one, c) = Right(rows, one, c)
        /\ Passes(rows, other, c) = Right(rows, other, c)
  BY PassesAreRight
<1>6. ASSUME NEW c \in Expected
      PROVE  /\ Right(rows, one, Reference) \ Right(rows, one, c)
                   = Right(rows, other, Reference) \ Right(rows, other, c)
             /\ Right(rows, one, c) \ Right(rows, one, Reference)
                   = Right(rows, other, c) \ Right(rows, other, Reference)
  BY <1>4, <1>5
<1> QED BY <1>6 DEF SameComparisons

-----------------------------------------------------------------------------
(* Part 2: the report. *)

\* What is reported of a manifest and a sweep is so, however these were read.
LEMMA ReportedIsSupported ==
    ASSUME KeyChoiceAssumption, NEW v \in DOMAIN Manifest, NEW g \in DOMAIN Sweep,
           NEW r \in Reported[v][g]
    PROVE  /\ Facts[v][g].complete /\ Facts[v][g].neutral
           /\ Facts[v][g].sound = {r.selected}
           /\ Facts[v][g].scores = r.scores
<1> DEFINE m == Manifest[v]
           rows == Sweep[g]
           questions == QuestionFiles[m.questions]
           pinned == KeyFiles[m.pinned]
           release == KeyFiles[m.release]
           passed(key, c) == Cardinality(Passes(rows, key, c))
           right(key, c) == Cardinality(Right(rows, key, c))
<1>1. /\ Holds(m, questions, pinned, release, rows)
      /\ r = [selected |-> m.selected,
              scores |-> [c \in Expected |-> <<passed(pinned, c), passed(release, c)>>]]
  <2>1. r \in BuildReport(v, g)
    BY DEF Reported
  <2> QED BY <2>1 DEF BuildReport
<1>2. /\ Scorable(pinned) /\ Scorable(release)
      /\ Covers(rows, pinned) /\ Covers(rows, release)
      /\ IdsOf(pinned) = IdsOf(release) /\ IdsOf(questions) = IdsOf(pinned)
  <2>1. m.pinned \in DOMAIN KeyFiles /\ m.release \in DOMAIN KeyFiles
    BY DEF KeyChoiceAssumption
  <2>2. Covers(rows, pinned) /\ Covers(rows, release)
    BY <1>1 DEF Holds
  <2>3. OneCall(pinned) /\ OneCall(release)
    BY <2>2 DEF Covers
  <2>4. Scorable(pinned) /\ Scorable(release)
    BY <2>1, <2>3, KeysAreScorable
  <2>5. IdsOf(pinned) = IdsOf(release) /\ IdsOf(questions) = IdsOf(pinned)
    BY <1>1 DEF Holds, Comparable
  <2> QED BY <2>2, <2>4, <2>5
<1> DEFINE sound == {k \in {"pinned", "release"} :
                        KeyNamesPresented(questions, IF k = "pinned" THEN pinned ELSE release)}
<1>3. Facts[v][g] =
        [complete |-> Len(rows) = Cardinality(Expected) * Cardinality(IdsOf(questions)),
         neutral |-> SameComparisons(rows, pinned, release),
         sound |-> sound,
         scores |-> [c \in Expected |-> <<right(pinned, c), right(release, c)>>]]
  <2>1. Facts[v][g] = FactsOf(v, g)
    BY DEF Facts
  <2> QED BY <2>1 DEF FactsOf
<1>4. Len(rows) = Cardinality(Expected) * Cardinality(IdsOf(questions))
  <2>1. IsTable(rows) /\ IsTable(pinned) /\ IsFiniteSet(Expected)
    BY DEF KeyChoiceAssumption
  <2> QED BY <1>2, <2>1, CoveringIsComplete
<1>5. SameComparisons(rows, pinned, release)
  <2>1. \A id \in Differing(pinned, release) :
            Concordant(rows, pinned, id) /\ Concordant(rows, release, id)
    BY <1>1 DEF Holds, ChoiceIsNeutral
  <2>2. Reference \in Expected
    BY DEF KeyChoiceAssumption
  <2> QED BY <1>2, <2>1, <2>2, NeutralChoice
<1>6. sound = {m.selected}
  <2>1. /\ Selected(questions, pinned, release) # "undecided"
        /\ m.selected = Selected(questions, pinned, release)
    BY <1>1 DEF Holds, Adjudicated
  <2>2. Cardinality(sound) = 1 /\ m.selected = CHOOSE k \in sound : TRUE
    BY <2>1 DEF Selected
  <2>3. PICK k : sound = {k}
    <3>0. {"pinned", "release"} = {"pinned"} \cup {"release"}
      OBVIOUS
    <3>1. IsFiniteSet({"pinned", "release"})
      <4>1. IsFiniteSet({"pinned"})
        BY FS_Singleton
      <4>2. IsFiniteSet({"pinned"} \cup {"release"})
        BY <4>1, FS_AddElement
      <4> QED BY <3>0, <4>2
    <3>2. IsFiniteSet(sound)
      BY <3>1, FS_Subset
    <3> QED BY <2>2, <3>2, FS_Singleton
  <2> QED BY <2>2, <2>3
<1>7. [c \in Expected |-> <<right(pinned, c), right(release, c)>>]
        = [c \in Expected |-> <<passed(pinned, c), passed(release, c)>>]
  <2>1. \A c \in Expected : /\ Passes(rows, pinned, c) = Right(rows, pinned, c)
                           /\ Passes(rows, release, c) = Right(rows, release, c)
    BY <1>2, PassesAreRight
  <2> QED BY <2>1
<1>8. Facts[v][g].complete
  <2> DEFINE complete == Len(rows) = Cardinality(Expected) * Cardinality(IdsOf(questions))
  <2>1. complete
    BY <1>4
  <2>2. Facts[v][g].complete = complete
    BY <1>3
  <2> HIDE DEF complete
  <2> QED BY <2>1, <2>2
<1>9. Facts[v][g].neutral
  BY <1>3, <1>5
<1>10. Facts[v][g].sound = {r.selected}
  <2>1. r.selected = m.selected
    BY <1>1
  <2>2. Facts[v][g].sound = sound
    BY <1>3
  <2> HIDE DEF sound
  <2> QED BY <1>6, <2>1, <2>2
<1>11. Facts[v][g].scores = r.scores
  BY <1>1, <1>3, <1>7
<1> QED BY <1>8, <1>9, <1>10, <1>11

Files == {"manifest", "questions", "pinned", "release", "generations", "evidence"}
Readings == {"manifest", "manifest digest", "generations", "generations digest"}

\* What a comparison holds once it has read it, and what a report was made of.
KeyInv ==
    /\ DOMAIN held = Files
    /\ held["manifest"] \in Held["manifest"] /\ held["generations"] \in Held["generations"]
    /\ DOMAIN read = Readings
    /\ stage \in {"keys", "fingerprint", "generations", "report"}
            => read["manifest"] \in DOMAIN Manifest
    /\ stage = "report" => read["generations"] \in DOMAIN Sweep
    /\ written \notin {Unread, Broken} =>
            \E v \in DOMAIN Manifest, g \in DOMAIN Sweep :
                /\ written.read["manifest"] = v /\ written.read["generations"] = g
                /\ written.says \in Reported[v][g]

LEMMA KeyInitInv == ASSUME KeyChoiceAssumption PROVE KeyInit => KeyInv
BY DEF KeyChoiceAssumption, KeyInit, KeyInv, Nothing, Files, Readings

LEMMA KeyNextInv ==
    ASSUME KeyChoiceAssumption PROVE KeyInv /\ [KeyNext]_KeyVars => KeyInv'
<1> SUFFICES ASSUME KeyInv, [KeyNext]_KeyVars PROVE KeyInv'
  OBVIOUS
<1>1. ASSUME NEW f \in DOMAIN Held, Swap(f) PROVE KeyInv'
  <2>1. PICK w \in Held[f] : held' = [held EXCEPT ![f] = w]
    BY <1>1 DEF Swap
  <2>2. /\ DOMAIN held' = Files
        /\ held'["manifest"] \in Held["manifest"]
        /\ held'["generations"] \in Held["generations"]
    BY <2>1 DEF KeyInv, Files
  <2> QED BY <1>1, <2>2 DEF Swap, KeyInv
<1>2. CASE FingerprintManifest
  BY <1>2 DEF FingerprintManifest, Go, Nothing, KeyInv, Readings
<1>3. CASE LoadManifest
  BY <1>3 DEF LoadManifest, Go, KeyInv, Readings, KeyChoiceAssumption
<1>4. CASE LoadKeys
  BY <1>4 DEF LoadKeys, GiveUp, Go, Nothing, KeyInv, Readings
<1>5. CASE FingerprintGenerations
  BY <1>5 DEF FingerprintGenerations, Go, KeyInv, Readings
<1>6. CASE LoadGenerations
  BY <1>6 DEF LoadGenerations, GiveUp, Go, Nothing, KeyInv, Readings, KeyChoiceAssumption
<1>7. CASE WriteReport
  <2>1. /\ DOMAIN held' = Files
        /\ held'["manifest"] \in Held["manifest"]
        /\ held'["generations"] \in Held["generations"]
        /\ DOMAIN read' = Readings /\ stage' = "start"
    BY <1>7 DEF WriteReport, KeyInv, Nothing, Readings
  <2>2. read["manifest"] \in DOMAIN Manifest /\ read["generations"] \in DOMAIN Sweep
    BY <1>7 DEF WriteReport, KeyInv
  <2>3. CASE written' = written
    BY <2>1, <2>3 DEF KeyInv
  <2>4. CASE written' = Broken
    BY <2>1, <2>4 DEF KeyInv
  <2>5. ASSUME NEW r \in Reported[read["manifest"]][read["generations"]],
               written' = [read |-> read, says |-> r]
        PROVE  KeyInv'
    BY <2>1, <2>2, <2>5 DEF KeyInv
  <2> QED BY <1>7, <2>3, <2>4, <2>5 DEF WriteReport
<1>8. CASE UNCHANGED KeyVars
  BY <1>8 DEF KeyVars, KeyInv
<1> QED BY <1>1, <1>2, <1>3, <1>4, <1>5, <1>6, <1>7, <1>8 DEF KeyNext

\* Whatever is edited under a comparison, the report it writes supports what is
\* claimed from it: all candidates and items, the scores of the keys, no paired
\* comparison that depends on the choice, and the one canonical key.
THEOREM ReportsAreSound ==
    ASSUME KeyChoiceAssumption PROVE KeySpec => []ReportsSupportClaims
<1>1. KeyInv => ReportsSupportClaims
  <2> SUFFICES ASSUME KeyInv, written \notin {Unread, Broken}
               PROVE  ReportsSupportClaims
    BY DEF ReportsSupportClaims
  <2>1. PICK v \in DOMAIN Manifest, g \in DOMAIN Sweep :
            /\ written.read["manifest"] = v /\ written.read["generations"] = g
            /\ written.says \in Reported[v][g]
    BY DEF KeyInv
  <2>2. /\ Facts[v][g].complete /\ Facts[v][g].neutral
        /\ Facts[v][g].sound = {written.says.selected}
        /\ Facts[v][g].scores = written.says.scores
    BY <2>1, ReportedIsSupported
  <2> QED BY <2>1, <2>2 DEF ReportsSupportClaims
<1> QED BY KeyInitInv, KeyNextInv, <1>1, PTL DEF KeySpec

-----------------------------------------------------------------------------
(* Part 3: what is made of a stage's ledger.  First, calls are compared as   *)
(* bags.                                                                     *)

\* The one is the other in another order.
Matched(s, u) ==
    \E f \in Bijection(DOMAIN s, DOMAIN u) : \A i \in DOMAIN s : u[f[i]] = s[i]

\* Members that occur as often here as there can be paired off.
LEMMA FibresPairOff ==
    ASSUME NEW s, NEW u, IsFiniteSet(DOMAIN s), IsFiniteSet(DOMAIN u),
           \A x \in Range_(s) : Times(x, s) = Times(x, u)
    PROVE  \E f \in Bijection(DOMAIN s, {i \in DOMAIN u : u[i] \in Range_(s)}) :
               \A i \in DOMAIN s : u[f[i]] = s[i]
<1> DEFINE S(x) == {i \in DOMAIN s : s[i] = x}
           U(x) == {i \in DOMAIN u : u[i] = x}
           D == {i \in DOMAIN u : u[i] \in Range_(s)}
           b(x) == CHOOSE h : h \in Bijection(S(x), U(x))
           f == [i \in DOMAIN s |-> b(s[i])[i]]
<1>1. ASSUME NEW x \in Range_(s) PROVE b(x) \in Bijection(S(x), U(x))
  <2>1. IsFiniteSet(S(x)) /\ IsFiniteSet(U(x))
    BY FS_Subset
  <2>2. Cardinality(S(x)) = Cardinality(U(x))
    BY DEF Times
  <2> HIDE DEF S, U
  <2>3. \E h : h \in Bijection(S(x), U(x))
    BY <2>1, <2>2, FS_SameCardinalityBij DEF ExistsBijection
  <2> QED BY <2>3
<1> HIDE DEF b
<1>2. ASSUME NEW x \in Range_(s)
      PROVE  /\ \A i \in S(x) : b(x)[i] \in U(x)
             /\ \A i, j \in S(x) : b(x)[i] = b(x)[j] => i = j
             /\ \A k \in U(x) : \E i \in S(x) : b(x)[i] = k
  <2> HIDE DEF S, U
  <2> QED BY <1>1 DEF Bijection, Injection, Surjection, IsInjective
<1>3. \A i \in DOMAIN s : s[i] \in Range_(s) /\ i \in S(s[i])
  BY DEF Range_
<1>4. \A i \in DOMAIN s : f[i] \in D /\ u[f[i]] = s[i]
  BY <1>2, <1>3
<1>5. \A i, j \in DOMAIN s : f[i] = f[j] => i = j
  BY <1>2, <1>3, <1>4
<1>6. \A k \in D : \E i \in DOMAIN s : f[i] = k
  BY <1>2, <1>3
<1>7. f \in [DOMAIN s -> D]
  BY <1>4
<1> HIDE DEF f, D
<1>8. f \in Bijection(DOMAIN s, D)
  BY <1>5, <1>6, <1>7 DEF Bijection, Injection, Surjection, IsInjective
<1> QED BY <1>4, <1>8 DEF D

\* Sequences in which the same occurs as often are the same in another order.
LEMMA EquallyOftenMatches ==
    ASSUME NEW s, NEW u, IsFiniteSet(DOMAIN s), IsFiniteSet(DOMAIN u),
           \A x \in Range_(s) : Times(x, s) = Times(x, u),
           Range_(u) \subseteq Range_(s) \/ Cardinality(DOMAIN s) = Cardinality(DOMAIN u)
    PROVE  Matched(s, u)
<1> DEFINE D == {i \in DOMAIN u : u[i] \in Range_(s)}
<1>1. PICK f \in Bijection(DOMAIN s, D) : \A i \in DOMAIN s : u[f[i]] = s[i]
  BY FibresPairOff
<1>2. CASE Range_(u) \subseteq Range_(s)
  <2>1. D = DOMAIN u
    BY <1>2 DEF Range_
  <2> QED BY <1>1, <2>1 DEF Matched
<1>3. CASE Cardinality(DOMAIN s) = Cardinality(DOMAIN u)
  <2>1. D \in SUBSET DOMAIN u
    OBVIOUS
  <2> HIDE DEF D
  <2>2. Cardinality(D) = Cardinality(DOMAIN s)
    BY <1>1, FS_Bijection DEF ExistsBijection
  <2>3. D = DOMAIN u
    BY <1>3, <2>1, <2>2, FS_Subset
  <2> QED BY <1>1, <2>3 DEF Matched
<1> QED BY <1>2, <1>3

\* In another order, everything occurs as often.
LEMMA MatchedIsEquallyOften ==
    ASSUME NEW s, NEW u, IsFiniteSet(DOMAIN s), Matched(s, u)
    PROVE  /\ \A x : Times(x, s) = Times(x, u)
           /\ Range_(s) = Range_(u)
           /\ Cardinality(DOMAIN s) = Cardinality(DOMAIN u)
<1>1. PICK f \in Bijection(DOMAIN s, DOMAIN u) : \A i \in DOMAIN s : u[f[i]] = s[i]
  BY DEF Matched
<1>2. /\ \A i \in DOMAIN s : f[i] \in DOMAIN u
      /\ \A i, j \in DOMAIN s : f[i] = f[j] => i = j
      /\ \A k \in DOMAIN u : \E i \in DOMAIN s : f[i] = k
  BY <1>1 DEF Bijection, Injection, Surjection, IsInjective
<1>3. ASSUME NEW x PROVE Times(x, s) = Times(x, u)
  <2> DEFINE S == {i \in DOMAIN s : s[i] = x}
             U == {i \in DOMAIN u : u[i] = x}
             g == [i \in S |-> f[i]]
  <2>1. /\ \A i \in S : g[i] \in U
        /\ \A i, j \in S : g[i] = g[j] => i = j
        /\ \A k \in U : \E i \in S : g[i] = k
    BY <1>1, <1>2
  <2>2. IsFiniteSet(S)
    BY FS_Subset
  <2>3. g \in [S -> U]
    BY <2>1
  <2> HIDE DEF S, U, g
  <2>4. g \in Bijection(S, U)
    BY <2>1, <2>3 DEF Bijection, Injection, Surjection, IsInjective
  <2>5. Cardinality(S) = Cardinality(U)
    BY <2>2, <2>4, FS_Bijection DEF ExistsBijection
  <2> QED BY <2>5 DEF S, U, Times
<1>4. Range_(s) = Range_(u)
  BY <1>1, <1>2 DEF Range_
<1>5. Cardinality(DOMAIN s) = Cardinality(DOMAIN u)
  BY <1>1, FS_Bijection DEF ExistsBijection
<1> QED BY <1>3, <1>4, <1>5

\* What IsSequence says of a domain.
LEMMA SequenceDomain ==
    ASSUME NEW s, IsSequence(s)
    PROVE  /\ Len(s) \in Nat /\ DOMAIN s = 1 .. Len(s)
           /\ IsFiniteSet(DOMAIN s) /\ Cardinality(DOMAIN s) = Len(s)
<1>1. Len(s) \in Nat /\ DOMAIN s = 1 .. Len(s)
  BY LenProperties DEF IsSequence
<1> DEFINE n == Len(s)
<1>2. n \in Nat
  BY <1>1
<1> HIDE DEF n
<1>3. IsFiniteSet(1 .. n) /\ Cardinality(1 .. n) = IF 1 > n THEN 0 ELSE n - 1 + 1
  BY <1>2, FS_Interval
<1>4. Cardinality(1 .. n) = n
  BY <1>2, <1>3
<1> QED BY <1>1, <1>3, <1>4 DEF n

\* The calls of a turn, and their names, are as many as its blocks.
LEMMA CallsAreASequence ==
    ASSUME NEW t, IsTurn(t)
    PROVE  /\ IsSequence(CallsOf(t)) /\ IsSequence(NameSeq(CallsOf(t)))
           /\ DOMAIN CallsOf(t) = DOMAIN t.blocks
           /\ DOMAIN NameSeq(CallsOf(t)) = DOMAIN t.blocks
<1> DEFINE n == Len(t.blocks)
           c == CallsOf(t)
           names == NameSeq(c)
<1>1. n \in Nat /\ DOMAIN t.blocks = 1 .. n
  BY SequenceDomain DEF IsTurn
<1>2. DOMAIN c = 1 .. n /\ c = [i \in 1 .. n |-> c[i]]
  BY <1>1 DEF CallsOf
<1>3. DOMAIN names = 1 .. n /\ names = [i \in 1 .. n |-> names[i]]
  BY <1>2 DEF NameSeq
<1> HIDE DEF c, names, n
<1>4. c \in [1 .. n -> Range_(c)] /\ names \in [1 .. n -> Range_(names)]
  BY <1>2, <1>3 DEF Range_
<1>5. c \in Seq(Range_(c)) /\ names \in Seq(Range_(names))
  BY <1>1, <1>4
<1> QED BY <1>1, <1>2, <1>3, <1>5 DEF IsSequence, c, names

BagOf(s) == {<<x, Times(x, s)>> : x \in Range_(s)}

\* Three ways to say that calls are the same but for their order, of which the
\* verifier uses one and the reference another; and their names are then too.
LEMMA SameBagIsMatched ==
    ASSUME NEW s, NEW u, IsSequence(s), IsSequence(u)
    PROVE  /\ SameBag(s, u) <=> Matched(s, u)
           /\ SameBag(s, u) <=> BagOf(s) = BagOf(u)
<1>1. /\ IsFiniteSet(DOMAIN s) /\ IsFiniteSet(DOMAIN u)
      /\ Cardinality(DOMAIN s) = Len(s) /\ Cardinality(DOMAIN u) = Len(u)
  BY SequenceDomain
<1>2. SameBag(s, u) => Matched(s, u)
  BY <1>1, EquallyOftenMatches DEF SameBag
<1>3. Matched(s, u) => SameBag(s, u)
  BY <1>1, MatchedIsEquallyOften DEF SameBag
<1>4. Matched(s, u) => BagOf(s) = BagOf(u)
  BY <1>1, MatchedIsEquallyOften DEF BagOf
<1>5. ASSUME BagOf(s) = BagOf(u) PROVE Matched(s, u)
  <2>1. \A x \in Range_(s) : x \in Range_(u) /\ Times(x, s) = Times(x, u)
    <3> SUFFICES ASSUME NEW x \in Range_(s) PROVE x \in Range_(u) /\ Times(x, s) = Times(x, u)
      OBVIOUS
    <3>1. <<x, Times(x, s)>> \in BagOf(u)
      BY <1>5 DEF BagOf
    <3>2. PICK y \in Range_(u) : <<x, Times(x, s)>> = <<y, Times(y, u)>>
      BY <3>1 DEF BagOf
    <3> QED BY <3>2
  <2>2. \A x \in Range_(u) : x \in Range_(s)
    <3> SUFFICES ASSUME NEW x \in Range_(u) PROVE x \in Range_(s)
      OBVIOUS
    <3>1. <<x, Times(x, u)>> \in BagOf(s)
      BY <1>5 DEF BagOf
    <3>2. PICK y \in Range_(s) : <<x, Times(x, u)>> = <<y, Times(y, s)>>
      BY <3>1 DEF BagOf
    <3> QED BY <3>2
  <2> QED BY <1>1, <2>1, <2>2, EquallyOftenMatches
<1> QED BY <1>2, <1>3, <1>4, <1>5

LEMMA NamesMatch ==
    ASSUME NEW s, NEW u, Matched(s, u)
    PROVE  Matched(NameSeq(s), NameSeq(u))
<1>1. PICK f \in Bijection(DOMAIN s, DOMAIN u) : \A i \in DOMAIN s : u[f[i]] = s[i]
  BY DEF Matched
<1>2. \A i \in DOMAIN s : f[i] \in DOMAIN u
  BY <1>1 DEF Bijection, Injection
<1>3. /\ DOMAIN NameSeq(s) = DOMAIN s /\ DOMAIN NameSeq(u) = DOMAIN u
      /\ \A i \in DOMAIN s : NameSeq(u)[f[i]] = NameSeq(s)[i]
  BY <1>1, <1>2 DEF NameSeq
<1> QED BY <1>1, <1>3 DEF Matched

-----------------------------------------------------------------------------
(* The verifier judges what is meant.                                        *)

\* Whether a turn is calls that can be read.
Legible(t) ==
    /\ t.form \notin {"prose", "empty"} /\ ~ t.broken /\ t.blocks # <<>>
    /\ \A b \in Range_(t.blocks) : WellFormed(t.form, b)

LEMMA ExtractionIsMeaning ==
    ASSUME NEW t
    PROVE  /\ t.form = "prose" => /\ ExtractCalls(t) = Kind("no_call", <<>>)
                                 /\ Meaning(t) = <<"prose", {}>>
           /\ t.form # "prose" /\ ~ Legible(t) => /\ ExtractCalls(t) = Kind("unreadable", <<>>)
                                                 /\ Meaning(t) = <<"nothing", {}>>
           /\ Legible(t) => /\ ExtractCalls(t) = Kind("call", CallsOf(t))
                            /\ Meaning(t) = <<"calls", BagOf(CallsOf(t))>>
<1>1. \A b \in Range_(t.blocks) : WellFormed(t.form, b) <=> Intelligible(t, b)
  BY DEF WellFormed, Intelligible
<1>2. Legible(t) <=> /\ t.form # "prose" /\ t.form # "empty" /\ ~ t.broken /\ t.blocks # <<>>
                     /\ ~ \E b \in Range_(t.blocks) : ~ WellFormed(t.form, b)
  BY DEF Legible
<1>3. ASSUME t.form = "prose"
      PROVE  ExtractCalls(t) = Kind("no_call", <<>>) /\ Meaning(t) = <<"prose", {}>>
  BY <1>3 DEF ExtractCalls, Meaning
<1>4. ASSUME t.form # "prose", ~ Legible(t)
      PROVE  ExtractCalls(t) = Kind("unreadable", <<>>) /\ Meaning(t) = <<"nothing", {}>>
  <2>1. \/ t.form = "empty" \/ t.broken \/ t.blocks = <<>>
        \/ \E b \in Range_(t.blocks) : ~ WellFormed(t.form, b)
    BY <1>2, <1>4
  <2>2. \/ t.form = "empty" \/ t.broken \/ t.blocks = <<>>
        \/ \E b \in Range_(t.blocks) : ~ Intelligible(t, b)
    BY <1>1, <2>1
  <2> QED BY <1>4, <2>1, <2>2 DEF ExtractCalls, Meaning
<1>5. ASSUME Legible(t)
      PROVE  /\ ExtractCalls(t) = Kind("call", CallsOf(t))
             /\ Meaning(t) = <<"calls", BagOf(CallsOf(t))>>
  <2>1. ~ (\/ t.form = "empty" \/ t.broken \/ t.blocks = <<>>
           \/ \E b \in Range_(t.blocks) : ~ WellFormed(t.form, b))
    BY <1>2, <1>5
  <2>2. ~ (\/ t.form = "empty" \/ t.broken \/ t.blocks = <<>>
           \/ \E b \in Range_(t.blocks) : ~ Intelligible(t, b))
    BY <1>1, <2>1
  <2> QED BY <1>2, <1>5, <2>1, <2>2 DEF ExtractCalls, Meaning, BagOf
<1> QED BY <1>3, <1>4, <1>5

\* A target that is not refused is read as what was extracted from it.
LEMMA TargetIsExtracted ==
    ASSUME NEW t, ReadTarget(t).kind \notin Refusals
    PROVE  ReadTarget(t) = ExtractCalls(t) /\ ExtractCalls(t).kind # "unreadable"
<1> DEFINE theirs == ClassifyTarget(t)
           own == ExtractCalls(t)
<1>1. ASSUME theirs.kind = "unreadable" PROVE ReadTarget(t).kind = "TargetUnreadableError"
  <2> HIDE DEF own
  <2> QED BY <1>1 DEF ReadTarget, Kind
<1>2. ASSUME theirs.kind # "unreadable",
             own.kind # theirs.kind \/ Names(own.calls) # theirs.names
      PROVE  ReadTarget(t).kind = "ParserDisagreementError"
  BY <1>2 DEF ReadTarget, Kind
<1>3. theirs.kind # "unreadable" /\ own.kind = theirs.kind /\ Names(own.calls) = theirs.names
  BY <1>1, <1>2 DEF Refusals
<1> QED BY <1>3 DEF ReadTarget

\* A generation is accepted exactly if it means what its target means.
LEMMA AcceptedMeansTheSame ==
    ASSUME NEW g, NEW t, IsTurn(g), IsTurn(t), Verify(g, t).verdict # "raises"
    PROVE  Verify(g, t) = Accept <=> Meaning(g) = Meaning(t)
<1> DEFINE want == ReadTarget(t)
           got == ExtractCalls(g)
<1>1. want.kind \notin Refusals
  <2> SUFFICES ASSUME want.kind \in Refusals PROVE FALSE
    OBVIOUS
  <2>1. Verify(g, t) = Raises(want.kind)
    BY DEF Verify
  <2> HIDE DEF want
  <2> QED BY <2>1 DEF Raises, Verdict
<1>2. want = ExtractCalls(t) /\ want.kind # "unreadable"
  BY <1>1, TargetIsExtracted
<1>3. \A r : Reject(r) # Accept
  BY DEF Reject, Accept, Verdict
<1>4. CASE t.form = "prose"
  <2>1. want.kind = "no_call" /\ Meaning(t)[1] = "prose" /\ Meaning(t) = <<"prose", {}>>
    BY <1>2, <1>4, ExtractionIsMeaning DEF Kind
  <2>2. CASE g.form = "prose"
    <3>1. got.kind = "no_call" /\ Meaning(g) = <<"prose", {}>>
      BY <2>2, ExtractionIsMeaning DEF Kind
    <3>2. Verify(g, t) = Accept
      BY <1>1, <2>1, <3>1 DEF Verify
    <3> QED BY <2>1, <3>1, <3>2
  <2>3. CASE g.form # "prose" /\ ~ Legible(g)
    <3>1. got.kind = "unreadable" /\ Meaning(g)[1] = "nothing"
      BY <2>3, ExtractionIsMeaning DEF Kind
    <3>2. Verify(g, t) = Reject("invalid_json")
      BY <1>1, <2>1, <3>1 DEF Verify
    <3> QED BY <1>3, <2>1, <3>1, <3>2
  <2>4. CASE Legible(g)
    <3>1. got.kind = "call" /\ Meaning(g)[1] = "calls"
      BY <2>4, ExtractionIsMeaning DEF Kind
    <3>2. Verify(g, t) = Reject("spurious_call")
      BY <1>1, <2>1, <3>1 DEF Verify
    <3> QED BY <1>3, <2>1, <3>1, <3>2
  <2> QED BY <2>2, <2>3, <2>4
<1>5. CASE t.form # "prose"
  <2>1. Legible(t)
    BY <1>2, <1>5, ExtractionIsMeaning DEF Kind
  <2>2. /\ want.kind = "call" /\ want.calls = CallsOf(t)
        /\ Meaning(t) = <<"calls", BagOf(CallsOf(t))>> /\ Meaning(t)[1] = "calls"
    BY <1>2, <2>1, ExtractionIsMeaning DEF Kind
  <2>3. CASE g.form = "prose"
    <3>1. got.kind = "no_call" /\ Meaning(g)[1] = "prose"
      BY <2>3, ExtractionIsMeaning DEF Kind
    <3>2. Verify(g, t) = Reject("missing_call")
      BY <1>1, <2>2, <3>1 DEF Verify
    <3> QED BY <1>3, <2>2, <3>1, <3>2
  <2>4. CASE g.form # "prose" /\ ~ Legible(g)
    <3>1. got.kind = "unreadable" /\ Meaning(g)[1] = "nothing"
      BY <2>4, ExtractionIsMeaning DEF Kind
    <3>2. Verify(g, t) = Reject("invalid_json")
      BY <1>1, <2>2, <3>1 DEF Verify
    <3> QED BY <1>3, <2>2, <3>1, <3>2
  <2>5. CASE Legible(g)
    <3> DEFINE a == CallsOf(t)
               b == CallsOf(g)
    <3>1. /\ got.kind = "call" /\ got.calls = b
          /\ Meaning(g) = <<"calls", BagOf(b)>>
      BY <2>5, ExtractionIsMeaning DEF Kind
    <3>2. Meaning(g) = Meaning(t) <=> SameBag(a, b)
      <4>1. SameBag(a, b) <=> BagOf(a) = BagOf(b)
        BY CallsAreASequence, SameBagIsMatched
      <4> HIDE DEF a, b
      <4> QED BY <2>2, <3>1, <4>1 DEF a
    <3>3. SameBag(a, b) => SameBag(NameSeq(a), NameSeq(b))
      BY CallsAreASequence, SameBagIsMatched, NamesMatch
    <3> HIDE DEF a, b
    <3>4. CASE ~ SameBag(NameSeq(a), NameSeq(b))
      <4>1. Verify(g, t) = Reject("wrong_tool")
        BY <1>1, <2>2, <3>1, <3>4 DEF Verify, a
      <4> QED BY <1>3, <3>2, <3>3, <3>4, <4>1
    <3>5. CASE SameBag(NameSeq(a), NameSeq(b))
      <4>1. Canonical(a) /\ Canonical(b)
        <5> SUFFICES ASSUME ~ Canonical(a) \/ ~ Canonical(b) PROVE FALSE
          OBVIOUS
        <5>1. Verify(g, t) = Raises("TypeError")
          BY <1>1, <2>2, <3>1, <3>5 DEF Verify, a
        <5> QED BY <5>1 DEF Raises, Verdict
      <4>2. CASE SameBag(a, b)
        <5>1. Verify(g, t) = Accept
          BY <1>1, <2>2, <3>1, <3>5, <4>1, <4>2 DEF Verify, a
        <5> QED BY <3>2, <4>2, <5>1
      <4>3. CASE ~ SameBag(a, b)
        <5>1. Verify(g, t) = Reject("wrong_args")
          BY <1>1, <2>2, <3>1, <3>5, <4>1, <4>3 DEF Verify, a
        <5> QED BY <1>3, <3>2, <4>3, <5>1
      <4> QED BY <4>2, <4>3
    <3> QED BY <3>4, <3>5
  <2> QED BY <2>3, <2>4, <2>5
<1> QED BY <1>4, <1>5
-----------------------------------------------------------------------------
(* The ledger and what is in effect.                                         *)

\* The samples of a prompt, each with the verdict the verifier gave it.
OutcomeOK(p, outcome) ==
    /\ DOMAIN outcome = 1 .. Samples
    /\ \A k \in 1 .. Samples :
           /\ outcome[k].text \in Said[p]
           /\ outcome[k].verdict = Verify(outcome[k].text, Target[p])
           /\ outcome[k].verdict.verdict # "raises"

IsWork(i) == /\ log[i].type = "work" /\ log[i].prompt \in SelectedPrompts
             /\ OutcomeOK(log[i].prompt, log[i].outcome)

\* A tombstone names an earlier line.
IsRedo(i) == log[i].type = "redo" /\ log[i].supersedes \in DOMAIN log

LogInv == IsSequence(log) /\ \A i \in DOMAIN log : IsWork(i) \/ IsRedo(i)

\* What is in effect by seq is what is in effect by prompt.
LiveInv ==
    /\ DOMAIN live = {log[i].prompt : i \in Active}
    /\ \A i \in Active : live[log[i].prompt] = log[i].outcome
    /\ \A i, j \in Active : log[i].prompt = log[j].prompt => i = j

Derivatives == {"mined_pairs", "sft_bucket", "mining_summary"}

\* A file on disk is what would be derived now.
UpToDate(f) == derived[f] = Derived[f]

\* Unless a rollback is pending, a decision on disk is what would be derived now.
SummaryInv ==
    /\ DOMAIN derived = Derivatives
    /\ ~ unsettled /\ derived["mining_summary"].decision # "none" =>
           /\ Complete /\ ~ (Planned /\ ThinCell)
           /\ \A f \in Derivatives : UpToDate(f)

\* A process that writes has replaced the first files and has nothing to refuse.
WritingInv ==
    /\ doing = "writing" => /\ ~ (Planned /\ ThinCell)
                            /\ replaced \in 0 .. 2
                            /\ replaced >= 1 => UpToDate("mined_pairs")
                            /\ replaced = 2 => UpToDate("sft_bucket")
    /\ doing # "writing" => replaced = 0

\* What a rollback has still to retire is in effect.
DoomedInv == doing = "retiring" => doomed \in SUBSET Active /\ doomed # {}

YieldInv == LogInv /\ LiveInv /\ SummaryInv /\ WritingInv /\ DoomedInv

\* The least of a set of naturals is in it.
LEMMA LowestIsIn ==
    ASSUME NEW T \in SUBSET Nat, T # {} PROVE Lowest(T) \in T
BY LeastExists DEF Lowest

LEMMA AppendShape ==
    ASSUME NEW s, NEW e, IsSequence(s)
    PROVE  /\ IsSequence(Append(s, e))
           /\ DOMAIN Append(s, e) = DOMAIN s \cup {Len(s) + 1} /\ Len(s) + 1 \notin DOMAIN s
           /\ \A i \in DOMAIN s : Append(s, e)[i] = s[i]
           /\ Append(s, e)[Len(s) + 1] = e
<1> DEFINE R == Range_(s) \cup {e}
           a == Append(s, e)
<1>1. s \in Seq(R) /\ e \in R
  BY SeqMonotonic DEF IsSequence
<1>2. Len(s) \in Nat /\ DOMAIN s = 1 .. Len(s)
  BY SequenceDomain
<1> HIDE DEF R
<1>3. /\ a \in Seq(R) /\ Len(a) = Len(s) + 1
      /\ \A i \in 1 .. Len(s) : a[i] = s[i]
      /\ a[Len(s) + 1] = e
  BY <1>1, <1>2
<1> HIDE DEF a
<1>4. DOMAIN a = 1 .. Len(s) + 1 /\ Len(a) \in Nat
  BY <1>2, <1>3, LenProperties
<1>5. a \in [1 .. Len(a) -> Range_(a)]
  <2>1. a \in [1 .. Len(a) -> R]
    BY <1>3, LenProperties
  <2> QED BY <1>3, <1>4, <2>1 DEF Range_
<1>6. IsSequence(a)
  BY <1>4, <1>5 DEF IsSequence
<1> QED BY <1>2, <1>3, <1>4, <1>6 DEF a

\* What is in effect was sampled.
LEMMA ActiveIsWork ==
    ASSUME LogInv, NEW i \in Active
    PROVE  i \in DOMAIN log /\ IsWork(i)
BY DEF LogInv, Active, IsRedo

LEMMA LiveIsWork ==
    ASSUME LogInv, LiveInv
    PROVE  \A p \in DOMAIN live : /\ p \in SelectedPrompts /\ OutcomeOK(p, live[p])
                                  /\ \E i \in Active : /\ log[i].prompt = p
                                                        /\ log[i].outcome = live[p]
BY ActiveIsWork DEF LiveInv, IsWork

\* What MaterializePair takes from an outcome that has a pair.
LEMMA PairIsPreference ==
    ASSUME StageAssumption, NEW p \in SelectedPrompts, NEW outcome, OutcomeOK(p, outcome),
           HasPair(outcome), Samples \in Nat
    PROVE  LET pair == MaterializePair(p, outcome)
           IN /\ pair.prompt = p
              /\ Meaning(pair.chosen) = Meaning(Target[p])
              /\ Meaning(pair.rejected) # Meaning(Target[p])
              /\ {pair.chosen, pair.rejected} \subseteq {outcome[k].text : k \in 1 .. Samples}
<1> DEFINE a == Lowest(Accepted(outcome))
           r == Lowest(Rejected(outcome))
           pair == MaterializePair(p, outcome)
<1>1. a \in Accepted(outcome) /\ r \in Rejected(outcome)
  <2>1. Accepted(outcome) \subseteq 1 .. Samples /\ Rejected(outcome) \subseteq 1 .. Samples
    BY DEF Accepted, Rejected, OutcomeOK
  <2>2. Accepted(outcome) # {} /\ Rejected(outcome) # {}
    BY DEF HasPair
  <2> QED BY <2>1, <2>2, LowestIsIn
<1> HIDE DEF a, r
<1>2. /\ a \in 1 .. Samples /\ r \in 1 .. Samples
      /\ outcome[a].verdict = Accept /\ outcome[r].verdict # Accept
  BY <1>1 DEF Accepted, Rejected, OutcomeOK
<1>3. \A k \in 1 .. Samples :
          /\ IsTurn(outcome[k].text) /\ IsTurn(Target[p])
          /\ outcome[k].verdict = Verify(outcome[k].text, Target[p])
          /\ Verify(outcome[k].text, Target[p]).verdict # "raises"
  BY DEF OutcomeOK, StageAssumption
<1>4. \A k \in 1 .. Samples :
          outcome[k].verdict = Accept <=> Meaning(outcome[k].text) = Meaning(Target[p])
  BY <1>3, AcceptedMeansTheSame
<1>5. pair.prompt = p /\ pair.chosen = outcome[a].text /\ pair.rejected = outcome[r].text
  BY DEF MaterializePair, a, r
<1> HIDE DEF pair
<1>6. /\ pair.prompt = p
      /\ Meaning(pair.chosen) = Meaning(Target[p])
      /\ Meaning(pair.rejected) # Meaning(Target[p])
      /\ {pair.chosen, pair.rejected} \subseteq {outcome[k].text : k \in 1 .. Samples}
  BY <1>2, <1>4, <1>5
<1> QED BY <1>6 DEF pair

LEMMA EffectGivesPreferences ==
    ASSUME YieldAssumption, StageAssumption, LogInv, LiveInv
    PROVE  PairsArePreferences
<1>1. ASSUME NEW pair \in Pairs
      PROVE  \E i \in Active : /\ HasPair(log[i].outcome)
                               /\ pair = MaterializePair(log[i].prompt, log[i].outcome)
                               /\ pair.prompt = log[i].prompt
  BY DEF Pairs, MaterializePair
<1>2. ASSUME NEW pair \in Pairs
      PROVE  /\ Meaning(pair.chosen) = Meaning(Target[pair.prompt])
             /\ Meaning(pair.rejected) # Meaning(Target[pair.prompt])
             /\ pair.prompt \in DOMAIN live
             /\ {pair.chosen, pair.rejected} \subseteq
                    {live[pair.prompt][k].text : k \in 1 .. Samples}
  <2>1. PICK i \in Active : /\ HasPair(log[i].outcome)
                            /\ pair = MaterializePair(log[i].prompt, log[i].outcome)
                            /\ pair.prompt = log[i].prompt
    BY <1>1
  <2>2. log[i].prompt \in SelectedPrompts /\ OutcomeOK(log[i].prompt, log[i].outcome)
    BY ActiveIsWork DEF IsWork
  <2>3. log[i].prompt \in DOMAIN live /\ live[log[i].prompt] = log[i].outcome
    BY DEF LiveInv
  <2>4. Samples \in Nat
    BY DEF YieldAssumption
  <2> QED BY <2>1, <2>2, <2>3, <2>4, PairIsPreference
<1>3. ASSUME NEW pair \in Pairs, NEW other \in Pairs, other.prompt = pair.prompt
      PROVE  other = pair
  BY <1>1, <1>3 DEF LiveInv
<1> QED BY <1>2, <1>3 DEF PairsArePreferences

\* A nonempty set of numbers up to n has a greatest.
LEMMA GreatestExists ==
    ASSUME NEW n \in Nat, NEW T \in SUBSET (1 .. n), T # {}
    PROVE  \E x \in T : \A y \in T : y <= x
<1> DEFINE M == {k \in Nat : \A y \in T : y <= k}
<1>1. n \in M
  OBVIOUS
<1>2. PICK m \in M : \A k \in M : m <= k
  <2>1. M \in SUBSET Nat /\ M # {}
    BY <1>1
  <2> HIDE DEF M
  <2> QED BY <2>1, LeastExists
<1>3. m \in T
  <2> SUFFICES ASSUME m \notin T PROVE FALSE
    OBVIOUS
  <2>1. \A y \in T : y <= m /\ y # m /\ y \in Nat /\ y >= 1
    BY <1>2
  <2>2. m >= 1 /\ m \in Nat
    <3>1. PICK y \in T : y <= m /\ y \in Nat /\ y >= 1
      BY <2>1
    <3>2. m \in Nat
      BY <1>2
    <3> QED BY <3>1, <3>2
  <2>3. \A y \in T : y <= m - 1
    BY <2>1, <2>2
  <2>4. m - 1 \in M
    BY <2>2, <2>3
  <2> QED BY <1>2, <2>2, <2>4
<1> QED BY <1>2, <1>3

\* A prompt is sampled: one line more, of a prompt that had none in effect.
LEMMA MineKeepsEffect ==
    ASSUME LogInv, LiveInv, NEW p \in SelectedPrompts \ DOMAIN live, NEW outcome,
           OutcomeOK(p, outcome),
           log' = Append(log, Record(p, outcome)),
           live' = [q \in DOMAIN live \cup {p} |-> IF q = p THEN outcome ELSE live[q]]
    PROVE  LogInv' /\ LiveInv'
<1> DEFINE n == Len(log) + 1
<1>1. /\ IsSequence(log') /\ DOMAIN log' = DOMAIN log \cup {n} /\ n \notin DOMAIN log
      /\ \A i \in DOMAIN log : log'[i] = log[i]
      /\ log'[n] = Record(p, outcome)
  BY AppendShape DEF LogInv
<1>2. log'[n].type = "work" /\ log'[n].prompt = p /\ log'[n].outcome = outcome
  BY <1>1 DEF Record
<1> HIDE DEF n
<1>3. LogInv'
  BY <1>1, <1>2 DEF LogInv, IsWork, IsRedo
<1>4. Retired' = Retired
  BY <1>1, <1>2 DEF Retired
<1>5. n \notin Retired
  BY <1>1 DEF Retired, LogInv, IsWork, IsRedo
<1>6. Active' = Active \cup {n}
  BY <1>1, <1>2, <1>4, <1>5 DEF Active
<1>7. \A i \in Active : i \in DOMAIN log /\ log'[i] = log[i]
  BY <1>1 DEF Active
<1>8. \A i \in Active : log[i].prompt \in DOMAIN live /\ log[i].prompt # p
  BY DEF LiveInv
<1>9. DOMAIN live' = {log'[i].prompt : i \in Active'}
  <2>1. DOMAIN live' = DOMAIN live \cup {p}
    OBVIOUS
  <2>2. DOMAIN live = {log[i].prompt : i \in Active}
    BY DEF LiveInv
  <2>3. \A i \in Active' : i = n \/ i \in Active
    BY <1>6
  <2>4. \A i \in Active' : log'[i].prompt \in DOMAIN live'
    BY <1>2, <1>7, <1>8, <2>1, <2>3
  <2>5. ASSUME NEW q \in DOMAIN live' PROVE \E i \in Active' : q = log'[i].prompt
    <3>1. CASE q = p
      BY <1>2, <1>6, <3>1
    <3>2. CASE q \in DOMAIN live
      <4>1. PICK i \in Active : q = log[i].prompt
        BY <2>2, <3>2
      <4> QED BY <1>6, <1>7, <4>1
    <3> QED BY <2>1, <3>1, <3>2
  <2> DEFINE D == DOMAIN live'
             E == {log'[i].prompt : i \in Active'}
  <2>6. \A q : q \in D <=> q \in E
    BY <2>4, <2>5
  <2> HIDE DEF D, E
  <2>7. D = E
    BY <2>6
  <2> QED BY <2>7 DEF D, E
<1>10. \A i \in Active' : live'[log'[i].prompt] = log'[i].outcome
  BY <1>2, <1>6, <1>7, <1>8 DEF LiveInv
<1>11. \A i, j \in Active' : log'[i].prompt = log'[j].prompt => i = j
  <2>1. \A i \in Active : log'[i].prompt # p /\ i # n
    BY <1>1, <1>7, <1>8
  <2>2. \A i, j \in Active : log'[i].prompt = log'[j].prompt => i = j
    BY <1>7 DEF LiveInv
  <2> SUFFICES ASSUME NEW i \in Active', NEW j \in Active', log'[i].prompt = log'[j].prompt
               PROVE  i = j
    OBVIOUS
  <2>3. CASE i \in Active /\ j \in Active
    BY <2>2, <2>3
  <2>4. CASE i = n /\ j \in Active
    BY <1>2, <2>1, <2>4
  <2>5. CASE i \in Active /\ j = n
    BY <1>2, <2>1, <2>5
  <2> QED BY <1>6, <2>3, <2>4, <2>5
<1> QED BY <1>3, <1>9, <1>10, <1>11 DEF LiveInv

\* A line in effect is retired: it no longer is, nor is its prompt.
LEMMA RetireKeepsEffect ==
    ASSUME LogInv, LiveInv, NEW gone \in Active,
           log' = Append(log, Tombstone(gone)),
           live' = [q \in DOMAIN live \ {log[gone].prompt} |-> live[q]]
    PROVE  LogInv' /\ LiveInv' /\ Active' = Active \ {gone}
<1> DEFINE n == Len(log) + 1
<1>3. /\ IsSequence(log') /\ DOMAIN log' = DOMAIN log \cup {n} /\ n \notin DOMAIN log
      /\ \A i \in DOMAIN log : log'[i] = log[i]
      /\ log'[n] = Tombstone(gone)
  BY AppendShape DEF LogInv
<1>4. log'[n].type = "redo" /\ log'[n].supersedes = gone
  BY <1>3 DEF Tombstone
<1> HIDE DEF n
<1>5. gone \in DOMAIN log
  BY DEF Active
<1>6. LogInv'
  BY <1>3, <1>4, <1>5 DEF LogInv, IsWork, IsRedo
<1>7. Retired' = Retired \cup {gone}
  BY <1>3, <1>4 DEF Retired
<1>8. Active' = Active \ {gone}
  BY <1>3, <1>4, <1>7 DEF Active
<1>9. \A i \in Active : i \in DOMAIN log /\ log'[i] = log[i]
  BY <1>3 DEF Active
<1>10. \A i \in Active' : i \in Active /\ log'[i] = log[i] /\ log[i].prompt # log[gone].prompt
  BY <1>8, <1>9 DEF LiveInv
<1>11. DOMAIN live' = DOMAIN live \ {log[gone].prompt}
  OBVIOUS
<1>12. DOMAIN live' = {log'[i].prompt : i \in Active'}
  <2>1. ASSUME NEW q \in DOMAIN live' PROVE \E i \in Active' : q = log'[i].prompt
    <3>1. PICK i \in Active : q = log[i].prompt
      BY <1>11, <2>1 DEF LiveInv
    <3>2. i # gone
      BY <1>11, <2>1, <3>1
    <3> QED BY <1>8, <1>9, <3>1, <3>2
  <2>2. ASSUME NEW i \in Active' PROVE log'[i].prompt \in DOMAIN live'
    <3>1. i \in Active /\ log'[i].prompt = log[i].prompt /\ log[i].prompt # log[gone].prompt
      BY <1>10
    <3>2. log[i].prompt \in DOMAIN live
      BY <3>1 DEF LiveInv
    <3> QED BY <1>11, <3>1, <3>2
  <2> DEFINE D == DOMAIN live'
             E == {log'[i].prompt : i \in Active'}
  <2>3. \A q : q \in D <=> q \in E
    BY <2>1, <2>2
  <2> HIDE DEF D, E
  <2>4. D = E
    BY <2>3
  <2> QED BY <2>4 DEF D, E
<1>13. \A i \in Active' : live'[log'[i].prompt] = log'[i].outcome
  <2> SUFFICES ASSUME NEW i \in Active' PROVE live'[log'[i].prompt] = log'[i].outcome
    OBVIOUS
  <2>1. /\ i \in Active /\ log'[i] = log[i]
        /\ log[i].prompt \in DOMAIN live \ {log[gone].prompt}
    BY <1>10 DEF LiveInv
  <2>2. live'[log[i].prompt] = live[log[i].prompt]
    BY <2>1
  <2> QED BY <1>10, <2>1, <2>2 DEF LiveInv
<1>14. \A i, j \in Active' : log'[i].prompt = log'[j].prompt => i = j
  <2>1. \A i, j \in Active : log[i].prompt = log[j].prompt => i = j
    BY DEF LiveInv
  <2>2. \A i \in Active' : i \in Active /\ log'[i].prompt = log[i].prompt
    BY <1>10
  <2> QED BY <2>1, <2>2
<1> QED BY <1>6, <1>8, <1>12, <1>13, <1>14 DEF LiveInv

-----------------------------------------------------------------------------
(* The allocation, and what a complete calibration holds.                    *)

\* The rounding of two shares of n that are exact only together.
LEMMA SharesAddUp ==
    ASSUME NEW n \in Nat, NEW total \in Nat \ {0}, NEW a \in Nat, NEW b \in Nat, a + b = total
    PROVE  LET left == n - ((a * n) \div total) - ((b * n) \div total)
           IN /\ left \in {0, 1}
              /\ left = 0 => (a * n) % total = 0 /\ (b * n) % total = 0
              /\ ((a * n) \div total) \in Nat /\ ((b * n) \div total) \in Nat
<1> DEFINE fa == (a * n) \div total
           fb == (b * n) \div total
           ra == (a * n) % total
           rb == (b * n) % total
<1>1. a * n \in Nat /\ b * n \in Nat /\ (a * n) + (b * n) = total * n
  OBVIOUS
<1>2. /\ fa \in Nat /\ fb \in Nat /\ ra \in 0 .. total - 1 /\ rb \in 0 .. total - 1
      /\ a * n = total * fa + ra /\ b * n = total * fb + rb
  <2> DEFINE x == a * n
             y == b * n
  <2>1. x \in Nat /\ y \in Nat
    BY <1>1
  <2> HIDE DEF x, y
  <2>2. /\ x \div total \in Nat /\ x % total \in 0 .. total - 1
        /\ x = total * (x \div total) + (x % total)
    BY <2>1
  <2>3. /\ y \div total \in Nat /\ y % total \in 0 .. total - 1
        /\ y = total * (y \div total) + (y % total)
    BY <2>1
  <2> QED BY <2>2, <2>3 DEF x, y
<1> HIDE DEF fa, fb, ra, rb
<1> DEFINE left == n - fa - fb
<1>3. left \in Int /\ total * left = ra + rb
  BY <1>1, <1>2
<1> HIDE DEF left
<1>4. ra + rb < 2 * total /\ ra + rb >= 0 /\ ra + rb \in Nat
  BY <1>2
<1>5. left >= 0
  <2> SUFFICES ASSUME left <= -1 PROVE FALSE
    BY <1>3
  <2>1. total * left <= - total
    BY <1>3
  <2> QED BY <1>3, <1>4, <2>1
<1>6. left <= 1
  <2> SUFFICES ASSUME left >= 2 PROVE FALSE
    BY <1>3
  <2>1. total * left >= 2 * total
    BY <1>3
  <2> QED BY <1>3, <1>4, <2>1
<1>7. left = 0 => ra = 0 /\ rb = 0
  BY <1>2, <1>3
<1> QED BY <1>2, <1>3, <1>5, <1>6, <1>7 DEF left, fa, fb, ra, rb

\* Both strata get something, no more than there is, and together what was asked.
LEMMA AllocationIsWhole ==
    ASSUME YieldAssumption, StageAssumption
    PROVE  /\ DOMAIN Allocation = Strata
           /\ \A s \in Strata : Allocation[s] \in Nat \ {0} /\ Allocation[s] <= Survivors[s]
           /\ Allocation["multi"] + Allocation["single"] = NPrompts
<1> DEFINE n == NPrompts
           total == Survivors["multi"] + Survivors["single"]
           floor(s) == (Survivors[s] * n) \div total
           rest(s) == (Survivors[s] * n) % total
           left == n - floor("multi") - floor("single")
           first(s) == \/ rest(s) > rest(OtherStratum(s))
                       \/ (rest(s) = rest(OtherStratum(s)) /\ s = "multi")
           rounded(s) == floor(s) + IF left = 2 \/ (left = 1 /\ first(s)) THEN 1 ELSE 0
           given(s) == IF rounded(s) = 0 THEN 1
                       ELSE IF rounded(OtherStratum(s)) = 0 THEN rounded(s) - 1 ELSE rounded(s)
<1>1. /\ ~ (n < 2 \/ total = 0 \/ \E s \in Strata : given(s) < 1 \/ given(s) > Survivors[s])
      /\ Allocation = [s \in Strata |-> given(s)]
  BY DEF StageAssumption, Allocation, Allocate
<1>2. /\ n \in Nat /\ n >= 2 /\ total \in Nat \ {0}
      /\ Survivors["multi"] \in Nat /\ Survivors["single"] \in Nat
  <2>1. ~ (n < 2) /\ ~ (total = 0)
    BY <1>1
  <2>2. n \in Nat /\ Survivors["multi"] \in Nat /\ Survivors["single"] \in Nat
    BY DEF YieldAssumption, Strata
  <2>3. total \in Nat
    BY <2>2
  <2> HIDE DEF n, total
  <2> QED BY <2>1, <2>2, <2>3
<1>3. /\ left \in {0, 1} /\ floor("multi") \in Nat /\ floor("single") \in Nat
  <2> DEFINE a == Survivors["multi"]
             b == Survivors["single"]
  <2>1. a \in Nat /\ b \in Nat /\ total \in Nat \ {0} /\ a + b = total /\ n \in Nat
    BY <1>2
  <2> HIDE DEF a, b, total, n
  <2>2. LET l == n - ((a * n) \div total) - ((b * n) \div total)
        IN l \in {0, 1} /\ ((a * n) \div total) \in Nat /\ ((b * n) \div total) \in Nat
    BY <2>1, SharesAddUp
  <2> QED BY <2>2 DEF a, b
<1>4. rest("multi") \in Nat /\ rest("single") \in Nat
  <2> DEFINE x == Survivors["multi"] * n
             y == Survivors["single"] * n
  <2>1. x \in Nat /\ y \in Nat
    BY <1>2
  <2> HIDE DEF x, y
  <2>2. x % total \in Nat /\ y % total \in Nat
    BY <1>2, <2>1
  <2> QED BY <2>2 DEF x, y
<1>5. OtherStratum("multi") = "single" /\ OtherStratum("single") = "multi"
  BY DEF OtherStratum
<1>6. left = n - floor("multi") - floor("single")
  OBVIOUS
<1> HIDE DEF n, total, left
<1>7. first("single") <=> ~ first("multi")
  <2> HIDE DEF rest
  <2> QED BY <1>4, <1>5
<1> HIDE DEF floor, first
<1>8. rounded("multi") \in Nat /\ rounded("single") \in Nat
      /\ rounded("multi") + rounded("single") = n
  <2>1. CASE left = 0
    <3>1. rounded("multi") = floor("multi") /\ rounded("single") = floor("single")
      BY <1>3, <2>1
    <3> HIDE DEF rounded
    <3> QED BY <1>2, <1>3, <1>6, <2>1, <3>1
  <2>2. CASE left = 1 /\ first("multi")
    <3>1. rounded("multi") = floor("multi") + 1 /\ rounded("single") = floor("single")
      BY <1>3, <1>7, <2>2
    <3> HIDE DEF rounded
    <3> QED BY <1>2, <1>3, <1>6, <2>2, <3>1
  <2>3. CASE left = 1 /\ ~ first("multi")
    <3>1. rounded("multi") = floor("multi") /\ rounded("single") = floor("single") + 1
      BY <1>3, <1>7, <2>3
    <3> HIDE DEF rounded
    <3> QED BY <1>2, <1>3, <1>6, <2>3, <3>1
  <2> QED BY <1>3, <2>1, <2>2, <2>3
<1> HIDE DEF rounded
<1>9. given("multi") \in Nat /\ given("single") \in Nat /\ given("multi") + given("single") = n
  BY <1>2, <1>5, <1>8
<1> HIDE DEF given
<1>10. \A s \in Strata : given(s) \in Nat /\ given(s) >= 1 /\ given(s) <= Survivors[s]
  <2>1. \A s \in Strata : ~ (given(s) < 1) /\ ~ (given(s) > Survivors[s])
    BY <1>1
  <2> QED BY <1>2, <1>9, <2>1 DEF Strata
<1>11. /\ Allocation["multi"] = given("multi") /\ Allocation["single"] = given("single")
  BY <1>1 DEF Strata
<1> QED BY <1>1, <1>9, <1>10, <1>11 DEF n

\* The prompts of one stratum are as many as it was given.
LEMMA SelectionIsAllocation ==
    ASSUME YieldAssumption, StageAssumption
    PROVE  /\ \A s \in Strata :
                  /\ IsFiniteSet({p \in SelectedPrompts : p[1] = s})
                  /\ Cardinality({p \in SelectedPrompts : p[1] = s}) = Allocation[s]
           /\ \A p \in SelectedPrompts : p[1] \in Strata
           /\ IsFiniteSet(SelectedPrompts) /\ Cardinality(SelectedPrompts) = NPrompts
<1> DEFINE Of(s) == {p \in SelectedPrompts : p[1] = s}
<1>1. \A s \in Strata :
          Allocation[s] \in Nat /\ Allocation[s] >= 1 /\ Allocation[s] <= NPrompts
  BY AllocationIsWhole DEF Strata, YieldAssumption
<1>2. \A p \in SelectedPrompts : p[1] \in Strata /\ p \in {p[1]} \X (1 .. Allocation[p[1]])
  BY DEF SelectedPrompts
<1>3. ASSUME NEW s \in Strata
      PROVE  IsFiniteSet(Of(s)) /\ Cardinality(Of(s)) = Allocation[s]
  <2> DEFINE a == Allocation[s]
  <2>1. \A i \in 1 .. a : i \in 1 .. NPrompts
    BY <1>1 DEF YieldAssumption
  <2>2. \A i \in 1 .. a : <<s, i>> \in SelectedPrompts
    BY <2>1 DEF SelectedPrompts
  <2>3. Of(s) = {s} \X (1 .. a)
    BY <1>2, <2>2
  <2>4. a \in Nat /\ a >= 1
    BY <1>1
  <2> HIDE DEF a, Of
  <2>5. IsFiniteSet(1 .. a) /\ Cardinality(1 .. a) = a
    BY <2>4, FS_Interval
  <2>6. IsFiniteSet({s}) /\ Cardinality({s}) = 1
    BY FS_Singleton
  <2>7. IsFiniteSet({s} \X (1 .. a)) /\ Cardinality({s} \X (1 .. a)) = 1 * a
    BY <2>5, <2>6, FS_Product
  <2> QED BY <2>3, <2>4, <2>7 DEF a
<1>4. SelectedPrompts = Of("multi") \cup Of("single") /\ Of("multi") \cap Of("single") = {}
  BY <1>2 DEF Strata
<1>5. "multi" \in Strata /\ "single" \in Strata
  BY DEF Strata
<1> HIDE DEF Of
<1>6. Cardinality(Of("multi") \cap Of("single")) = 0
  BY <1>4, FS_EmptySet
<1>7. /\ IsFiniteSet(SelectedPrompts)
      /\ Cardinality(SelectedPrompts) = Allocation["multi"] + Allocation["single"] - 0
  BY <1>3, <1>4, <1>5, <1>6, FS_Union
<1>8. /\ Allocation["multi"] + Allocation["single"] = NPrompts
      /\ Allocation["multi"] \in Nat /\ Allocation["single"] \in Nat
  BY <1>1, <1>5, AllocationIsWhole
<1>9. Cardinality(SelectedPrompts) = NPrompts
  BY <1>7, <1>8
<1> QED BY <1>2, <1>3, <1>7, <1>9 DEF Of

-----------------------------------------------------------------------------
(* The yield counts what is in effect.                                       *)

\* What an injective function takes a set to is as many.
LEMMA AsManyImages ==
    ASSUME NEW A, IsFiniteSet(A), NEW f, A \subseteq DOMAIN f,
           \A i, j \in A : f[i] = f[j] => i = j
    PROVE  /\ IsFiniteSet({f[i] : i \in A})
           /\ Cardinality({f[i] : i \in A}) = Cardinality(A)
<1> DEFINE B == {f[i] : i \in A}
           g == [i \in A |-> f[i]]
<1>1. /\ g \in [A -> B] /\ \A i, j \in A : g[i] = g[j] => i = j
      /\ \A k \in B : \E i \in A : g[i] = k
  OBVIOUS
<1> HIDE DEF g, B
<1>2. g \in Bijection(A, B)
  BY <1>1 DEF Bijection, Injection, Surjection, IsInjective
<1>3. IsFiniteSet(B) /\ Cardinality(B) = Cardinality(A)
  BY <1>2, FS_Bijection DEF ExistsBijection
<1> QED BY <1>3 DEF B

LEMMA PromptsAreAsMany ==
    ASSUME LogInv, LiveInv, NEW A \in SUBSET Active
    PROVE  /\ IsFiniteSet(A) /\ IsFiniteSet({log[i].prompt : i \in A})
           /\ Cardinality({log[i].prompt : i \in A}) = Cardinality(A)
<1> DEFINE f == [i \in A |-> log[i].prompt]
<1>1. IsFiniteSet(A)
  <2>1. A \in SUBSET DOMAIN log
    BY DEF Active
  <2> QED BY <2>1, SequenceDomain, FS_Subset DEF LogInv
<1>2. \A i, j \in A : f[i] = f[j] => i = j
  BY DEF LiveInv
<1>3. {f[i] : i \in A} = {log[i].prompt : i \in A} /\ DOMAIN f = A
  OBVIOUS
<1> HIDE DEF f
<1>4. A \subseteq DOMAIN f
  BY <1>3
<1>5. IsFiniteSet({f[i] : i \in A}) /\ Cardinality({f[i] : i \in A}) = Cardinality(A)
  BY <1>1, <1>2, <1>4, AsManyImages
<1> QED BY <1>1, <1>3, <1>5

LEMMA CountsAreLive ==
    ASSUME LogInv, LiveInv
    PROVE  /\ Mined = LiveMined /\ PairCounts = LivePairs
           /\ Buckets["zero_correct"] + Buckets["all_correct"] + Buckets["pair"]
                  = Cardinality(DOMAIN live)
<1>1. ASSUME NEW s \in Strata
      PROVE  Cardinality({i \in Active : log[i].prompt[1] = s})
                 = Cardinality({p \in DOMAIN live : p[1] = s})
  <2> DEFINE A == {i \in Active : log[i].prompt[1] = s}
  <2>1. {log[i].prompt : i \in A} = {p \in DOMAIN live : p[1] = s}
    BY DEF LiveInv
  <2>2. A \in SUBSET Active
    OBVIOUS
  <2> HIDE DEF A
  <2>3. Cardinality({log[i].prompt : i \in A}) = Cardinality(A)
    BY <2>2, PromptsAreAsMany
  <2> QED BY <2>1, <2>3 DEF A
<1>2. ASSUME NEW s \in Strata
      PROVE  PairsOf(s) = Cardinality({p \in DOMAIN live : p[1] = s /\ HasPair(live[p])})
  <2> DEFINE A == {i \in Active : HasPair(log[i].outcome) /\ log[i].prompt[1] = s}
             P == {p \in Pairs : p.prompt[1] = s}
             f == [i \in A |-> MaterializePair(log[i].prompt, log[i].outcome)]
  <2>1. \A i \in A : f[i].prompt = log[i].prompt
    BY DEF MaterializePair
  <2>2. {f[i] : i \in A} = P
    <3>1. ASSUME NEW i \in A PROVE f[i] \in P
      BY <2>1 DEF Pairs
    <3>2. ASSUME NEW p \in P PROVE \E i \in A : f[i] = p
      <4>1. PICK i \in Active : /\ HasPair(log[i].outcome)
                                /\ p = MaterializePair(log[i].prompt, log[i].outcome)
        BY DEF Pairs
      <4>2. p.prompt = log[i].prompt
        BY <4>1 DEF MaterializePair
      <4>3. i \in A
        BY <4>1, <4>2
      <4> QED BY <4>1, <4>3
    <3> QED BY <3>1, <3>2
  <2>3. {log[i].prompt : i \in A} = {p \in DOMAIN live : p[1] = s /\ HasPair(live[p])}
    BY DEF LiveInv
  <2>4. A \in SUBSET Active /\ DOMAIN f = A
    OBVIOUS
  <2>5. \A i, j \in A : f[i] = f[j] => i = j
    <3>1. \A i, j \in A : log[i].prompt = log[j].prompt => i = j
      BY DEF LiveInv
    <3> HIDE DEF A, f
    <3> QED BY <2>1, <3>1
  <2> HIDE DEF A, f
  <2>6. IsFiniteSet(A) /\ Cardinality({log[i].prompt : i \in A}) = Cardinality(A)
    BY <2>4, PromptsAreAsMany
  <2>7. Cardinality({f[i] : i \in A}) = Cardinality(A)
    BY <2>4, <2>5, <2>6, AsManyImages
  <2> QED BY <2>2, <2>3, <2>6, <2>7 DEF PairsOf
<1>3. Mined = LiveMined
  BY <1>1 DEF Mined, LiveMined
<1>4. PairCounts = LivePairs
  BY <1>2 DEF PairCounts, LivePairs
<1>5. Buckets["zero_correct"] + Buckets["all_correct"] + Buckets["pair"]
          = Cardinality(DOMAIN live)
  <2> DEFINE A(b) == {i \in Active : BucketOf(log[i].outcome) = b}
  <2>1. /\ A("zero_correct") \in SUBSET Active /\ A("all_correct") \in SUBSET Active
        /\ A("pair") \in SUBSET Active /\ Active \in SUBSET Active
    OBVIOUS
  <2>2. /\ Active = (A("zero_correct") \cup A("all_correct")) \cup A("pair")
        /\ A("zero_correct") \cap A("all_correct") = {}
        /\ (A("zero_correct") \cup A("all_correct")) \cap A("pair") = {}
    BY DEF BucketOf
  <2>3. /\ Buckets["zero_correct"] = Cardinality(A("zero_correct"))
        /\ Buckets["all_correct"] = Cardinality(A("all_correct"))
        /\ Buckets["pair"] = Cardinality(A("pair"))
    BY DEF Buckets
  <2> HIDE DEF A
  <2>4. /\ IsFiniteSet(A("zero_correct")) /\ IsFiniteSet(A("all_correct"))
        /\ IsFiniteSet(A("pair"))
    BY <2>1, PromptsAreAsMany
  <2>5. Cardinality({}) = 0
    BY FS_EmptySet
  <2>6. /\ IsFiniteSet(A("zero_correct") \cup A("all_correct"))
        /\ Cardinality(A("zero_correct") \cup A("all_correct"))
              = Cardinality(A("zero_correct")) + Cardinality(A("all_correct")) - 0
    BY <2>2, <2>4, <2>5, FS_Union
  <2>7. Cardinality(Active) = Cardinality(A("zero_correct") \cup A("all_correct"))
                              + Cardinality(A("pair")) - 0
    BY <2>2, <2>4, <2>5, <2>6, FS_Union
  <2>8. Cardinality(DOMAIN live) = Cardinality(Active)
    BY <2>1, PromptsAreAsMany DEF LiveInv
  <2>9. /\ Cardinality(A("zero_correct")) \in Nat /\ Cardinality(A("all_correct")) \in Nat
        /\ Cardinality(A("pair")) \in Nat
    BY <2>4, FS_CardinalityType
  <2> QED BY <2>3, <2>6, <2>7, <2>8, <2>9
<1> QED BY <1>3, <1>4, <1>5

\* A calibration that is complete by its counts holds the whole selection.
LEMMA CompleteIsAll ==
    ASSUME YieldAssumption, StageAssumption
    PROVE  LogInv /\ LiveInv /\ Complete => DOMAIN live = SelectedPrompts
<1> SUFFICES ASSUME LogInv, LiveInv, Complete PROVE DOMAIN live = SelectedPrompts
  OBVIOUS
<1>1. DOMAIN live \in SUBSET SelectedPrompts
  BY LiveIsWork
<1>2. ASSUME NEW p \in SelectedPrompts PROVE p \in DOMAIN live
  <2> DEFINE s == p[1]
             L == {q \in DOMAIN live : q[1] = s}
             S == {q \in SelectedPrompts : q[1] = s}
  <2>1. s \in Strata
    BY SelectionIsAllocation
  <2>2. IsFiniteSet(S) /\ Cardinality(S) = Allocation[s]
    BY <2>1, SelectionIsAllocation
  <2>3. Cardinality(L) = Allocation[s]
    BY <2>1, CountsAreLive DEF Complete, LiveMined
  <2>4. L \in SUBSET S /\ p \in S
    BY <1>1
  <2> HIDE DEF L, S
  <2>5. L = S
    BY <2>2, <2>3, <2>4, FS_Subset
  <2> QED BY <2>4, <2>5 DEF L
<1> QED BY <1>1, <1>2

\* The decision derived from a complete calibration, and the family it fixes.
LEMMA DerivedDecides ==
    ASSUME YieldAssumption, StageAssumption, Complete
    PROVE  LET summary == Derived["mining_summary"]
           IN /\ summary.decision = GateDecision(Mined, PairCounts)
              /\ summary.decision \in {"proceed", "cautiously", "do not"}
              /\ summary.amendment.family = 5 <=>
                     summary.decision = "proceed" /\ PlannedSteps < StepLimit
              /\ Planned <=> summary.decision \in {"proceed", "cautiously"}
<1> DEFINE d == GateDecision(Mined, PairCounts)
<1>1. ~ Undefined(Mined)
  BY AllocationIsWhole DEF Complete, Undefined
<1>2. d \in {"proceed", "cautiously", "do not"}
  BY <1>1 DEF GateDecision
<1> HIDE DEF d
<1>3. Amendment5(d).family = 5 <=> d = "proceed" /\ PlannedSteps < StepLimit
  <2>1. CASE d = "do not"
    <3>1. Amendment5(d).family = 4
      BY <2>1 DEF Amendment5
    <3>2. d # "proceed"
      BY <2>1
    <3>3. Amendment5(d).family # 5
      BY <3>1
    <3> QED BY <3>2, <3>3
  <2>2. CASE d = "cautiously"
    <3>1. Amendment5(d).family = 4
      BY <2>2 DEF Amendment5
    <3> QED BY <2>2, <3>1
  <2>3. CASE d = "proceed"
    <3>1. CASE PlannedSteps < StepLimit
      <4>1. Amendment5(d).family = 5
        BY <2>3, <3>1 DEF Amendment5
      <4> QED BY <2>3, <3>1, <4>1
    <3>2. CASE ~ (PlannedSteps < StepLimit)
      <4>1. Amendment5(d).family = 4
        BY <2>3, <3>2 DEF Amendment5
      <4> QED BY <2>3, <3>2, <4>1
    <3> QED BY <3>1, <3>2
  <2> QED BY <1>2, <2>1, <2>2, <2>3
<1>4. Derived["mining_summary"].decision = d /\ Derived["mining_summary"].amendment = Amendment5(d)
  BY DEF Derived, MayDecide, d
<1>5. Planned <=> d \in {"proceed", "cautiously"}
  BY DEF Planned, MayDecide, d
<1>6. /\ Derived["mining_summary"].decision \in {"proceed", "cautiously", "do not"}
      /\ Derived["mining_summary"].decision = GateDecision(Mined, PairCounts)
  BY <1>2, <1>4 DEF d
<1> QED BY <1>3, <1>4, <1>5, <1>6

LEMMA InvIsDecision ==
    ASSUME YieldAssumption, StageAssumption, YieldInv
    PROVE  DecisionStands
<1> DEFINE summary == derived.mining_summary
<1>1. ASSUME ~ unsettled, summary.decision # "none"
      PROVE  /\ DOMAIN live = SelectedPrompts /\ Cardinality(SelectedPrompts) = NPrompts
             /\ summary.decision = GateDecision(LiveMined, LivePairs)
             /\ summary.decision # "undecidable"
             /\ derived.mined_pairs = Pairs /\ derived.sft_bucket = LiveUnsolved
             /\ summary.amendment.family = 5 <=>
                    summary.decision = "proceed" /\ PlannedSteps < StepLimit
             /\ summary.decision # "do not" => \A r \in Reasons : Cell(r) # 1
  <2>1. /\ Complete /\ ~ (Planned /\ ThinCell)
        /\ summary = Derived["mining_summary"]
        /\ derived["mined_pairs"] = Derived["mined_pairs"]
        /\ derived["sft_bucket"] = Derived["sft_bucket"]
    BY <1>1 DEF YieldInv, SummaryInv, UpToDate, Derivatives
  <2>2. Mined = LiveMined /\ PairCounts = LivePairs
    BY CountsAreLive DEF YieldInv
  <2>3. DOMAIN live = SelectedPrompts
    BY <2>1, CompleteIsAll DEF YieldInv
  <2>4. Cardinality(SelectedPrompts) = NPrompts
    BY SelectionIsAllocation
  <2>5. Derived["mined_pairs"] = Pairs /\ Derived["sft_bucket"] = Unsolved
    BY DEF Derived
  <2>6. Unsolved = LiveUnsolved
    BY DEF Unsolved, LiveUnsolved, YieldInv, LiveInv
  <2> HIDE DEF summary
  <2>7. /\ summary.decision = GateDecision(Mined, PairCounts)
        /\ summary.decision \in {"proceed", "cautiously", "do not"}
        /\ summary.amendment.family = 5 <=>
               summary.decision = "proceed" /\ PlannedSteps < StepLimit
        /\ Planned <=> summary.decision \in {"proceed", "cautiously"}
    BY <2>1, DerivedDecides
  <2> QED BY <2>1, <2>2, <2>3, <2>4, <2>5, <2>6, <2>7 DEF ThinCell
<1> QED BY <1>1, CountsAreLive DEF DecisionStands, YieldInv

AllLive == DOMAIN live = SelectedPrompts

\* The same of the next state.
LEMMA CompleteIsAllNext ==
    ASSUME YieldAssumption, StageAssumption
    PROVE  LogInv' /\ LiveInv' /\ Complete' => DOMAIN live' = SelectedPrompts
<1>1. LogInv /\ LiveInv /\ Complete => AllLive
  BY CompleteIsAll DEF AllLive
<1>2. LogInv' /\ LiveInv' /\ Complete' => AllLive'
  BY <1>1, PTL
<1> QED BY <1>2 DEF AllLive

LEMMA YieldInitInv ==
    YieldInit => YieldInv
<1> SUFFICES ASSUME YieldInit PROVE YieldInv
  OBVIOUS
<1>1. /\ log = <<>> /\ DOMAIN live = {} /\ doing = "out" /\ replaced = 0
      /\ derived["mining_summary"].decision = "none" /\ DOMAIN derived = Derivatives
  BY DEF YieldInit, Derivatives
<1>2. DOMAIN log = {} /\ IsSequence(log)
  BY <1>1, EmptySeq DEF IsSequence
<1>3. Active = {}
  BY <1>2 DEF Active
<1> QED BY <1>1, <1>2, <1>3
     DEF YieldInv, LogInv, LiveInv, SummaryInv, WritingInv, DoomedInv

\* What is derived depends on the ledger only.
LEMMA SameLedger ==
    ASSUME LogInv, LiveInv, UNCHANGED <<log, live>>
    PROVE  /\ LogInv' /\ LiveInv' /\ Active' = Active
           /\ (Complete <=> Complete') /\ ((Planned /\ ThinCell) <=> (Planned /\ ThinCell)')
           /\ Derived' = Derived
<1>1. Active' = Active /\ Retired' = Retired
  BY DEF Active, Retired
<1>2. Pairs' = Pairs /\ Unsolved' = Unsolved /\ Mined' = Mined
  BY <1>1 DEF Pairs, Unsolved, Mined
<1>3. LogInv' /\ LiveInv'
  BY <1>1 DEF LogInv, LiveInv, IsWork, IsRedo
<1>4. Complete <=> Complete'
  BY <1>2 DEF Complete
<1>5. \A r : Cell(r)' = Cell(r)
  BY <1>2 DEF Cell
<1>6. ThinCell <=> ThinCell'
  BY <1>5 DEF ThinCell
<1>7. PairCounts' = PairCounts
  BY <1>2 DEF PairCounts, PairsOf
<1>8. PlannedSteps' = PlannedSteps
  BY <1>5 DEF PlannedSteps, TrainPairs, Train
<1>9. \A d : Amendment5(d)' = Amendment5(d)
  BY <1>8 DEF Amendment5
<1>10. Planned <=> Planned'
  BY <1>2, <1>4, <1>7 DEF Planned, MayDecide
<1> QED BY <1>1, <1>2, <1>3, <1>4, <1>6, <1>7, <1>9, <1>10 DEF Derived, MayDecide

\* Nor does the invariant change where only the process does.
LEMMA SameFiles ==
    ASSUME YieldInv, UNCHANGED <<log, live, derived, unsettled>>, WritingInv', DoomedInv'
    PROVE  YieldInv'
<1>1. SummaryInv'
  BY SameLedger DEF YieldInv, SummaryInv, UpToDate
<1> QED BY <1>1, SameLedger DEF YieldInv

\* A derivation replaces its next file.
LEMMA WriteKeepsFiles ==
    ASSUME YieldInv, WriteDerived
    PROVE  YieldInv'
<1> DEFINE f == WriteOrder[replaced + 1]
<1>1. /\ LogInv /\ LiveInv /\ DOMAIN derived = Derivatives
      /\ doing = "writing" /\ ~ (Planned /\ ThinCell) /\ replaced \in 0 .. 2
      /\ replaced >= 1 => UpToDate("mined_pairs")
      /\ replaced = 2 => UpToDate("sft_bucket")
  BY DEF YieldInv, SummaryInv, WritingInv, WriteDerived
<1>2. /\ UNCHANGED <<log, live>> /\ derived' = [derived EXCEPT ![f] = Derived[f]]
      /\ replaced = 2 => doing' = "out" /\ replaced' = 0
      /\ replaced < 2 => doing' = "writing" /\ replaced' = replaced + 1 /\ unsettled' = unsettled
  BY <1>1 DEF WriteDerived, WriteOrder
<1>3. /\ replaced = 0 => f = "mined_pairs"
      /\ replaced = 1 => f = "sft_bucket"
      /\ replaced = 2 => f = "mining_summary"
      /\ f \in Derivatives
  BY <1>1 DEF WriteOrder, Derivatives
<1> HIDE DEF f
<1>4. /\ LogInv' /\ LiveInv' /\ (Complete <=> Complete') /\ Derived' = Derived
      /\ ((Planned /\ ThinCell) <=> (Planned /\ ThinCell)')
  BY <1>1, <1>2, SameLedger
<1>5. /\ DOMAIN derived' = Derivatives /\ derived'[f] = Derived[f]
      /\ \A g \in Derivatives \ {f} : derived'[g] = derived[g]
  BY <1>1, <1>2, <1>3
<1>6. \A g \in Derivatives : g = f \/ UpToDate(g) => UpToDate(g)'
  BY <1>4, <1>5 DEF UpToDate
<1>7. WritingInv'
  <2>1. CASE replaced = 2
    BY <1>2, <2>1 DEF WritingInv
  <2>2. CASE replaced < 2
    <3>1. replaced' >= 1 => UpToDate("mined_pairs")'
      BY <1>1, <1>3, <1>6, <2>2 DEF Derivatives
    <3>2. replaced' = 2 => UpToDate("sft_bucket")'
      BY <1>1, <1>2, <1>3, <1>6, <2>2
    <3> QED BY <1>1, <1>2, <1>4, <2>2, <3>1, <3>2 DEF WritingInv
  <2> QED BY <1>1, <2>1, <2>2
<1>8. SummaryInv'
  <2> SUFFICES ASSUME ~ unsettled', derived'["mining_summary"].decision # "none"
               PROVE  Complete' /\ ~ (Planned /\ ThinCell)' /\ \A g \in Derivatives : UpToDate(g)'
    BY <1>5 DEF SummaryInv
  <2>1. CASE replaced = 2
    <3>1. \A g \in Derivatives : UpToDate(g)'
      BY <1>1, <1>3, <1>6, <2>1 DEF Derivatives
    <3>2. Derived["mining_summary"].decision # "none"
      BY <1>3, <1>5, <2>1
    <3>3. Complete
      BY <3>2 DEF Derived, MayDecide
    <3> QED BY <1>1, <1>4, <3>1, <3>3
  <2>2. CASE replaced < 2
    <3>1. derived["mining_summary"].decision # "none" /\ ~ unsettled
      BY <1>1, <1>2, <1>3, <1>5, <2>2 DEF Derivatives
    <3>2. Complete /\ \A g \in Derivatives : UpToDate(g)
      BY <3>1 DEF YieldInv, SummaryInv
    <3> QED BY <1>1, <1>4, <1>6, <3>2
  <2> QED BY <1>1, <2>1, <2>2
<1>9. DoomedInv'
  BY <1>1, <1>2 DEF DoomedInv
<1> QED BY <1>4, <1>7, <1>8, <1>9 DEF YieldInv

LEMMA YieldNextInv ==
    ASSUME YieldAssumption, StageAssumption
    PROVE  YieldInv /\ [YieldNext]_YieldVars => YieldInv'
<1> SUFFICES ASSUME YieldInv, [YieldNext]_YieldVars PROVE YieldInv'
  OBVIOUS
<1>0. LogInv /\ LiveInv /\ SummaryInv /\ WritingInv /\ DoomedInv
  BY DEF YieldInv
<1>1. CASE StartMining \/ EndMining \/ SamplingFails \/ KillStage
  <2>1. /\ UNCHANGED <<log, live, derived, unsettled>>
        /\ doing' # "writing" /\ doing' # "retiring" /\ replaced' = 0
    BY <1>0, <1>1 DEF StartMining, EndMining, SamplingFails, KillStage, WritingInv
  <2>2. WritingInv' /\ DoomedInv'
    BY <2>1 DEF WritingInv, DoomedInv
  <2> QED BY <2>1, <2>2, SameFiles
<1>2. ASSUME NEW p \in SelectedPrompts, MinePrompt(p) PROVE YieldInv'
  <2>1. /\ doing = "mining" /\ doing' \in {"mining", "deriving"} /\ replaced' = replaced
        /\ UNCHANGED <<derived, unsettled>> /\ p \in SelectedPrompts \ DOMAIN live
    BY <1>2 DEF MinePrompt, Waiting
  <2>2. WritingInv' /\ DoomedInv'
    BY <1>0, <2>1 DEF WritingInv, DoomedInv
  <2>3. CASE UNCHANGED <<log, live>>
    BY <2>1, <2>2, <2>3, SameFiles
  <2>4. CASE ~ UNCHANGED <<log, live>>
    <3>1. PICK texts \in [1 .. Samples -> Said[p]] :
              LET outcome == [k \in 1 .. Samples |->
                                 [text |-> texts[k], verdict |-> Verify(texts[k], Target[p])]]
              IN /\ ~ \E k \in 1 .. Samples : outcome[k].verdict.verdict = "raises"
                 /\ log' = Append(log, Record(p, outcome))
                 /\ live' = [q \in DOMAIN live \cup {p} |-> IF q = p THEN outcome ELSE live[q]]
      BY <1>2, <2>4 DEF MinePrompt
    <3> DEFINE outcome == [k \in 1 .. Samples |->
                              [text |-> texts[k], verdict |-> Verify(texts[k], Target[p])]]
    <3>2. OutcomeOK(p, outcome)
      BY <3>1 DEF OutcomeOK
    <3>3. /\ log' = Append(log, Record(p, outcome))
          /\ live' = [q \in DOMAIN live \cup {p} |-> IF q = p THEN outcome ELSE live[q]]
      BY <3>1
    <3> HIDE DEF outcome
    <3>4. LogInv' /\ LiveInv'
      BY <1>0, <2>1, <3>2, <3>3, MineKeepsEffect
    <3>5. ~ Complete
      BY <1>0, <2>1, CompleteIsAll
    <3>6. SummaryInv'
      BY <1>0, <2>1, <3>5 DEF SummaryInv
    <3> QED BY <2>2, <3>4, <3>6 DEF YieldInv
  <2> QED BY <2>3, <2>4
<1>3. ASSUME NEW n \in 1 .. MaxRedo, StartRedo(n) PROVE YieldInv'
  <2>1. /\ UNCHANGED <<log, live, derived, unsettled, replaced>> /\ doing = "out"
        /\ doing' = IF doomed' = {} THEN "deriving" ELSE "retiring"
        /\ doomed' = Newest(n)
    BY <1>3 DEF StartRedo
  <2>2. doomed' \in SUBSET Active'
    BY <1>0, <2>1, SameLedger DEF Newest
  <2>3. WritingInv' /\ DoomedInv'
    BY <1>0, <2>1, <2>2 DEF WritingInv, DoomedInv
  <2> QED BY <2>1, <2>3, SameFiles
<1>4. CASE Retire
  <2> DEFINE i == Lowest(doomed)
  <2>1. /\ doing = "retiring" /\ unsettled' /\ UNCHANGED <<replaced, derived>>
        /\ doing' = (IF doomed' = {} THEN "deriving" ELSE "retiring")
        /\ doomed' = doomed \ {i} /\ log' = Append(log, Tombstone(i))
        /\ live' = [q \in DOMAIN live \ {log[i].prompt} |-> live[q]]
    BY <1>4 DEF Retire, RetireLowest
  <2>2. doomed \in SUBSET Active /\ doomed # {}
    BY <1>0, <2>1 DEF DoomedInv
  <2>3. i \in doomed
    <3>1. Active \in SUBSET Nat
      BY <1>0, SequenceDomain DEF Active, LogInv
    <3> QED BY <2>2, <3>1, LowestIsIn
  <2> HIDE DEF i
  <2>4. LogInv' /\ LiveInv' /\ Active' = Active \ {i}
    BY <1>0, <2>1, <2>2, <2>3, RetireKeepsEffect
  <2>5. DoomedInv'
    BY <2>1, <2>2, <2>4 DEF DoomedInv
  <2>6. WritingInv' /\ SummaryInv'
    BY <1>0, <2>1 DEF WritingInv, SummaryInv
  <2> QED BY <2>4, <2>5, <2>6 DEF YieldInv
<1>5. CASE Derive
  <2>1. /\ UNCHANGED <<log, live, derived, unsettled, replaced>>
        /\ doing = "deriving" /\ doing' = IF Planned /\ ThinCell THEN "out" ELSE "writing"
    BY <1>5 DEF Derive
  <2>2. DoomedInv'
    BY <2>1 DEF DoomedInv
  <2>3. replaced' = 0
    BY <1>0, <2>1 DEF WritingInv
  <2>4. WritingInv'
    BY <1>0, <2>1, <2>3, SameLedger DEF WritingInv
  <2> QED BY <2>1, <2>2, <2>4, SameFiles
<1>6. CASE WriteDerived
  BY <1>6, WriteKeepsFiles
<1>7. CASE UNCHANGED YieldVars
  <2>1. UNCHANGED <<log, live, derived, unsettled, doing, replaced, doomed>>
    BY <1>7 DEF YieldVars
  <2>2. WritingInv' /\ DoomedInv'
    BY <1>0, <2>1, SameLedger DEF WritingInv, DoomedInv, UpToDate
  <2> QED BY <2>1, <2>2, SameFiles
<1> QED BY <1>1, <1>2, <1>3, <1>4, <1>5, <1>6, <1>7 DEF YieldNext

\* For any survivors, targets, policies, numbers of samples and rollbacks, every
\* pair on disk or derived is a preference, and no prompt gives two.
THEOREM PairsPrefer ==
    ASSUME YieldAssumption, StageAssumption PROVE YieldSpec => []PairsArePreferences
<1>1. YieldInv => PairsArePreferences
  BY EffectGivesPreferences DEF YieldInv
<1> QED BY YieldInitInv, YieldNextInv, <1>1, PTL DEF YieldSpec

\* The counts of the yield are of what is in effect, whatever was rolled back and
\* mined again; and wherever a rollback or a derivation is killed, a decision on disk
\* is that of the whole calibration as it is, with its pairs beside it, unless records
\* were retired and neither that rollback nor a run after it has returned.
THEOREM TheDecisionStands ==
    ASSUME YieldAssumption, StageAssumption PROVE YieldSpec => []DecisionStands
<1>1. YieldInv => DecisionStands
  BY InvIsDecision
<1> QED BY YieldInitInv, YieldNextInv, <1>1, PTL DEF YieldSpec
=============================================================================
