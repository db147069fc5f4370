-------------------------------- MODULE Subset --------------------------------
(***************************************************************************)
(* The development subset: mining/dev_subset.py chooses it and writes the  *)
(* receipt, a commit pins the receipt, eval/dev_subset_gate.py checks it   *)
(* before anything is scored, and eval/bfcl_simple.py restricts what it    *)
(* has loaded to it.  The files may be edited between the commands, and    *)
(* under a running one.                                                    *)
(*                                                                         *)
(* A digest is the version of the file it is of.  A row of a question file *)
(* is its id, its question and its number of tools; of a key, its id.      *)
(***************************************************************************)
EXTENDS Integers, Sequences, FiniteSets, Functions, Totals

CONSTANTS DevQuestions,   \* [version -> rows] of the development questions
          Keys,        \* [version -> ids, in order] of their answer key
          Finals,      \* [version -> set of questions] of the final scoring sets
          DevManifests,   \* [version -> what it declares and pins]
          DevVersions,        \* [file -> the versions it may be in]
          DevBuckets,     \* the tool counts of each bucket, in order
          Size,        \* SUBSET_SIZE
          Order,       \* the rows' ids by their digests under the seed
          NoSubset, Half,  \* a receipt that is not there, or was left half-written
          MaxTouches   \* bound on edits under a running command

\* The buckets are apart, the digests of ids too, and every version is one there is.
SubsetAssumption ==
    /\ Size \in Nat \ {0} /\ MaxTouches \in Nat
    /\ DevBuckets \in Seq(SUBSET Nat)
    /\ \A i, j \in DOMAIN DevBuckets : i # j => DevBuckets[i] \cap DevBuckets[j] = {}
    /\ \A i, j \in DOMAIN Order : Order[i] = Order[j] => i = j
    /\ DOMAIN Order \subseteq Nat
    /\ \A v \in DOMAIN DevQuestions :
           /\ DevQuestions[v] \in Seq(Range(DevQuestions[v]))
           /\ \A row \in Range(DevQuestions[v]) : row.id \in Range(Order)
    /\ \A v \in DOMAIN Keys : Keys[v] \in Seq(Range(Keys[v]))
    /\ DOMAIN DevVersions = {"manifest", "questions", "key", "final"}
    /\ DevVersions["manifest"] \subseteq DOMAIN DevManifests
    /\ DevVersions["questions"] \subseteq DOMAIN DevQuestions
    /\ DevVersions["key"] \subseteq DOMAIN Keys

VARIABLES store,     \* [file -> version]: manifest, questions, key, final
          chosen,    \* the receipt
          pinned,    \* the receipt whose digests the gate holds
          task,      \* the running command and what it has read
          scored,    \* what runs went on to score (history)
          touches

SubsetVars == <<store, chosen, pinned, task, scored, touches>>

-----------------------------------------------------------------------------
(* dev_subset: choosing. *)

DevBucketOf(tools) == CHOOSE i \in DOMAIN DevBuckets : tools \in DevBuckets[i]

SumOver(f) == Total(f, Len(DevBuckets))

\* Mutant: what the floors leave goes to the first bucket.
FrontLoaded(sizes, total) ==
    LET floor == [i \in DOMAIN sizes |-> (sizes[i] * total) \div SumOver(sizes)]
    IN {[i \in DOMAIN sizes |-> floor[i] + IF i = 1 THEN total - SumOver(floor) ELSE 0]}

\* _allocate: floors, and a slot more to the largest remainders.  The code takes
\* the remainders of floats, so which of two equal ones is the larger is left open.
Allocations(sizes, total) ==
    LET population == SumOver(sizes)
        floor == [i \in DOMAIN sizes |-> (sizes[i] * total) \div population]
        rest == [i \in DOMAIN sizes |-> (sizes[i] * total) % population]
        left == total - SumOver(floor)
        raised == {S \in SUBSET DOMAIN sizes :
                      /\ Cardinality(S) = left
                      /\ \A i \in S, j \in DOMAIN sizes \ S : rest[i] >= rest[j]}
    IN {[i \in DOMAIN sizes |-> floor[i] + IF i \in S THEN 1 ELSE 0] : S \in raised}

Eligible(rows, finals) == {i \in DOMAIN rows : rows[i].question \notin finals}
IdsIn(rows, some) == {rows[i].id : i \in some}
Before(id) == CHOOSE n \in DOMAIN Order : Order[n] = id
\* sorted: by the digest of the id, and rows of one id as they were.
Precedes(rows, i, j) ==
    \/ Before(rows[i].id) < Before(rows[j].id)
    \/ rows[i].id = rows[j].id /\ i < j
Earliest(rows, some, k) ==
    {i \in some : Cardinality({j \in some : Precedes(rows, j, i)}) < k}
Bucketed(rows, finals) ==
    [b \in DOMAIN DevBuckets |-> {i \in Eligible(rows, finals) : DevBucketOf(rows[i].tools) = b}]

\* Some rows of every bucket: a bucket may be given no more than it has.
Picks(rows, finals) ==
    LET by == Bucketed(rows, finals)
        sizes == [b \in DOMAIN DevBuckets |-> Cardinality(by[b])]
    IN {UNION {Earliest(rows, by[b], a[b]) : b \in DOMAIN DevBuckets} :
           a \in {x \in Allocations(sizes, Size) : \A b \in DOMAIN DevBuckets : x[b] <= sizes[b]}}

\* build: the manifest marks the category and pins every file that is read, there are
\* rows enough, and each falls in a bucket.
MayBuild(m) ==
    /\ DevManifests[m].role = "development"
    /\ store["questions"] = DevManifests[m].questions /\ store["key"] = DevManifests[m].key
    /\ store["final"] = DevManifests[m].final
    /\ LET rows == DevQuestions[store["questions"]]
           eligible == Eligible(rows, Finals[store["final"]])
       IN /\ Cardinality(eligible) >= Size
          /\ \A i \in eligible : \E b \in DOMAIN DevBuckets : rows[i].tools \in DevBuckets[b]

Built(m) ==
    LET rows == DevQuestions[DevManifests[m].questions]
        ids == {IdsIn(rows, taken) : taken \in Picks(rows, Finals[DevManifests[m].final])}
    IN {[ids |-> i, manifest |-> m] : i \in {j \in ids : Cardinality(j) = Size}}

-----------------------------------------------------------------------------
(* The commands. *)

NoTask == [cmd |-> "none", questions |-> NoSubset, key |-> NoSubset, ids |-> {}]
ReceiptReads(r) == r \notin {NoSubset, Half}

SubsetInit ==
    /\ store \in {s \in [DOMAIN DevVersions -> UNION Range(DevVersions)] : \A f \in DOMAIN DevVersions : s[f] \in DevVersions[f]}
    /\ chosen = NoSubset /\ pinned = NoSubset /\ task = NoTask
    /\ scored = {} /\ touches = 0

\* An edit, by anyone.
Touch(f) ==
    /\ task # NoTask => touches < MaxTouches
    /\ touches' = IF task # NoTask THEN touches + 1 ELSE touches
    /\ \E v \in DevVersions[f] \ {store[f]} : store' = [store EXCEPT ![f] = v]
    /\ UNCHANGED <<chosen, pinned, task, scored>>

\* dev_subset: the receipt, whole or torn.
WriteReceipt ==
    /\ task = NoTask /\ MayBuild(store["manifest"])
    /\ chosen' \in Built(store["manifest"]) \cup {Half}
    /\ UNCHANGED <<store, pinned, task, scored, touches>>

\* dev_subset --verify, and the commit of what it verified.
VerifyAndPin ==
    /\ task = NoTask /\ ReceiptReads(chosen)
    /\ MayBuild(store["manifest"]) /\ chosen \in Built(store["manifest"])
    /\ pinned' = chosen
    /\ UNCHANGED <<store, chosen, task, scored, touches>>

\* bfcl_simple loads both files before the gate is asked.
LoadFiles ==
    /\ task = NoTask
    /\ task' = [cmd |-> "gate", questions |-> store["questions"], key |-> store["key"], ids |-> {}]
    /\ UNCHANGED <<store, chosen, pinned, scored, touches>>

\* Mutant: the gate checks the receipt alone.
GateReceiptOnly == ReceiptReads(chosen) /\ chosen = pinned

\* load_dev_subset_ids: the receipt is the pinned one and of this manifest, which
\* marks the category and pins the files, and every id is in the questions.
Gate ==
    LET m == store["manifest"]
    IN /\ ReceiptReads(chosen) /\ chosen = pinned /\ chosen.manifest = m
       /\ DevManifests[m].role = "development"
       /\ store["questions"] = DevManifests[m].questions /\ store["key"] = DevManifests[m].key
       /\ Cardinality(chosen.ids) = Size
       /\ LET qs == DevQuestions[store["questions"]] IN chosen.ids \subseteq IdsIn(qs, DOMAIN qs)

PassGate ==
    /\ task.cmd = "gate"
    /\ task' = IF Gate THEN [task EXCEPT !.cmd = "restrict", !.ids = chosen.ids] ELSE NoTask
    /\ UNCHANGED <<store, chosen, pinned, scored, touches>>

\* Mutant: what one side lacks is left out of the other.
Intersected(questions, key, ids) == TRUE

\* restrict_to_dev_subset: each pinned id once, on both sides.
Restrictable(questions, key, ids) ==
    \A id \in ids : /\ Cardinality({i \in DOMAIN questions : questions[i].id = id}) = 1
                    /\ Cardinality({i \in DOMAIN key : key[i] = id}) = 1

RestrictBoth ==
    /\ task.cmd = "restrict" /\ task' = NoTask
    /\ LET q == DevQuestions[task.questions]
           k == Keys[task.key]
       IN IF Restrictable(q, k, task.ids)
          THEN scored' = scored \cup
                   {[pin |-> pinned, questions |-> task.questions,
                     items |-> {i \in DOMAIN q : q[i].id \in task.ids},
                     answers |-> {i \in DOMAIN k : k[i] \in task.ids}, quiet |-> touches = 0]}
          ELSE UNCHANGED scored
    /\ UNCHANGED <<store, chosen, pinned, touches>>

SubsetNext ==
    \/ \E f \in DOMAIN DevVersions : Touch(f)
    \/ WriteReceipt \/ VerifyAndPin \/ LoadFiles \/ PassGate \/ RestrictBoth

SubsetSpec == SubsetInit /\ [][SubsetNext]_SubsetVars

-----------------------------------------------------------------------------
(* Properties. *)

\* Whatever was edited, even once under the run, what is scored has the pinned size
\* and is the same set of items on both sides, each once; and when nothing changed
\* under the run, none of them is a question of a final scoring set.
ScoredIsPinned ==
    \A s \in scored :
        LET rows == DevQuestions[s.questions]
        IN /\ IdsIn(rows, s.items) = s.pin.ids
           /\ Cardinality(s.items) = Size /\ Cardinality(s.answers) = Size
           /\ s.quiet => \A i \in s.items :
                  rows[i].question \notin Finals[DevManifests[s.pin.manifest].final]

\* What the receipt r says was taken has the shape of its population: as many rows as
\* ids, of which every bucket has its share to within one, and within a bucket the
\* earliest digests.
Taken(r, taken) ==
    LET m == DevManifests[r.manifest]
        rows == DevQuestions[m.questions]
        eligible == Eligible(rows, Finals[m.final])
        by == Bucketed(rows, Finals[m.final])
        all == Cardinality(eligible)
    IN /\ r.ids = IdsIn(rows, taken)
       /\ Cardinality(taken) = Size /\ Cardinality(r.ids) = Size
       /\ taken \in SUBSET eligible
       /\ \A b \in DOMAIN DevBuckets :
             LET got == Cardinality(by[b] \cap taken)
             IN /\ got * all < (Cardinality(by[b]) * Size) + all
                /\ got * all > (Cardinality(by[b]) * Size) - all
                /\ \A x \in by[b] \cap taken, y \in by[b] \ taken : Precedes(rows, x, y)

\* The committed subset has the shape of its population.
SubsetIsProportional ==
    ReceiptReads(pinned) =>
        LET rows == DevQuestions[DevManifests[pinned.manifest].questions]
        IN \E taken \in SUBSET DOMAIN rows : Taken(pinned, taken)
=============================================================================
