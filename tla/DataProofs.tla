------------------------------ MODULE DataProofs ------------------------------
(***************************************************************************)
(* Proofs about the data pipeline: what the first round of preferences     *)
(* teaches (Preferences) and what the second round is made of (Sampling).  *)
(***************************************************************************)
EXTENDS Preferences, Sampling, FiniteSetTheorems, SequenceTheorems, TLAPS

-----------------------------------------------------------------------------
(* Part 1: Preferences. *)

Examples == Hermes \cup XLam

\* The scripts after dedupe keep what it established: no two examples are duplicates.
Apart(rows) ==
    /\ rows \subseteq Examples
    /\ \A e, f \in rows : <<e.query, f.query>> \in Similar => e = f

\* Every pair is of an example that can be used, and no two are of duplicates.
MadeOfExamples(rows) ==
    /\ \A p \in rows : \E e \in Examples : Usable(e) /\ p \in PairsFrom(e)
    /\ \A p, q \in rows : <<p.query, q.query>> \in Similar => p = q

\* Whatever file is read, however old: it is a part of what some run of its script
\* made.
FilesInv ==
    /\ FileLoads(sft) => sft \subseteq Examples
    /\ FileLoads(deduped) => Apart(deduped)
    /\ FileLoads(cleaned) => \A e \in cleaned : e.id \notin ExcludedIds /\ ~ e.pyexpr
    /\ FileLoads(prefs) => MadeOfExamples(prefs)
    /\ FileLoads(dpo) => MadeOfExamples(dpo) /\ \A p \in dpo : ~ Refused(p)

\* What was written whole or in part is a part of the rows.
LEMMA WrittenIsPart ==
    ASSUME NEW rows, NEW file \in Written(rows), FileLoads(file)
    PROVE  file \subseteq rows
BY DEF Written, FileLoads

\* A part of a file without duplicates has none either.
LEMMA PartsStayApart ==
    ASSUME NEW rows, NEW part, part \subseteq rows
    PROVE  /\ Apart(rows) => Apart(part)
           /\ MadeOfExamples(rows) => MadeOfExamples(part)
BY DEF Apart, MadeOfExamples

\* What an example gives is about it.
LEMMA PairIsOfExample ==
    ASSUME NEW e, NEW p \in PairsFrom(e)
    PROVE  /\ p.query = e.query /\ p.chosen = Text(TRUE, e.list, e.calls)
           /\ \/ p.rejected = Malformed
              \/ \E c : p.rejected = Text(TRUE, e.list, <<c>> \o Tail(e.calls))
<1> DEFINE Sides == {Malformed} \cup {Text(TRUE, e.list, <<c>> \o Tail(e.calls)) :
                                        c \in Perturbed(e.calls[1], e.tools)}
<1>1. PICK r \in Sides : p = [id |-> e.id, query |-> e.query, pyexpr |-> e.pyexpr,
                              chosen |-> Text(TRUE, e.list, e.calls), rejected |-> r]
  <2> HIDE DEF Sides
  <2>1. PairsFrom(e) = {[id |-> e.id, query |-> e.query, pyexpr |-> e.pyexpr,
                         chosen |-> Text(TRUE, e.list, e.calls), rejected |-> r] : r \in Sides}
    BY DEF PairsFrom, Sides
  <2> QED BY <2>1
<1>2. r = Malformed \/ \E c : r = Text(TRUE, e.list, <<c>> \o Tail(e.calls))
  BY DEF Sides
<1> QED BY <1>1, <1>2

\* One pair for each of several examples that do not duplicate each other.
LEMMA PairsStayApart ==
    ASSUME NEW rows, Apart(rows), NEW made \in Paired(rows)
    PROVE  MadeOfExamples(made)
<1> DEFINE usable == {e \in rows : Usable(e)}
<1>1. PICK pair : /\ made = {pair[e] : e \in usable}
                  /\ \A e \in usable : pair[e] \in PairsFrom(e)
  BY DEF Paired
<1>2. \A p \in made : \E e \in Examples : Usable(e) /\ p \in PairsFrom(e)
  BY <1>1 DEF Apart
<1>3. ASSUME NEW p \in made, NEW q \in made, <<p.query, q.query>> \in Similar PROVE p = q
  <2>1. PICK e \in usable : p = pair[e] /\ p \in PairsFrom(e)
    BY <1>1
  <2>2. PICK f \in usable : q = pair[f] /\ q \in PairsFrom(f)
    BY <1>1
  <2>3. p.query = e.query /\ q.query = f.query
    BY <2>1, <2>2, PairIsOfExample
  <2>4. e = f
    BY <1>3, <2>3 DEF Apart
  <2> QED BY <2>1, <2>2, <2>4
<1> QED BY <1>2, <1>3 DEF MadeOfExamples

LEMMA FilesInit == PreferencesInit => FilesInv
BY DEF PreferencesInit, FilesInv, FileLoads

LEMMA FilesNext == FilesInv /\ [PreferencesNext]_PreferencesVars => FilesInv'
<1> SUFFICES ASSUME FilesInv, [PreferencesNext]_PreferencesVars PROVE FilesInv'
  OBVIOUS
<1>1. CASE AssembleSft
  <2>1. UNCHANGED <<deduped, cleaned, prefs, dpo>>
    BY <1>1 DEF AssembleSft
  <2>2. ASSUME FileLoads(sft') PROVE sft' \subseteq Examples
    <3>1. PICK h, x, offered : /\ h \in Drawn(Hermes, HermesTarget) /\ offered \in {XLam, {}}
                               /\ x \in SUBSET offered /\ sft' \in Written(h \cup x)
      BY <1>1 DEF AssembleSft, Drawn
    <3>2. h \subseteq Hermes /\ x \subseteq XLam
      BY <3>1 DEF Drawn
    <3>3. sft' \subseteq h \cup x
      BY <2>2, <3>1, WrittenIsPart
    <3> QED BY <3>2, <3>3 DEF Examples
  <2> QED BY <2>1, <2>2 DEF FilesInv, FileLoads
<1>2. CASE Dedupe
  <2>1. UNCHANGED <<sft, cleaned, prefs, dpo>> /\ FileLoads(sft)
    BY <1>2 DEF Dedupe
  <2>2. ASSUME FileLoads(deduped') PROVE Apart(deduped')
    <3>1. PICK k \in FirstOfGroups(sft) : deduped' \in Written(k)
      BY <1>2 DEF Dedupe
    <3>2. Apart(k)
      BY <2>1, <3>1 DEF FirstOfGroups, Apart, FilesInv
    <3>3. deduped' \subseteq k
      BY <2>2, <3>1, WrittenIsPart
    <3> QED BY <3>2, <3>3, PartsStayApart
  <2> QED BY <2>1, <2>2 DEF FilesInv, FileLoads
<1>3. CASE CleanSft
  <2>1. UNCHANGED <<sft, deduped, prefs, dpo>>
    BY <1>3 DEF CleanSft
  <2>2. FileLoads(cleaned') => cleaned' \subseteq {e \in deduped : ~ e.pyexpr /\ e.id \notin ExcludedIds}
    BY <1>3, WrittenIsPart DEF CleanSft
  <2> QED BY <2>1, <2>2 DEF FilesInv, FileLoads
<1>4. CASE AssemblePreferences
  <2>1. UNCHANGED <<sft, deduped, cleaned, dpo>> /\ FileLoads(deduped)
    BY <1>4 DEF AssemblePreferences
  <2>2. ASSUME FileLoads(prefs') PROVE MadeOfExamples(prefs')
    <3>1. PICK made \in Paired(deduped) : prefs' \in Written(made)
      BY <1>4 DEF AssemblePreferences
    <3>2. MadeOfExamples(made)
      BY <2>1, PairsStayApart DEF FilesInv
    <3>3. prefs' \subseteq made
      BY <2>2, <3>1, WrittenIsPart
    <3> QED BY <3>2, <3>3, PartsStayApart
  <2> QED BY <2>1, <2>2 DEF FilesInv, FileLoads
<1>5. CASE ValidatePreferences
  <2>1. UNCHANGED <<sft, deduped, cleaned, prefs>> /\ FileLoads(prefs)
    BY <1>5 DEF ValidatePreferences
  <2>2. ASSUME FileLoads(dpo') PROVE MadeOfExamples(dpo') /\ \A p \in dpo' : ~ Refused(p)
    <3>1. PICK near : dpo' \in Written({p \in prefs : ~ Refused(p)} \ near)
      BY <1>5 DEF ValidatePreferences
    <3>2. dpo' \subseteq {p \in prefs : ~ Refused(p)} \ near
      BY <2>2, <3>1, WrittenIsPart
    <3>3. dpo' \subseteq prefs /\ \A p \in dpo' : ~ Refused(p)
      BY <3>2
    <3> QED BY <2>1, <3>3, PartsStayApart DEF FilesInv
  <2> QED BY <2>1, <2>2 DEF FilesInv, FileLoads
<1>6. CASE UNCHANGED PreferencesVars
  BY <1>6 DEF PreferencesVars, FilesInv, FileLoads
<1> QED BY <1>1, <1>2, <1>3, <1>4, <1>5, <1>6 DEF PreferencesNext

\* A pair that validate_preferences lets through and whose rejected side parses
\* differs in the first call and in nothing else.
LEMMA PairTeaches ==
    ASSUME PreferencesAssumption, NEW e \in Examples, Usable(e), NEW p \in PairsFrom(e),
           ~ SaysTheSame(p), p.rejected.parses
    PROVE  /\ p.rejected.list = p.chosen.list
           /\ p.rejected.calls[1] # p.chosen.calls[1]
           /\ Tail(p.rejected.calls) = Tail(p.chosen.calls)
<1>1. /\ p.chosen = Text(TRUE, e.list, e.calls)
      /\ \/ p.rejected = Malformed
         \/ \E c : p.rejected = Text(TRUE, e.list, <<c>> \o Tail(e.calls))
  BY PairIsOfExample
<1>2. p.rejected # Malformed
  BY DEF Malformed, Text
<1>3. PICK c : p.rejected = Text(TRUE, e.list, <<c>> \o Tail(e.calls))
  BY <1>1, <1>2
<1>4. e.calls \in Seq(Range(e.calls)) /\ e.calls # <<>>
  BY DEF PreferencesAssumption, Examples, Usable
<1> DEFINE S == Range(e.calls) \cup {c}
           calls == e.calls
<1>5. calls \in Seq(S) /\ calls # <<>> /\ c \in S
  BY <1>4
<1> HIDE DEF S, calls
<1>6. /\ (<<c>> \o Tail(calls))[1] = c
      /\ Tail(<<c>> \o Tail(calls)) = Tail(calls)
      /\ <<calls[1]>> \o Tail(calls) = calls
  BY <1>5
<1>7. c # calls[1]
  <2>1. SUFFICES ASSUME c = calls[1] PROVE p.chosen = p.rejected
    BY DEF SaysTheSame
  <2> QED BY <1>1, <1>3, <1>6, <2>1 DEF calls
<1> QED BY <1>1, <1>3, <1>6, <1>7 DEF Text, calls

\* Whatever the sources offer, whichever queries the index takes for duplicates and
\* whichever scripts are run again over which old files: the pairs that DPO is taught
\* reject something wrong, no query is taught twice, and nothing excluded at all.
THEOREM WhatIsTaughtIsWrong ==
    ASSUME PreferencesAssumption PROVE PreferencesSpec => []TaughtIsWrong
<1>1. ASSUME FilesInv PROVE TaughtIsWrong
  <2>1. ASSUME FileLoads(dpo), NEW p \in dpo
        PROVE  /\ p.rejected.parses =>
                     /\ p.rejected.list = p.chosen.list
                     /\ p.rejected.calls[1] # p.chosen.calls[1]
                     /\ Tail(p.rejected.calls) = Tail(p.chosen.calls)
               /\ p.id \notin ExcludedIds /\ ~ p.pyexpr
    <3>1. ~ Refused(p) /\ \E e \in Examples : Usable(e) /\ p \in PairsFrom(e)
      BY <1>1, <2>1 DEF FilesInv, MadeOfExamples
    <3> QED BY <3>1, PairTeaches DEF Refused
  <2>2. FileLoads(dpo) => \A p, q \in dpo : <<p.query, q.query>> \in Similar => p = q
    BY <1>1 DEF FilesInv, MadeOfExamples
  <2> QED BY <1>1, <2>1, <2>2 DEF FilesInv, TaughtIsWrong
<1> QED BY <1>1, FilesInit, FilesNext, PTL DEF PreferencesSpec

-----------------------------------------------------------------------------
(* Part 2: Sampling. *)

SampleLines ==
    [p : ToSet(TrainingPrompts), by : Nat, what : {"sampled"} \cup DOMAIN FailureType]

\* One sampling of each prompt: the rows of one are of one start, and no two say the
\* same.
OneEach(lines) ==
    \A i, j \in DOMAIN lines : lines[i].p = lines[j].p =>
        /\ lines[i].by = lines[j].by
        /\ lines[i].what = lines[j].what => i = j

\* A marker comes before its failures, so whatever a kill leaves of them is marked.
MarkedFirst(lines) ==
    \A i \in DOMAIN lines : \E j \in DOMAIN lines :
        j <= i /\ lines[j].p = lines[i].p /\ IsMarker(lines[j])

Unsampled(lines, some) ==
    \A i \in DOMAIN lines, k \in some : lines[i].p # TrainingPrompts[k]

\* What the file holds once the buffer is written.
Whole == candidates \o pending

SamplingTypeInv ==
    /\ candidates \in Seq(SampleLines \cup {TornLine}) /\ pending \in Seq(SampleLines)
    /\ todo \subseteq DOMAIN TrainingPrompts /\ batch \subseteq DOMAIN TrainingPrompts
    /\ todo \cap batch = {} /\ starts \in Nat

\* Nothing is half done while the sampler does not sample.
RestInv == sampler # "sampling" => pending = <<>> /\ batch = {}

\* As long as the file can be read, the file with the buffer has one sampling of each
\* prompt and none of the prompts that are still to come; a fresh start has not
\* emptied the file yet.
FileInv ==
    AllParse(candidates) =>
        /\ OneEach(Whole) /\ MarkedFirst(Whole)
        /\ sampler \in {"resuming", "sampling"} => Unsampled(Whole, todo \cup batch)

PairsInv == \A r, q \in pairs : r.p = q.p => r.by = q.by

SamplingInv == SamplingTypeInv /\ RestInv /\ FileInv /\ PairsInv

\* What is true of the lines is true of the first of them.
LEMMA FirstLines ==
    ASSUME NEW S, NEW lines \in Seq(S), NEW first \in Seq(S), Len(first) <= Len(lines),
           \A i \in 1 .. Len(first) : first[i] = lines[i]
    PROVE  /\ OneEach(lines) => OneEach(first)
           /\ MarkedFirst(lines) => MarkedFirst(first)
           /\ \A some : Unsampled(lines, some) => Unsampled(first, some)
<1>1. /\ DOMAIN first = 1 .. Len(first) /\ DOMAIN lines = 1 .. Len(lines)
      /\ Len(first) \in Nat /\ Len(lines) \in Nat
  OBVIOUS
<1>2. \A i \in DOMAIN first : i \in DOMAIN lines /\ first[i] = lines[i]
  BY <1>1
<1>3. OneEach(lines) => OneEach(first)
  BY <1>2 DEF OneEach
<1>4. ASSUME MarkedFirst(lines) PROVE MarkedFirst(first)
  <2>1. SUFFICES ASSUME NEW i \in DOMAIN first
                 PROVE  \E j \in DOMAIN first :
                            j <= i /\ first[j].p = first[i].p /\ IsMarker(first[j])
    BY DEF MarkedFirst
  <2>2. PICK j \in DOMAIN lines : j <= i /\ lines[j].p = lines[i].p /\ IsMarker(lines[j])
    BY <1>2, <1>4 DEF MarkedFirst
  <2>3. j \in DOMAIN first
    BY <1>1, <2>2
  <2> QED BY <1>2, <2>2, <2>3
<1>5. \A some : Unsampled(lines, some) => Unsampled(first, some)
  BY <1>2 DEF Unsampled
<1> QED BY <1>3, <1>4, <1>5

\* The lines of a prompt that has none yet.
LEMMA MoreLines ==
    ASSUME NEW S, NEW lines \in Seq(S), NEW more \in Seq(S),
           more # <<>>, OneEach(lines), MarkedFirst(lines),
           \A i \in DOMAIN lines, j \in DOMAIN more : lines[i].p # more[j].p,
           \A i, j \in DOMAIN more : more[i].p = more[j].p /\ more[i].by = more[j].by,
           \A i, j \in DOMAIN more : more[i].what = more[j].what => i = j,
           \A i \in DOMAIN more : IsMarker(more[i]) <=> i = 1
    PROVE  OneEach(lines \o more) /\ MarkedFirst(lines \o more)
<1> DEFINE n == Len(lines)
           all == lines \o more
           p == more[1].p
           b == more[1].by
<1>0. /\ \A i \in DOMAIN lines : lines[i].p # p
      /\ \A i \in DOMAIN more : more[i].p = p /\ more[i].by = b /\ (IsMarker(more[i]) <=> i = 1)
  <2>1. 1 \in DOMAIN more
    OBVIOUS
  <2> QED BY <2>1
<1> HIDE DEF p, b
<1>1. /\ n \in Nat /\ Len(more) \in Nat /\ Len(more) >= 1
      /\ DOMAIN lines = 1 .. n /\ DOMAIN more = 1 .. Len(more) /\ DOMAIN all = 1 .. n + Len(more)
      /\ \A i \in 1 .. n : all[i] = lines[i]
      /\ \A i \in n + 1 .. n + Len(more) : all[i] = more[i - n]
  OBVIOUS
<1> HIDE DEF all, n
<1>2. \A i \in DOMAIN all :
          \/ i \in DOMAIN lines /\ all[i] = lines[i] /\ all[i].p # p
          \/ /\ i > n /\ i - n \in DOMAIN more /\ all[i].p = p /\ all[i].by = b
             /\ IsMarker(all[i]) <=> i = n + 1
  <2>1. SUFFICES ASSUME NEW i \in DOMAIN all
                 PROVE  \/ i \in DOMAIN lines /\ all[i] = lines[i] /\ all[i].p # p
                        \/ /\ i > n /\ i - n \in DOMAIN more /\ all[i].p = p /\ all[i].by = b
                           /\ IsMarker(all[i]) <=> i = n + 1
    OBVIOUS
  <2>2. CASE i <= n
    <3>1. i \in DOMAIN lines /\ all[i] = lines[i]
      BY <1>1, <2>2
    <3> QED BY <1>0, <3>1
  <2>3. CASE i > n
    <3>1. i - n \in DOMAIN more /\ all[i] = more[i - n] /\ (i - n = 1 <=> i = n + 1)
      BY <1>1, <2>3
    <3> QED BY <1>0, <2>3, <3>1
  <2> QED BY <1>1, <2>2, <2>3
<1>3. OneEach(all)
  <2>1. ASSUME NEW i \in DOMAIN all, NEW j \in DOMAIN all, all[i].p = all[j].p
        PROVE  all[i].by = all[j].by /\ (all[i].what = all[j].what => i = j)
    <3>1. CASE i \in DOMAIN lines /\ all[i] = lines[i] /\ all[i].p # p
      <4>1. j \in DOMAIN lines /\ all[j] = lines[j]
        BY <1>2, <2>1, <3>1
      <4> QED BY <2>1, <3>1, <4>1 DEF OneEach
    <3>2. CASE i > n /\ i - n \in DOMAIN more /\ all[i].p = p /\ all[i].by = b
      <4>1. j > n /\ j - n \in DOMAIN more /\ all[j].by = b
        BY <1>2, <2>1, <3>2
      <4>2. all[i] = more[i - n] /\ all[j] = more[j - n]
        BY <1>1, <2>1, <3>2, <4>1
      <4>3. all[i].what = all[j].what => i - n = j - n
        BY <3>2, <4>1, <4>2
      <4> QED BY <1>1, <2>1, <3>2, <4>1, <4>3
    <3> QED BY <1>2, <3>1, <3>2
  <2> QED BY <2>1 DEF OneEach
<1>4. ASSUME NEW i \in DOMAIN all
      PROVE  \E j \in DOMAIN all : j <= i /\ all[j].p = all[i].p /\ IsMarker(all[j])
  <2>1. CASE i \in DOMAIN lines /\ all[i] = lines[i]
    <3>1. PICK j \in DOMAIN lines : j <= i /\ lines[j].p = lines[i].p /\ IsMarker(lines[j])
      BY <2>1 DEF MarkedFirst
    <3>2. j \in DOMAIN all /\ all[j] = lines[j]
      BY <1>1
    <3> QED BY <2>1, <3>1, <3>2
  <2>2. CASE i > n /\ all[i].p = p
    <3>1. n + 1 \in DOMAIN all /\ n + 1 <= i /\ n + 1 > n /\ n + 1 \notin DOMAIN lines
      BY <1>1, <2>2
    <3>2. all[n + 1].p = p /\ IsMarker(all[n + 1])
      BY <1>2, <3>1
    <3> QED BY <2>2, <3>1, <3>2
  <2> QED BY <1>2, <2>1, <2>2
<1> QED BY <1>3, <1>4 DEF MarkedFirst, all

\* Appending to the file: where the last line has no newline, it cannot be read again.
LEMMA ExtendedParses ==
    ASSUME NEW S, TornLine \in S, candidates \in Seq(S), NEW lines \in Seq(S), lines # <<>>
    PROVE  /\ Extended(lines) \in Seq(S)
           /\ AllParse(Extended(lines)) =>
                  AllParse(candidates) /\ Extended(lines) = candidates \o lines
<1>1. CASE joined
  <2> DEFINE front == SubSeq(candidates, 1, Len(candidates) - 1)
             torn == front \o <<TornLine>>
  <2>1. Extended(lines) = torn \o Tail(lines)
    BY <1>1 DEF Extended, Front
  <2>2. front \in Seq(S) /\ Tail(lines) \in Seq(S)
    OBVIOUS
  <2> HIDE DEF front
  <2>3. torn \in Seq(S) /\ Len(torn) \in DOMAIN torn /\ torn[Len(torn)] = TornLine
    BY <2>2
  <2> HIDE DEF torn
  <2>4. /\ torn \o Tail(lines) \in Seq(S) /\ Len(torn) \in DOMAIN (torn \o Tail(lines))
        /\ (torn \o Tail(lines))[Len(torn)] = TornLine
    BY <2>2, <2>3
  <2> QED BY <2>1, <2>4 DEF AllParse, ToSet
<1>2. CASE ~ joined
  <2>1. Extended(lines) = candidates \o lines
    BY <1>2 DEF Extended
  <2>2. candidates \o lines \in Seq(S)
    OBVIOUS
  <2>3. \A i \in DOMAIN candidates : i \in DOMAIN (candidates \o lines)
                                     /\ (candidates \o lines)[i] = candidates[i]
    OBVIOUS
  <2> QED BY <2>1, <2>2, <2>3 DEF AllParse, ToSet
<1> QED BY <1>1, <1>2

\* The lines of a prompt, seen as lines of one start with a marker in front.
LEMMA LinesOfPrompt ==
    ASSUME SamplingAssumption, starts \in Nat, NEW p \in ToSet(TrainingPrompts),
           NEW outcomes \in Sampled
    PROVE  /\ LinesOf(p, outcomes) \in Seq(SampleLines) /\ LinesOf(p, outcomes) # <<>>
           /\ \A i \in DOMAIN LinesOf(p, outcomes) :
                  LET line == LinesOf(p, outcomes)[i]
                  IN line.p = p /\ line.by = starts /\ (IsMarker(line) <=> i = 1)
           /\ \A i, j \in DOMAIN LinesOf(p, outcomes) :
                  LinesOf(p, outcomes)[i].what = LinesOf(p, outcomes)[j].what => i = j
<1>1. PICK n \in Nat : outcomes \in [1 .. n -> DOMAIN FailureType]
  BY DEF Sampled, Failed
<1> DEFINE rest == [i \in DOMAIN outcomes |-> Failure(p, outcomes[i])]
           all == <<Marker(p)>> \o rest
<1>2. /\ rest \in Seq(SampleLines) /\ Len(rest) = n
      /\ \A i \in 1 .. n : rest[i].p = p /\ rest[i].by = starts /\ ~ IsMarker(rest[i])
      /\ \A i, j \in 1 .. n : rest[i].what = rest[j].what => i = j
  <2>1. \A i \in 1 .. n : Failure(p, outcomes[i]) \in SampleLines
    BY <1>1 DEF Failure, SampleLines
  <2>2. rest = [i \in 1 .. n |-> Failure(p, outcomes[i])]
    BY <1>1
  <2>3. "sampled" \notin DOMAIN FailureType
    BY DEF SamplingAssumption
  <2>4. \A i \in 1 .. n : Failure(p, outcomes[i]).what # "sampled"
    BY <1>1, <2>3 DEF Failure
  <2>5. \A i, j \in 1 .. n : outcomes[i] = outcomes[j] => i = j
    BY <1>1 DEF Sampled, IsInjective
  <2> QED BY <2>1, <2>2, <2>4, <2>5 DEF IsMarker, Failure
<1>3. Marker(p) \in SampleLines /\ Marker(p).p = p /\ Marker(p).by = starts /\ IsMarker(Marker(p))
  BY DEF Marker, SampleLines, IsMarker
<1> DEFINE marker == Marker(p)
<1> HIDE DEF rest, marker
<1>4. /\ <<marker>> \o rest \in Seq(SampleLines) /\ <<marker>> \o rest # <<>>
      /\ DOMAIN (<<marker>> \o rest) = 1 .. n + 1
      /\ (<<marker>> \o rest)[1] = marker
      /\ \A i \in 2 .. n + 1 : (<<marker>> \o rest)[i] = rest[i - 1]
  BY <1>2, <1>3 DEF marker
<1>5. ASSUME NEW i \in 1 .. n + 1
      PROVE  /\ (<<marker>> \o rest)[i].p = p /\ (<<marker>> \o rest)[i].by = starts
             /\ IsMarker((<<marker>> \o rest)[i]) <=> i = 1
  <2>1. CASE i = 1
    BY <1>3, <1>4, <2>1 DEF marker
  <2>2. CASE i # 1
    <3>1. i \in 2 .. n + 1 /\ i - 1 \in 1 .. n
      BY <1>1, <2>2
    <3> QED BY <1>2, <1>4, <2>2, <3>1
  <2> QED BY <2>1, <2>2
<1>6. ASSUME NEW i \in 1 .. n + 1, NEW j \in 1 .. n + 1,
             (<<marker>> \o rest)[i].what = (<<marker>> \o rest)[j].what
      PROVE  i = j
  <2>1. i = 1 <=> j = 1
    BY <1>5, <1>6 DEF IsMarker
  <2>2. CASE i # 1 /\ j # 1
    <3>1. i \in 2 .. n + 1 /\ i - 1 \in 1 .. n /\ j \in 2 .. n + 1 /\ j - 1 \in 1 .. n
      BY <1>1, <2>2
    <3>2. i - 1 = j - 1
      BY <1>2, <1>4, <1>6, <3>1
    <3> QED BY <3>1, <3>2
  <2> QED BY <2>1, <2>2
<1>7. LinesOf(p, outcomes) = <<marker>> \o rest
  BY DEF LinesOf, rest, marker
<1> QED BY <1>4, <1>5, <1>6, <1>7

LEMMA SamplingInitInv == SamplingInit => SamplingInv
<1> SUFFICES ASSUME SamplingInit PROVE SamplingInv
  OBVIOUS
<1>1. Whole = <<>>
  BY DEF SamplingInit, Whole
<1> QED BY <1>1 DEF SamplingInit, SamplingInv, SamplingTypeInv, RestInv, FileInv, PairsInv,
                    OneEach, MarkedFirst, Unsampled

\* Reading the markers finds every prompt that has a line.
LEMMA MarkersTell ==
    ASSUME MarkedFirst(candidates), candidates \in Seq(SampleLines \cup {TornLine})
    PROVE  Unsampled(candidates, {i \in DOMAIN TrainingPrompts : TrainingPrompts[i] \notin AlreadySampled})
<1>1. ASSUME NEW i \in DOMAIN candidates PROVE candidates[i].p \in AlreadySampled
  <2>1. PICK j \in DOMAIN candidates : candidates[j].p = candidates[i].p /\ IsMarker(candidates[j])
    BY DEF MarkedFirst
  <2>2. candidates[j] \in ToSet(candidates)
    BY DEF ToSet
  <2>3. candidates[j].p \in AlreadySampled
    BY <2>1, <2>2 DEF AlreadySampled
  <2> QED BY <2>1, <2>3
<1> QED BY <1>1 DEF Unsampled

\* The file with an empty buffer is the file.
LEMMA NoBuffer ==
    ASSUME NEW S, candidates \in Seq(S), pending = <<>>
    PROVE  Whole = candidates
BY DEF Whole

LEMMA SamplingNextInv ==
    ASSUME SamplingAssumption, SamplingInv, [SamplingNext]_SamplingVars
    PROVE  SamplingInv'
<1> DEFINE S == SampleLines \cup {TornLine}
<1>0. /\ candidates \in Seq(S) /\ pending \in Seq(S) /\ pending \in Seq(SampleLines) /\ TornLine \in S
      /\ SamplingTypeInv /\ RestInv /\ FileInv /\ PairsInv
  BY DEF SamplingInv, SamplingTypeInv
<1> HIDE DEF S
<1>1. CASE StartSampler
  <2>1. /\ sampler = "idle" /\ starts' = starts + 1 /\ UNCHANGED <<candidates, pending, batch, pairs>>
        /\ \/ /\ todo' = {i \in DOMAIN TrainingPrompts : TrainingPrompts[i] \notin AlreadySampled}
              /\ sampler' = "resuming"
           \/ UNCHANGED <<todo, sampler>>
           \/ todo' = DOMAIN TrainingPrompts /\ sampler' = "fresh"
    BY <1>1 DEF StartSampler
  <2>2. pending = <<>> /\ batch = {} /\ Whole = candidates /\ Whole' = Whole
    BY <1>0, <2>1, NoBuffer DEF RestInv, Whole
  <2>3. SamplingTypeInv' /\ RestInv' /\ PairsInv'
    BY <1>0, <2>1, <2>2 DEF SamplingTypeInv, RestInv, PairsInv
  <2>4. FileInv'
    <3>1. SUFFICES ASSUME AllParse(candidates)'
                   PROVE  /\ (OneEach(Whole) /\ MarkedFirst(Whole))'
                          /\ sampler' \in {"resuming", "sampling"} =>
                                 Unsampled(Whole, todo \cup batch)'
      BY DEF FileInv
    <3>2. OneEach(Whole) /\ MarkedFirst(Whole) /\ MarkedFirst(candidates)
      BY <1>0, <2>1, <2>2, <3>1 DEF FileInv, AllParse
    <3>3. (OneEach(Whole) /\ MarkedFirst(Whole))'
      BY <2>2, <3>2 DEF OneEach, MarkedFirst
    <3>4. CASE sampler' = "resuming" /\
               todo' = {i \in DOMAIN TrainingPrompts : TrainingPrompts[i] \notin AlreadySampled}
      <4>1. Unsampled(candidates, todo')
        BY <3>2, <3>4, <1>0, MarkersTell DEF SamplingTypeInv
      <4> QED BY <2>1, <2>2, <3>3, <4>1 DEF Unsampled
    <3>5. CASE sampler' \in {"idle", "fresh"}
      BY <3>3, <3>5
    <3> QED BY <2>1, <3>4, <3>5
  <2> QED BY <2>3, <2>4 DEF SamplingInv
<1>2. CASE OpenCandidates
  <2>1. /\ sampler \in {"resuming", "fresh"} /\ sampler' = "sampling"
        /\ UNCHANGED <<pending, todo, batch, starts, pairs>>
        /\ sampler = "fresh" => candidates' = <<>>
        /\ sampler # "fresh" => candidates' = candidates
    BY <1>2 DEF OpenCandidates
  <2>2. pending = <<>>
    BY <1>0, <2>1 DEF RestInv
  <2>3. SamplingTypeInv' /\ RestInv' /\ PairsInv'
    BY <1>0, <2>1 DEF SamplingTypeInv, RestInv, PairsInv
  <2>4. CASE sampler = "fresh"
    <3>1. Whole' = <<>>
      BY <2>1, <2>2, <2>4 DEF Whole
    <3>2. FileInv'
      BY <3>1 DEF FileInv, OneEach, MarkedFirst, Unsampled
    <3> QED BY <2>3, <3>2 DEF SamplingInv
  <2>5. CASE sampler = "resuming"
    <3>1. Whole' = Whole /\ (AllParse(candidates)' <=> AllParse(candidates))
      BY <2>1, <2>5 DEF Whole, AllParse
    <3>2. FileInv'
      BY <1>0, <2>1, <2>5, <3>1 DEF FileInv, OneEach, MarkedFirst, Unsampled
    <3> QED BY <2>3, <3>2 DEF SamplingInv
  <2> QED BY <2>1, <2>4, <2>5
<1>3. CASE SampleBatch
  <2>1. /\ sampler = "sampling" /\ batch = {} /\ batch' \subseteq todo /\ todo' = todo \ batch'
        /\ UNCHANGED <<candidates, pending, sampler, starts, pairs>>
    BY <1>3 DEF SampleBatch
  <2>2. todo' \cup batch' = todo \cup batch /\ Whole' = Whole
        /\ (AllParse(candidates)' <=> AllParse(candidates))
    BY <2>1 DEF Whole, AllParse
  <2>3. SamplingTypeInv' /\ RestInv' /\ PairsInv'
    BY <1>0, <2>1 DEF SamplingTypeInv, RestInv, PairsInv
  <2>4. FileInv'
    BY <1>0, <2>1, <2>2 DEF FileInv, OneEach, MarkedFirst, Unsampled
  <2> QED BY <2>3, <2>4 DEF SamplingInv
<1>4. CASE WritePrompt
  <2>1. PICK k \in batch, outcomes \in Sampled :
            pending' = pending \o LinesOf(TrainingPrompts[k], outcomes) /\ batch' = batch \ {k}
    BY <1>4 DEF WritePrompt
  <2>2. sampler = "sampling" /\ UNCHANGED <<candidates, todo, sampler, starts, pairs>>
    BY <1>4 DEF WritePrompt
  <2> DEFINE p == TrainingPrompts[k]
             more == LinesOf(p, outcomes)
  <2>3. p \in ToSet(TrainingPrompts) /\ k \in DOMAIN TrainingPrompts /\ starts \in Nat
    BY <1>0 DEF ToSet, SamplingTypeInv
  <2>4. /\ more \in Seq(SampleLines) /\ more # <<>>
        /\ \A i \in DOMAIN more :
               more[i].p = p /\ more[i].by = starts /\ (IsMarker(more[i]) <=> i = 1)
        /\ \A i, j \in DOMAIN more : more[i].what = more[j].what => i = j
    BY <2>1, <2>3, LinesOfPrompt
  <2> HIDE DEF more, p
  <2>5. pending' = pending \o more
    BY <2>1 DEF more, p
  <2>6. /\ Whole \in Seq(S) /\ more \in Seq(S) /\ Whole' = Whole \o more
        /\ pending' \in Seq(SampleLines)
    BY <1>0, <2>2, <2>4, <2>5 DEF Whole, S
  <2>7. SamplingTypeInv' /\ RestInv' /\ PairsInv'
    BY <1>0, <2>1, <2>2, <2>6 DEF SamplingTypeInv, RestInv, PairsInv
  <2>8. FileInv'
    <3>1. SUFFICES ASSUME AllParse(candidates)
                   PROVE  OneEach(Whole') /\ MarkedFirst(Whole')
                          /\ Unsampled(Whole', todo' \cup batch')
      BY <2>2 DEF FileInv, AllParse, OneEach, MarkedFirst, Unsampled
    <3>2. OneEach(Whole) /\ MarkedFirst(Whole) /\ Unsampled(Whole, todo \cup batch)
      BY <1>0, <2>2, <3>1 DEF FileInv
    <3>3. \A i \in DOMAIN Whole : Whole[i].p # p
      <4>1. k \in todo \cup batch
        BY <2>1
      <4> QED BY <3>2, <4>1 DEF Unsampled, p
    <3>4. OneEach(Whole \o more) /\ MarkedFirst(Whole \o more)
      <4>1. Whole \in Seq(S) /\ more \in Seq(S) /\ more # <<>>
        BY <2>4, <2>6
      <4>2. /\ \A i \in DOMAIN Whole, j \in DOMAIN more : Whole[i].p # more[j].p
            /\ \A i, j \in DOMAIN more : more[i].p = more[j].p /\ more[i].by = more[j].by
            /\ \A i, j \in DOMAIN more : more[i].what = more[j].what => i = j
            /\ \A i \in DOMAIN more : IsMarker(more[i]) <=> i = 1
        BY <2>4, <3>3
      <4> QED BY <3>2, <4>1, <4>2, MoreLines
    <3>5. \A m \in todo' \cup batch' : m \in todo \cup batch /\ TrainingPrompts[m] # p
      BY <1>0, <2>1, <2>2, <2>3 DEF SamplingTypeInv, SamplingAssumption, IsInjective, p
    <3>6. \A i \in DOMAIN (Whole \o more) :
              \/ i \in DOMAIN Whole /\ (Whole \o more)[i] = Whole[i]
              \/ \E j \in DOMAIN more : (Whole \o more)[i] = more[j]
      BY <2>6
    <3>7. Unsampled(Whole \o more, todo' \cup batch')
      BY <2>4, <3>2, <3>5, <3>6 DEF Unsampled
    <3> QED BY <2>6, <3>4, <3>7
  <2> QED BY <2>7, <2>8 DEF SamplingInv
<1>5. CASE Flush
  <2>1. PICK n \in 1 .. Len(pending) :
            /\ candidates' = Extended(SubSeq(pending, 1, n))
            /\ pending' = SubSeq(pending, n + 1, Len(pending))
    BY <1>5 DEF Flush
  <2>2. sampler = "sampling" /\ UNCHANGED <<todo, batch, sampler, starts, pairs>>
    BY <1>5 DEF Flush
  <2> DEFINE head == SubSeq(pending, 1, n)
  <2>3. /\ head \in Seq(S) /\ head # <<>> /\ pending' \in Seq(SampleLines) /\ pending' \in Seq(S)
        /\ head \o pending' = pending
    BY <1>0, <2>1
  <2>4. /\ candidates' \in Seq(S)
        /\ AllParse(candidates') => AllParse(candidates) /\ candidates' = candidates \o head
    BY <1>0, <2>1, <2>3, ExtendedParses
  <2>5. AllParse(candidates') => Whole' = Whole
    <3> HIDE DEF head
    <3>1. (candidates \o head) \o pending' = candidates \o (head \o pending')
      <4>1. candidates \in Seq(S) /\ head \in Seq(S) /\ pending' \in Seq(S)
        BY <1>0, <2>3
      <4> QED BY <4>1, ConcatAssociative
    <3> QED BY <2>3, <2>4, <3>1 DEF Whole
  <2>6. SamplingTypeInv' /\ RestInv' /\ PairsInv'
    BY <1>0, <2>2, <2>3, <2>4 DEF SamplingTypeInv, RestInv, PairsInv, S
  <2>7. FileInv'
    BY <1>0, <2>2, <2>4, <2>5 DEF FileInv, AllParse, OneEach, MarkedFirst, Unsampled
  <2> QED BY <2>6, <2>7 DEF SamplingInv
<1>6. CASE FinishSampler
  <2>1. /\ sampler = "sampling" /\ sampler' = "idle" /\ pending = <<>> /\ batch = {}
        /\ UNCHANGED <<candidates, pending, todo, batch, starts, pairs>>
    BY <1>6 DEF FinishSampler
  <2>2. SamplingTypeInv' /\ RestInv' /\ PairsInv'
    BY <1>0, <2>1 DEF SamplingTypeInv, RestInv, PairsInv
  <2>3. FileInv'
    BY <1>0, <2>1 DEF FileInv, AllParse, Whole, OneEach, MarkedFirst
  <2> QED BY <2>2, <2>3 DEF SamplingInv
<1>7. CASE KillSampler
  <2>1. /\ sampler' = "idle" /\ todo' = {} /\ batch' = {} /\ pending' = <<>>
        /\ UNCHANGED <<starts, pairs>>
        /\ \/ candidates' = candidates
           \/ candidates' = Extended(<<TornLine>>)
           \/ pending # <<>> /\ candidates' = Extended(<<Head(pending)>>)
    BY <1>7 DEF KillSampler
  <2>2. /\ candidates' \in Seq(S)
        /\ AllParse(candidates') =>
               /\ AllParse(candidates)
               /\ \/ candidates' = candidates
                  \/ pending # <<>> /\ candidates' = candidates \o <<Head(pending)>>
    <3>1. CASE candidates' = candidates
      BY <1>0, <3>1
    <3>2. CASE candidates' = Extended(<<TornLine>>)
      <4>1. <<TornLine>> \in Seq(S) /\ <<TornLine>> # <<>>
        BY <1>0
      <4>2. /\ candidates' \in Seq(S)
            /\ AllParse(candidates') => candidates' = candidates \o <<TornLine>>
        BY <1>0, <3>2, <4>1, ExtendedParses
      <4>3. ~ AllParse(candidates \o <<TornLine>>)
        <5>1. /\ Len(candidates) + 1 \in DOMAIN (candidates \o <<TornLine>>)
              /\ (candidates \o <<TornLine>>)[Len(candidates) + 1] = TornLine
          BY <1>0
        <5> QED BY <5>1 DEF AllParse, ToSet
      <4> QED BY <4>2, <4>3
    <3>3. CASE pending # <<>> /\ candidates' = Extended(<<Head(pending)>>)
      <4>1. <<Head(pending)>> \in Seq(S) /\ <<Head(pending)>> # <<>>
        BY <1>0, <3>3
      <4> QED BY <1>0, <3>3, <4>1, ExtendedParses
    <3> QED BY <2>1, <3>1, <3>2, <3>3
  <2>3. Whole' = candidates' /\ Whole \in Seq(S)
    BY <1>0, <2>1, <2>2 DEF Whole
  <2>4. SamplingTypeInv' /\ RestInv' /\ PairsInv'
    BY <1>0, <2>1, <2>2 DEF SamplingTypeInv, RestInv, PairsInv, S
  <2>5. ASSUME AllParse(candidates') PROVE OneEach(candidates') /\ MarkedFirst(candidates')
    <3>1. OneEach(Whole) /\ MarkedFirst(Whole)
      BY <1>0, <2>2, <2>5 DEF FileInv
    <3>2. Len(candidates') <= Len(Whole) /\ \A i \in 1 .. Len(candidates') : candidates'[i] = Whole[i]
      <4>1. CASE candidates' = candidates
        BY <1>0, <4>1 DEF Whole
      <4>2. CASE pending # <<>> /\ candidates' = candidates \o <<Head(pending)>>
        BY <1>0, <4>2 DEF Whole
      <4> QED BY <2>2, <2>5, <4>1, <4>2
    <3> QED BY <2>2, <2>3, <3>1, <3>2, FirstLines
  <2>6. FileInv'
    BY <2>1, <2>3, <2>5 DEF FileInv, AllParse, OneEach, MarkedFirst
  <2> QED BY <2>4, <2>6 DEF SamplingInv
<1>8. CASE Build
  <2>1. /\ AllParse(candidates) /\ UNCHANGED <<candidates, pending, todo, batch, sampler, starts>>
        /\ pairs' = UNION {KeptOf(p) : p \in ToSet(TrainingPrompts) \ Excluded}
    BY <1>8 DEF Build, Assembled
  <2>2. SamplingTypeInv' /\ RestInv' /\ FileInv'
    <3>1. Whole' = Whole /\ (AllParse(candidates)' <=> AllParse(candidates))
      BY <2>1 DEF Whole, AllParse
    <3>2. FileInv'
      BY <1>0, <2>1, <3>1 DEF FileInv, OneEach, MarkedFirst, Unsampled
    <3> QED BY <1>0, <2>1, <3>2 DEF SamplingTypeInv, RestInv
  <2>3. OneEach(candidates)
    <3>1. OneEach(Whole)
      BY <1>0, <2>1 DEF FileInv
    <3>2. /\ Whole \in Seq(S) /\ Len(candidates) <= Len(Whole)
          /\ \A i \in 1 .. Len(candidates) : candidates[i] = Whole[i]
      BY <1>0 DEF Whole
    <3> QED BY <1>0, <3>1, <3>2, FirstLines
  <2>4. \A r \in pairs' : \E i \in DOMAIN candidates : r = candidates[i]
    <3>1. \A p : \A r \in KeptOf(p) : \E i \in FailuresOf(p) : r = candidates[i]
      BY DEF KeptOf
    <3>2. \A p : FailuresOf(p) \subseteq DOMAIN candidates
      BY DEF FailuresOf
    <3>3. \A r \in pairs' : \E p : r \in KeptOf(p)
      BY <2>1
    <3> QED BY <3>1, <3>2, <3>3
  <2>5. PairsInv'
    BY <2>3, <2>4 DEF PairsInv, OneEach
  <2> QED BY <2>2, <2>5 DEF SamplingInv
<1>9. CASE UNCHANGED SamplingVars
  <2>1. UNCHANGED <<candidates, pending, todo, batch, sampler, starts, pairs>>
    BY <1>9 DEF SamplingVars
  <2>2. Whole' = Whole /\ (AllParse(candidates)' <=> AllParse(candidates))
    BY <2>1 DEF Whole, AllParse
  <2>3. FileInv'
    BY <1>0, <2>1, <2>2 DEF FileInv, OneEach, MarkedFirst, Unsampled
  <2> QED BY <1>0, <2>1, <2>3 DEF SamplingInv, SamplingTypeInv, RestInv, PairsInv
<1> QED BY <1>1, <1>2, <1>3, <1>4, <1>5, <1>6, <1>7, <1>8, <1>9 DEF SamplingNext

\* A file that can be read holds the lines of one sampling of each prompt.
LEMMA ReadableIsSampledOnce ==
    ASSUME SamplingInv, AllParse(candidates)
    PROVE  candidates \in Seq(SampleLines) /\ OneEach(candidates)
<1> DEFINE S == SampleLines \cup {TornLine}
<1>1. /\ candidates \in Seq(S) /\ Whole \in Seq(S) /\ Len(candidates) <= Len(Whole)
      /\ \A i \in 1 .. Len(candidates) : candidates[i] = Whole[i]
  BY DEF SamplingInv, SamplingTypeInv, Whole
<1>2. OneEach(candidates)
  BY <1>1, FirstLines DEF SamplingInv, FileInv
<1>3. \A i \in 1 .. Len(candidates) : candidates[i] \in SampleLines
  BY <1>1 DEF AllParse, ToSet
<1>4. Len(candidates) \in Nat /\ candidates = [i \in 1 .. Len(candidates) |-> candidates[i]]
  BY <1>1
<1> QED BY <1>2, <1>3, <1>4

\* However often the sampler is killed, resumed and started afresh, with whatever
\* batches and buffers: a file that can be read holds one sampling of each prompt, and
\* no prompt gives pairs of two.
THEOREM PromptsAreSampledOnce ==
    ASSUME SamplingAssumption PROVE SamplingSpec => []OneSamplingPerPrompt
<1>1. ASSUME SamplingInv PROVE OneSamplingPerPrompt
  BY <1>1, ReadableIsSampledOnce DEF SamplingInv, PairsInv, OneEach, OneSamplingPerPrompt
<1> QED BY <1>1, SamplingInitInv, SamplingNextInv, PTL DEF SamplingSpec

StrictOrder(before, R) ==
    /\ before \in SUBSET (R \X R)
    /\ \A i \in R : <<i, i>> \notin before
    /\ \A i, j \in R : i # j => <<i, j>> \in before \/ <<j, i>> \in before
    /\ \A i, j, k \in R : <<i, j>> \in before /\ <<j, k>> \in before => <<i, k>> \in before

\* Those with fewer than m before them.
Fewest(before, R, m) == {i \in R : Cardinality({k \in R : <<k, i>> \in before}) < m}

\* In a finite set under a strict total order, those that have fewer than m before them
\* are m, or all there are, and none of them comes after another.
LEMMA FewestBefore ==
    ASSUME NEW R, IsFiniteSet(R), NEW before, StrictOrder(before, R), NEW m \in Nat
    PROVE  /\ IsFiniteSet(Fewest(before, R, m)) /\ Cardinality(Fewest(before, R, m)) <= m
           /\ Fewest(before, R, m) # R => Cardinality(Fewest(before, R, m)) = m
           /\ \A x \in Fewest(before, R, m), y \in R \ Fewest(before, R, m) : <<x, y>> \in before
<1> DEFINE n == Cardinality(R)
           ahead(i) == {k \in R : <<k, i>> \in before}
           r == [i \in R |-> Cardinality(ahead(i))]
           kept == {i \in R : r[i] < m}
<1>1. n \in Nat
  BY FS_CardinalityType
<1>2. ASSUME NEW i \in R
      PROVE  IsFiniteSet(ahead(i)) /\ Cardinality(ahead(i)) \in 0 .. n - 1
  <2>1. ahead(i) \in SUBSET (R \ {i})
    BY DEF StrictOrder
  <2>2. IsFiniteSet(R \ {i}) /\ Cardinality(R \ {i}) = Cardinality(R) - 1
    BY FS_RemoveElement
  <2> HIDE DEF ahead
  <2>3. IsFiniteSet(ahead(i)) /\ Cardinality(ahead(i)) <= Cardinality(R) - 1
    BY <2>1, <2>2, FS_Subset
  <2>4. Cardinality(ahead(i)) \in Nat
    BY <2>3, FS_CardinalityType
  <2> QED BY <1>1, <2>3, <2>4
<1>3. ASSUME NEW i \in R, NEW j \in R, <<i, j>> \in before
      PROVE  Cardinality(ahead(i)) < Cardinality(ahead(j))
  <2>1. ahead(i) \cup {i} \in SUBSET ahead(j)
    BY <1>3 DEF StrictOrder
  <2>2. i \notin ahead(i)
    BY DEF StrictOrder
  <2>3. IsFiniteSet(ahead(i)) /\ IsFiniteSet(ahead(j))
    BY <1>2
  <2> HIDE DEF ahead
  <2>4. Cardinality(ahead(i) \cup {i}) = Cardinality(ahead(i)) + 1
    BY <2>2, <2>3, FS_AddElement
  <2>5. Cardinality(ahead(i) \cup {i}) <= Cardinality(ahead(j))
    BY <2>1, <2>3, FS_Subset
  <2>6. Cardinality(ahead(i)) \in Nat /\ Cardinality(ahead(j)) \in Nat
    BY <2>3, FS_CardinalityType
  <2> QED BY <2>4, <2>5, <2>6
<1>4. /\ r \in [R -> 0 .. n - 1]
      /\ \A i, j \in R : <<i, j>> \in before => r[i] < r[j]
  <2> HIDE DEF ahead
  <2> QED BY <1>2, <1>3
<1>5. Fewest(before, R, m) = kept
  BY DEF Fewest
<1> HIDE DEF r
<1>6. \A i, j \in R : r[i] = r[j] => i = j
  <2> SUFFICES ASSUME NEW i \in R, NEW j \in R, i # j PROVE r[i] # r[j]
    OBVIOUS
  <2>1. <<i, j>> \in before \/ <<j, i>> \in before
    BY DEF StrictOrder
  <2> HIDE DEF n, ahead, kept
  <2>2. r[i] \in 0 .. n - 1 /\ r[j] \in 0 .. n - 1
    BY <1>4
  <2>3. r[i] < r[j] \/ r[j] < r[i]
    BY <1>4, <2>1
  <2> QED BY <1>1, <2>2, <2>3
<1>7. kept \in SUBSET R /\ \A x \in kept : r[x] \in 0 .. m - 1
  BY <1>4, <1>1
<1>8. IsFiniteSet(kept) /\ Cardinality(kept) <= m
  <2> DEFINE g == [i \in kept |-> r[i]]
             T == 0 .. m - 1
  <2>1. g \in Injection(kept, T)
    BY <1>6, <1>7 DEF Injection, IsInjective
  <2>2. IsFiniteSet(T) /\ Cardinality(T) = m
    BY FS_Interval
  <2> HIDE DEF g, T, kept
  <2> QED BY <2>1, <2>2, FS_Injection
<1>9. ASSUME kept # R PROVE Cardinality(kept) = m
  <2>1. m <= n
    <3>1. PICK y \in R : ~ (r[y] < m)
      BY <1>9
    <3> QED BY <1>1, <1>4, <3>1
  <2>2. \A k \in 0 .. n - 1 : \E i \in R : r[i] = k
    <3> DEFINE T == 0 .. n - 1
    <3>1. r \in Injection(R, T)
      BY <1>4, <1>6 DEF Injection, IsInjective
    <3>2. IsFiniteSet(T) /\ Cardinality(T) = n
      <4> HIDE DEF n
      <4> QED BY <1>1, FS_Interval
    <3> HIDE DEF T
    <3>3. r \in Surjection(R, T)
      BY <3>1, <3>2, FS_Injection, Zenon
    <3> QED BY <3>3 DEF Surjection, T
  <2> DEFINE g == [i \in kept |-> r[i]]
             T == 0 .. m - 1
  <2>3. g \in [kept -> T]
    BY <1>7
  <2>4. \A k \in T : \E i \in kept : g[i] = k
    <3>1. SUFFICES ASSUME NEW k \in T PROVE \E i \in kept : g[i] = k
      OBVIOUS
    <3>2. k \in 0 .. n - 1 /\ k < m
      BY <1>1, <2>1
    <3>3. PICK i \in R : r[i] = k
      BY <2>2, <3>2
    <3>4. i \in kept
      BY <3>2, <3>3
    <3> QED BY <3>3, <3>4
  <2>5. g \in Bijection(kept, T)
    BY <1>6, <2>3, <2>4 DEF Bijection, Injection, Surjection, IsInjective
  <2>6. Cardinality(T) = m
    BY FS_Interval
  <2> HIDE DEF kept, g, T
  <2> QED BY <1>8, <2>5, <2>6, FS_Bijection DEF ExistsBijection
<1>10. \A x \in kept, y \in R \ kept : <<x, y>> \in before
  <2>1. SUFFICES ASSUME NEW x \in kept, NEW y \in R, y \notin kept PROVE <<x, y>> \in before
    OBVIOUS
  <2>2. x \in R /\ r[x] < m /\ ~ (r[y] < m)
    BY <2>1
  <2> HIDE DEF n, ahead, kept
  <2>3. r[x] \in 0 .. n - 1 /\ r[y] \in 0 .. n - 1
    BY <1>4, <2>2
  <2>4. x # y
    BY <2>2
  <2>5. <<x, y>> \in before \/ <<y, x>> \in before
    BY <2>2, <2>4 DEF StrictOrder
  <2>6. ~ (r[y] < r[x])
    BY <1>1, <2>2, <2>3
  <2> QED BY <1>4, <2>2, <2>5, <2>6
<1> QED BY <1>5, <1>8, <1>9, <1>10

\* What a build keeps of one prompt, of a file that holds it once.
LEMMA KeptAreHardest ==
    ASSUME SamplingAssumption, candidates \in Seq(SampleLines), OneEach(candidates), NEW p
    PROVE  /\ KeptOf(p) \subseteq FailuresIn(p) /\ Cardinality(KeptOf(p)) <= MaxPairs
           /\ KeptOf(p) # FailuresIn(p) => Cardinality(KeptOf(p)) = MaxPairs
           /\ \A line \in FailuresIn(p) \ KeptOf(p), row \in KeptOf(p) :
                  severity[FailureType[row.what]] <= severity[FailureType[line.what]]
<1> DEFINE R == FailuresOf(p)
           before == {x \in R \X R : ComesFirst(x[1], x[2])}
           kept == Fewest(before, R, MaxPairs)
<1>1. R \subseteq DOMAIN candidates /\ DOMAIN candidates = 1 .. Len(candidates) /\ Len(candidates) \in Nat
  BY DEF FailuresOf
<1>2. IsFiniteSet(R)
  <2>1. IsFiniteSet(1 .. Len(candidates))
    BY <1>1, FS_Interval
  <2> QED BY <1>1, <2>1, FS_Subset
<1>3. \A i \in R : i \in Int /\ SeverityOf(i) \in Int
  <2>1. ASSUME NEW i \in R PROVE SeverityOf(i) \in Int
    <3>1. candidates[i] \in SampleLines /\ candidates[i].what # "sampled"
      BY <1>1 DEF FailuresOf, IsMarker
    <3>2. candidates[i].what \in DOMAIN FailureType
      BY <3>1 DEF SampleLines
    <3>3. FailureType[candidates[i].what] \in {"invalid_json", "wrong_tool", "wrong_args"}
      BY <3>2 DEF SamplingAssumption, severity
    <3> QED BY <3>3 DEF SeverityOf, severity
  <2> QED BY <1>1, <2>1
<1>4. \A i, j \in R : candidates[i] = candidates[j] \/ candidates[i].what = candidates[j].what => i = j
  BY <1>1 DEF OneEach, FailuresOf
<1>5. KeptOf(p) = {candidates[i] : i \in kept}
  <2>1. R = {i \in R : \A k \in R : candidates[k].what = candidates[i].what => i <= k}
    BY <1>3, <1>4
  <2>2. \A i \in R : {k \in R : ComesFirst(k, i)} = {k \in R : <<k, i>> \in before}
    OBVIOUS
  <2>3. {j \in R : Cardinality({k \in R : ComesFirst(k, j)}) < MaxPairs} = kept
    BY <2>2 DEF Fewest
  <2> HIDE DEF kept, before
  <2> QED BY <2>1, <2>3 DEF KeptOf
<1>6. FailuresIn(p) = {candidates[i] : i \in R}
  BY <1>1 DEF FailuresIn, FailuresOf, ToSet
<1>7. StrictOrder(before, R)
  <2>1. \A i, j \in R : <<i, j>> \in before <=>
            SeverityOf(i) < SeverityOf(j) \/ (SeverityOf(i) = SeverityOf(j) /\ i < j)
    BY DEF ComesFirst
  <2>2. before \in SUBSET (R \X R)
    OBVIOUS
  <2> HIDE DEF R, before
  <2> QED BY <1>3, <2>1, <2>2 DEF StrictOrder
<1>8. /\ IsFiniteSet(kept) /\ Cardinality(kept) <= MaxPairs
      /\ kept # R => Cardinality(kept) = MaxPairs
      /\ \A x \in kept, y \in R \ kept : <<x, y>> \in before
  <2>1. MaxPairs \in Nat
    BY DEF SamplingAssumption
  <2> HIDE DEF R, before
  <2> QED BY <1>2, <1>7, <2>1, FewestBefore
<1>9. kept \subseteq R
  BY DEF Fewest
<1>10. \A x \in kept, y \in R \ kept : SeverityOf(x) <= SeverityOf(y)
  <2>1. \A x, y \in R : <<x, y>> \in before => SeverityOf(x) <= SeverityOf(y)
    BY <1>3 DEF ComesFirst
  <2> HIDE DEF R, before, kept
  <2> QED BY <1>8, <1>9, <2>1
<1> HIDE DEF R, before, kept
<1>11. Cardinality({candidates[i] : i \in kept}) = Cardinality(kept)
  <2> DEFINE g == [i \in kept |-> candidates[i]]
             T == {candidates[i] : i \in kept}
  <2>1. g \in Bijection(kept, T)
    BY <1>4, <1>9 DEF Bijection, Injection, Surjection, IsInjective
  <2> HIDE DEF g, T
  <2>2. Cardinality(T) = Cardinality(kept)
    BY <1>8, <2>1, FS_Bijection DEF ExistsBijection
  <2> QED BY <2>2 DEF T
<1>12. ASSUME NEW line \in FailuresIn(p) \ KeptOf(p), NEW row \in KeptOf(p)
       PROVE  severity[FailureType[row.what]] <= severity[FailureType[line.what]]
  <2>1. PICK x \in kept : row = candidates[x]
    BY <1>5
  <2>2. PICK y \in R : line = candidates[y]
    BY <1>6
  <2>3. y \notin kept
    BY <1>5, <2>2
  <2> QED BY <1>10, <2>1, <2>2, <2>3 DEF SeverityOf
<1> QED BY <1>5, <1>6, <1>8, <1>9, <1>11, <1>12

\* For any prompts, outcomes, kills and starts, and any cap: what a build makes of the file
\* has of each prompt as many failures as there are up to the cap, the most severe ones,
\* and nothing of an excluded prompt.
THEOREM TheHardestAreKept ==
    ASSUME SamplingAssumption PROVE SamplingSpec => []HardestAreKept
<1>1. ASSUME SamplingInv PROVE HardestAreKept
  <2> SUFFICES ASSUME AllParse(candidates), NEW p \in ToSet(TrainingPrompts)
               PROVE  LET taken == {row \in Assembled : row.p = p}
                          failed == FailuresIn(p)
                          type(line) == severity[FailureType[line.what]]
                      IN IF p \in Excluded THEN taken = {}
                         ELSE /\ taken \subseteq failed
                              /\ Cardinality(taken) <= MaxPairs
                              /\ taken # failed => Cardinality(taken) = MaxPairs
                              /\ \A line \in failed \ taken, row \in taken : type(row) <= type(line)
    BY DEF HardestAreKept
  <2>1. candidates \in Seq(SampleLines) /\ OneEach(candidates)
    BY <1>1, ReadableIsSampledOnce
  <2>2. \A q : KeptOf(q) \subseteq FailuresIn(q)
    BY <2>1, KeptAreHardest
  <2>3. \A q, row : row \in KeptOf(q) => row.p = q
    BY <2>2 DEF FailuresIn
  <2>4. {row \in Assembled : row.p = p} = IF p \in Excluded THEN {} ELSE KeptOf(p)
    BY <2>3 DEF Assembled
  <2> QED BY <2>1, <2>4, KeptAreHardest
<1> QED BY <1>1, SamplingInitInv, SamplingNextInv, PTL DEF SamplingSpec
=============================================================================
