------------------------------ MODULE WorkLog ------------------------------
(***************************************************************************)
(* What mining/ledger.py promises its callers, with no file in sight: a    *)
(* set of entries, one per prompt whose samples are paid for, each with    *)
(* the stamp that orders it.  An entry is added by append(), and leaves    *)
(* only when redo_last() was asked to retire it.  A crash changes nothing  *)
(* that is recorded; it can only interrupt a rollback.                     *)
(***************************************************************************)
EXTENDS Naturals, FiniteSets

CONSTANTS Prompts, Stamps

VARIABLES active,   \* entries [prompt, seq] in effect
          asked     \* entries a rollback in progress has still to retire

vars == <<active, asked>>

Entries == [prompt : Prompts, seq : Stamps]

TypeOK ==
    /\ active \subseteq Entries
    /\ asked \subseteq active

\* The n entries with the largest stamps, or all of them when there are fewer.
Newest(S, n) == {e \in S : Cardinality({d \in S : d.seq > e.seq}) < n}

Init == active = {} /\ asked = {}

\* append(): a prompt not in effect gets a stamp above every stamp in effect.
Record(p) ==
    /\ asked = {}
    /\ \A e \in active : e.prompt # p
    /\ \E k \in Stamps :
         /\ \A e \in active : e.seq < k
         /\ active' = active \cup {[prompt |-> p, seq |-> k]}
    /\ UNCHANGED asked

\* redo_last(n): the n newest entries are to be retired.
Rollback ==
    /\ asked = {}
    /\ \E n \in 1 .. Cardinality(active) : asked' = Newest(active, n)
    /\ UNCHANGED active

\* Retirement goes in stamp order, oldest of the chosen entries first.
Retire(e) ==
    /\ e \in asked
    /\ \A d \in asked : e.seq <= d.seq
    /\ active' = active \ {e}
    /\ asked' = asked \ {e}

Interrupt ==
    /\ asked # {}
    /\ asked' = {}
    /\ UNCHANGED active

Next ==
    \/ \E p \in Prompts : Record(p)
    \/ Rollback
    \/ \E e \in asked : Retire(e)
    \/ Interrupt

Spec == Init /\ [][Next]_vars
=============================================================================
