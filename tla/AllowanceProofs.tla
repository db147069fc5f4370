--------------------------- MODULE AllowanceProofs ---------------------------
(***************************************************************************)
(* What is proved where something is divided up and summed: the wall-clock *)
(* allowance of a stage over the sessions that use it, however launchers   *)
(* are killed and sessions overlap (part 2), and the slots of the          *)
(* development subset over its buckets (part 3).  Part 1 has what both     *)
(* need of sums.                                                           *)
(***************************************************************************)
EXTENDS LaunchEnvelope, Subset, FiniteSetTheorems, WellFoundedInduction, TLAPS

-----------------------------------------------------------------------------
(* Part 1: sums.                                                           *)

\* Induction, for a set.
LEMMA Induction ==
    ASSUME NEW S, 0 \in S, \A k \in Nat : k \in S => k + 1 \in S
    PROVE  \A k \in Nat : k \in S
<1> DEFINE T == {k \in Nat : k \notin S}
<1> SUFFICES ASSUME T # {} PROVE FALSE
  OBVIOUS
<1>1. PICK x \in T : \A y \in T : ~ (<<y, x>> \in OpToRel(<, Nat))
  <2>1. T \in SUBSET Nat /\ T # {}
    OBVIOUS
  <2> QED BY <2>1, NatLessThanWellFounded, WFMin
<1>2. \A y \in T : ~ (y < x)
  BY <1>1 DEF OpToRel
<1>3. x \in Nat /\ x \notin S /\ x # 0
  OBVIOUS
<1>4. x - 1 \in Nat /\ x - 1 < x /\ (x - 1) + 1 = x
  BY <1>3
<1>5. x - 1 \in S
  BY <1>2, <1>4
<1> QED BY <1>3, <1>4, <1>5

\* The partial sums of f, up to n of them.
SumsOf(f, n, s) == s = [k \in 0 .. n |-> IF k = 0 THEN 0 ELSE s[k - 1] + f[k]]

LEMMA SumsExist ==
    ASSUME NEW n \in Nat, NEW f, \A k \in 1 .. n : f[k] \in Int
    PROVE  \E s \in [0 .. n -> Int] : SumsOf(f, n, s)
<1> DEFINE S == {k \in Nat : k <= n => \E s \in [0 .. k -> Int] : SumsOf(f, k, s)}
<1>1. 0 \in S
  <2> DEFINE s == [k \in 0 .. 0 |-> 0]
  <2>1. s \in [0 .. 0 -> Int] /\ SumsOf(f, 0, s)
    BY DEF SumsOf
  <2> QED BY <2>1
<1>2. ASSUME NEW k \in Nat, k \in S PROVE k + 1 \in S
  <2> SUFFICES ASSUME k + 1 <= n PROVE \E s \in [0 .. k + 1 -> Int] : SumsOf(f, k + 1, s)
    OBVIOUS
  <2>1. PICK s \in [0 .. k -> Int] : SumsOf(f, k, s)
    BY <1>2
  <2> DEFINE t == [i \in 0 .. k + 1 |-> IF i = k + 1 THEN s[k] + f[k + 1] ELSE s[i]]
  <2>2. f[k + 1] \in Int /\ s[k] \in Int
    BY <2>1
  <2>3. t \in [0 .. k + 1 -> Int]
    BY <2>2
  <2>4. ASSUME NEW i \in 0 .. k + 1 PROVE t[i] = IF i = 0 THEN 0 ELSE t[i - 1] + f[i]
    <3>1. CASE i = k + 1
      BY <3>1
    <3>2. CASE i # k + 1
      <4>1. i \in 0 .. k /\ t[i] = s[i] /\ (i # 0 => i - 1 \in 0 .. k /\ t[i - 1] = s[i - 1])
        BY <3>2
      <4>2. s[i] = IF i = 0 THEN 0 ELSE s[i - 1] + f[i]
        BY <2>1, <4>1 DEF SumsOf
      <4> QED BY <4>1, <4>2
    <3> QED BY <3>1, <3>2
  <2>5. SumsOf(f, k + 1, t)
    BY <2>4 DEF SumsOf
  <2> QED BY <2>3, <2>5
<1> HIDE DEF S
<1>3. n \in S
  BY <1>1, <1>2, Induction
<1> QED BY <1>3 DEF S

LEMMA SumsUnique ==
    ASSUME NEW n \in Nat, NEW m \in Nat, n <= m, NEW f, NEW s, NEW t,
           SumsOf(f, n, s), SumsOf(f, m, t)
    PROVE  \A k \in 0 .. n : s[k] = t[k]
<1> DEFINE S == {k \in Nat : k <= n => s[k] = t[k]}
<1>1. 0 \in S
  BY DEF SumsOf
<1>2. ASSUME NEW k \in Nat, k \in S PROVE k + 1 \in S
  <2> SUFFICES ASSUME k + 1 <= n PROVE s[k + 1] = t[k + 1]
    OBVIOUS
  <2>1. k + 1 \in 0 .. n /\ k + 1 \in 0 .. m /\ k + 1 # 0 /\ (k + 1) - 1 = k /\ s[k] = t[k]
    BY <1>2
  <2>2. s[k + 1] = s[k] + f[k + 1]
    BY <2>1 DEF SumsOf
  <2>3. t[k + 1] = t[k] + f[k + 1]
    BY <2>1 DEF SumsOf
  <2> QED BY <2>1, <2>2, <2>3
<1> HIDE DEF S
<1>3. \A k \in Nat : k \in S
  BY <1>1, <1>2, Induction
<1> QED BY <1>3 DEF S

LEMMA TotalIs ==
    ASSUME NEW n \in Nat, NEW f, \A k \in 1 .. n : f[k] \in Int
    PROVE  \E s \in [0 .. n -> Int] : SumsOf(f, n, s) /\ Total(f, n) = s[n]
<1> DEFINE sum == CHOOSE s : s = [k \in 0 .. n |-> IF k = 0 THEN 0 ELSE s[k - 1] + f[k]]
<1>1. PICK s \in [0 .. n -> Int] : SumsOf(f, n, s)
  BY SumsExist
<1>2. sum = [k \in 0 .. n |-> IF k = 0 THEN 0 ELSE sum[k - 1] + f[k]]
  BY <1>1 DEF SumsOf
<1>3. Total(f, n) = sum[n]
  BY DEF Total
<1> HIDE DEF sum
<1>4. SumsOf(f, n, sum)
  BY <1>2 DEF SumsOf
<1>5. s[n] = sum[n]
  BY <1>1, <1>4, SumsUnique
<1> QED BY <1>1, <1>3, <1>5

\* A sum, step by step.
LEMMA TotalStep ==
    ASSUME NEW n \in Nat, NEW f, \A k \in 1 .. n : f[k] \in Int
    PROVE  /\ Total(f, 0) = 0
           /\ \A k \in 0 .. n : Total(f, k) \in Int
           /\ \A k \in 1 .. n : Total(f, k) = Total(f, k - 1) + f[k]
<1>1. PICK s \in [0 .. n -> Int] : SumsOf(f, n, s)
  BY SumsExist
<1>2. ASSUME NEW k \in 0 .. n PROVE Total(f, k) = s[k]
  <2>1. k \in Nat /\ k <= n /\ \A i \in 1 .. k : f[i] \in Int
    OBVIOUS
  <2>2. PICK t \in [0 .. k -> Int] : SumsOf(f, k, t) /\ Total(f, k) = t[k]
    BY <2>1, TotalIs
  <2>3. t[k] = s[k]
    BY <1>1, <2>1, <2>2, SumsUnique
  <2> QED BY <2>2, <2>3
<1>3. s[0] = 0 /\ \A k \in 1 .. n : s[k] = s[k - 1] + f[k]
  BY <1>1 DEF SumsOf
<1>4. 0 \in 0 .. n /\ \A k \in 1 .. n : k \in 0 .. n /\ k - 1 \in 0 .. n
  OBVIOUS
<1>5. Total(f, 0) = 0 /\ \A k \in 0 .. n : Total(f, k) \in Int
  BY <1>2, <1>3, <1>4
<1>6. ASSUME NEW k \in 1 .. n PROVE Total(f, k) = Total(f, k - 1) + f[k]
  BY <1>2, <1>3, <1>4
<1> QED BY <1>5, <1>6

\* Sums are compared term by term.
LEMMA TotalMonotone ==
    ASSUME NEW n \in Nat, NEW f, NEW g,
           \A k \in 1 .. n : f[k] \in Int /\ g[k] \in Int /\ f[k] <= g[k]
    PROVE  Total(f, n) <= Total(g, n)
<1> DEFINE S == {k \in Nat : k <= n => Total(f, k) <= Total(g, k)}
<1>1. /\ Total(f, 0) = 0
      /\ \A k \in 0 .. n : Total(f, k) \in Int
      /\ \A k \in 1 .. n : Total(f, k) = Total(f, k - 1) + f[k]
  BY TotalStep
<1>2. /\ Total(g, 0) = 0
      /\ \A k \in 0 .. n : Total(g, k) \in Int
      /\ \A k \in 1 .. n : Total(g, k) = Total(g, k - 1) + g[k]
  BY TotalStep
<1>3. 0 \in S
  BY <1>1, <1>2
<1>4. ASSUME NEW k \in Nat, k \in S PROVE k + 1 \in S
  <2> SUFFICES ASSUME k + 1 <= n PROVE Total(f, k + 1) <= Total(g, k + 1)
    OBVIOUS
  <2>1. k + 1 \in 1 .. n /\ k \in 0 .. n /\ (k + 1) - 1 = k /\ Total(f, k) <= Total(g, k)
    BY <1>4
  <2>2. Total(f, k + 1) = Total(f, k) + f[k + 1] /\ Total(g, k + 1) = Total(g, k) + g[k + 1]
    BY <1>1, <1>2, <2>1
  <2> QED BY <1>1, <1>2, <2>1, <2>2
<1> HIDE DEF S
<1>5. n \in S
  BY <1>3, <1>4, Induction
<1> QED BY <1>5 DEF S

LEMMA TotalSame ==
    ASSUME NEW n \in Nat, NEW f, NEW g, \A k \in 1 .. n : f[k] \in Int /\ f[k] = g[k]
    PROVE  Total(f, n) = Total(g, n)
<1>1. Total(f, n) <= Total(g, n) /\ Total(g, n) <= Total(f, n)
  <2>1. \A k \in 1 .. n : f[k] \in Int /\ g[k] \in Int /\ f[k] <= g[k] /\ g[k] <= f[k]
    OBVIOUS
  <2> QED BY <2>1, TotalMonotone
<1>2. Total(f, n) \in Int /\ Total(g, n) \in Int
  <2>1. \A k \in 1 .. n : f[k] \in Int /\ g[k] \in Int
    OBVIOUS
  <2>2. n \in 0 .. n
    OBVIOUS
  <2> QED BY <2>1, <2>2, TotalStep
<1> QED BY <1>1, <1>2

\* The sum of sums.
LEMMA TotalAdds ==
    ASSUME NEW n \in Nat, NEW f, NEW g, NEW h,
           \A k \in 1 .. n : f[k] \in Int /\ g[k] \in Int /\ h[k] = f[k] + g[k]
    PROVE  Total(h, n) = Total(f, n) + Total(g, n)
<1> DEFINE S == {k \in Nat : k <= n => Total(h, k) = Total(f, k) + Total(g, k)}
<1>1. /\ Total(f, 0) = 0
      /\ \A k \in 0 .. n : Total(f, k) \in Int
      /\ \A k \in 1 .. n : Total(f, k) = Total(f, k - 1) + f[k]
  BY TotalStep
<1>2. /\ Total(g, 0) = 0
      /\ \A k \in 0 .. n : Total(g, k) \in Int
      /\ \A k \in 1 .. n : Total(g, k) = Total(g, k - 1) + g[k]
  BY TotalStep
<1>3. /\ Total(h, 0) = 0
      /\ \A k \in 1 .. n : Total(h, k) = Total(h, k - 1) + h[k]
  <2>1. \A k \in 1 .. n : h[k] \in Int
    OBVIOUS
  <2> QED BY <2>1, TotalStep
<1>4. 0 \in S
  BY <1>1, <1>2, <1>3
<1>5. ASSUME NEW k \in Nat, k \in S PROVE k + 1 \in S
  <2> SUFFICES ASSUME k + 1 <= n PROVE Total(h, k + 1) = Total(f, k + 1) + Total(g, k + 1)
    OBVIOUS
  <2>1. k + 1 \in 1 .. n /\ k \in 0 .. n /\ (k + 1) - 1 = k /\ Total(h, k) = Total(f, k) + Total(g, k)
    BY <1>5
  <2>2. /\ Total(f, k + 1) = Total(f, k) + f[k + 1] /\ Total(g, k + 1) = Total(g, k) + g[k + 1]
        /\ Total(h, k + 1) = Total(h, k) + h[k + 1]
    BY <1>1, <1>2, <1>3, <2>1
  <2>3. h[k + 1] = f[k + 1] + g[k + 1] /\ f[k + 1] \in Int /\ g[k + 1] \in Int
    BY <2>1
  <2> QED BY <1>1, <1>2, <2>1, <2>2, <2>3
<1> HIDE DEF S
<1>6. n \in S
  BY <1>4, <1>5, Induction
<1> QED BY <1>6 DEF S

\* A term that is larger makes the sum larger.
LEMMA TotalStrict ==
    ASSUME NEW n \in Nat, NEW f, NEW g, NEW m \in 1 .. n,
           \A k \in 1 .. n : f[k] \in Int /\ g[k] \in Int /\ f[k] <= g[k],
           f[m] < g[m]
    PROVE  Total(f, n) + 1 <= Total(g, n)
<1> DEFINE one == [k \in 1 .. n |-> IF k = m THEN 1 ELSE 0]
           more == [k \in 1 .. n |-> f[k] + one[k]]
           S == {k \in Nat : k <= n => Total(one, k) = IF k < m THEN 0 ELSE 1}
<1>1. /\ Total(one, 0) = 0
      /\ \A k \in 1 .. n : Total(one, k) = Total(one, k - 1) + one[k]
  <2>1. \A k \in 1 .. n : one[k] \in Int
    OBVIOUS
  <2> QED BY <2>1, TotalStep
<1>2. 0 \in S
  BY <1>1
<1>3. ASSUME NEW k \in Nat, k \in S PROVE k + 1 \in S
  <2> SUFFICES ASSUME k + 1 <= n
               PROVE Total(one, k + 1) = IF k + 1 < m THEN 0 ELSE 1
    OBVIOUS
  <2>1. k + 1 \in 1 .. n /\ (k + 1) - 1 = k /\ Total(one, k) = IF k < m THEN 0 ELSE 1
    BY <1>3
  <2>2. Total(one, k + 1) = Total(one, k) + one[k + 1]
    BY <1>1, <2>1
  <2>3. one[k + 1] = IF k + 1 = m THEN 1 ELSE 0
    BY <2>1
  <2> QED BY <2>1, <2>2, <2>3
<1> HIDE DEF S
<1>4. n \in S
  BY <1>2, <1>3, Induction
<1>5. Total(one, n) = 1
  BY <1>4 DEF S
<1>6. Total(more, n) = Total(f, n) + Total(one, n)
  <2>1. \A k \in 1 .. n : f[k] \in Int /\ one[k] \in Int /\ more[k] = f[k] + one[k]
    OBVIOUS
  <2> HIDE DEF one, more
  <2> QED BY <2>1, TotalAdds
<1>7. Total(more, n) <= Total(g, n)
  <2>1. \A k \in 1 .. n : more[k] \in Int /\ g[k] \in Int /\ more[k] <= g[k]
    OBVIOUS
  <2> HIDE DEF more
  <2> QED BY <2>1, TotalMonotone
<1> QED BY <1>5, <1>6, <1>7

LEMMA TotalNat ==
    ASSUME NEW n \in Nat, NEW f, \A k \in 1 .. n : f[k] \in Nat
    PROVE  Total(f, n) \in Nat
<1> DEFINE S == {k \in Nat : k <= n => Total(f, k) \in Nat}
<1>1. /\ Total(f, 0) = 0
      /\ \A k \in 1 .. n : Total(f, k) = Total(f, k - 1) + f[k]
  BY TotalStep
<1>2. 0 \in S
  BY <1>1
<1>3. ASSUME NEW k \in Nat, k \in S PROVE k + 1 \in S
  <2> SUFFICES ASSUME k + 1 <= n PROVE Total(f, k + 1) \in Nat
    OBVIOUS
  <2>1. k + 1 \in 1 .. n /\ (k + 1) - 1 = k /\ Total(f, k) \in Nat
    BY <1>3
  <2> QED BY <1>1, <2>1
<1> HIDE DEF S
<1>4. n \in S
  BY <1>2, <1>3, Induction
<1> QED BY <1>4 DEF S

-----------------------------------------------------------------------------
(* Part 2: the allowance of a stage (LaunchEnvelope).                      *)
(*                                                                         *)
(* What a launcher may use is worked out from the lines of the session     *)
(* ledger, what children use is the clock's.  The invariant relates them:  *)
(* the time some child ran is at most what the sessions are charged, and   *)
(* a running child's cap still fits in what was left when it started.      *)

IsStart(s, t) == \E i \in DOMAIN ledger : ledger[i] = SessionStart(s, t)
IsEnd(s, e) == \E i \in DOMAIN ledger : ledger[i] = SessionEnd(s, e)

Records == {TornRecord} \cup {SessionStart(s, t) : s \in Sessions, t \in Nat}
                        \cup {SessionEnd(s, e) : s \in Sessions, e \in Nat}
Children == [state : {"none", "opened", "running", "over"}, from : Nat, cap : Nat]

LaunchTypeInv ==
    /\ now \in Nat /\ busy \in Nat /\ kills \in Nat
    /\ ledger \in Seq(Records)
    /\ flock \subseteq Launchers
    /\ launcher \in [Launchers -> {"out", "reading", "starting", "waiting"}]
    /\ session \in [Launchers -> [id : 0 .. MaxSessions, remaining : Int]]
    /\ child \in [Sessions -> Children]
    /\ now <= MaxTime /\ busy <= now /\ kills <= MaxKills

\* Who launches holds the lock, so no two do.
LockInv ==
    /\ \A l \in Launchers : launcher[l] # "out" => flock = {l}
    /\ flock = {} \/ \E l \in Launchers : flock = {l}

\* The session a launcher works for has not been ended, and is charged from the
\* moment its child starts.
OwnInv ==
    \A l \in Launchers :
        /\ launcher[l] \in {"starting", "waiting"} =>
               session[l].id \in Sessions /\ \A e \in Nat : ~ IsEnd(session[l].id, e)
        /\ launcher[l] = "starting" =>
               /\ child[session[l].id].state = "opened" /\ IsStart(session[l].id, now)
               /\ session[l].remaining > 0
        /\ launcher[l] = "waiting" => child[session[l].id].state \in {"running", "over"}

\* What the lines say of the children: a session has one start and one end at most,
\* and is not ended while its child runs under a cap.
LinesTell(s) ==
    /\ \A t, u \in Nat : IsStart(s, t) /\ IsStart(s, u) => t = u
    /\ \A e, f \in Nat : IsEnd(s, e) /\ IsEnd(s, f) => e = f
    /\ \A t \in Nat : IsStart(s, t) => t <= now /\ child[s].state # "none"
    /\ \A e \in Nat : IsEnd(s, e) =>
           child[s].state = "over" \/ (child[s].state = "running" /\ child[s].cap = 0)
    /\ child[s].state \in {"running", "over"} =>
           /\ child[s].from <= now
           /\ \A t \in Nat : IsStart(s, t) => t = child[s].from
    /\ child[s].state = "running" /\ child[s].cap > 0 => IsStart(s, child[s].from)

LinesInv == \A s \in Sessions : LinesTell(s)

Capped == \A s \in Sessions : child[s].state \in {"running", "over"} => child[s].cap > 0
Allowance == MaxStage * Second

BusyInv ==
    Capped =>
        /\ busy <= ElapsedBefore
        /\ busy <= Allowance + Grace * Second
        /\ \A l \in Launchers : launcher[l] = "starting" => busy <= Allowance - session[l].remaining
        /\ \A s \in Sessions : child[s].state = "running" =>
               busy + child[s].cap + child[s].from <= Allowance + now

\* What the lines of a session come to.
LEMMA ChargeIs ==
    ASSUME LaunchTypeInv, LinesInv, NEW s \in Sessions
    PROVE  /\ (\A t \in Nat : ~ IsStart(s, t)) => Charge(s) = 0
           /\ \A t, e \in Nat : IsStart(s, t) /\ IsEnd(s, e) => Charge(s) = e
           /\ \A t \in Nat : IsStart(s, t) /\ (\A e \in Nat : ~ IsEnd(s, e)) =>
                  Charge(s) = now - t
<1>1. ASSUME NEW i \in DOMAIN ledger
      PROVE  /\ ledger[i].event = "session_start" /\ ledger[i].session = s =>
                    \E t \in Nat : ledger[i] = SessionStart(s, t)
             /\ ledger[i].event = "session_end" /\ ledger[i].session = s =>
                    \E e \in Nat : ledger[i] = SessionEnd(s, e)
  <2>1. ledger[i] \in Records
    BY DEF LaunchTypeInv
  <2> QED BY <2>1 DEF Records, TornRecord, SessionStart, SessionEnd
<1>2. \A t \in Nat : IsStart(s, t) <=>
          \E i \in Lines("session_start", s) : ledger[i] = SessionStart(s, t)
  BY DEF IsStart, Lines, SessionStart
<1>3. \A e \in Nat : IsEnd(s, e) <=>
          \E i \in Lines("session_end", s) : ledger[i] = SessionEnd(s, e)
  BY DEF IsEnd, Lines, SessionEnd
<1>4. \A i \in Lines("session_start", s) :
          \E t \in Nat : ledger[i] = SessionStart(s, t) /\ IsStart(s, t)
  BY <1>1, <1>2 DEF Lines
<1>5. \A i \in Lines("session_end", s) :
          \E e \in Nat : ledger[i] = SessionEnd(s, e) /\ IsEnd(s, e)
  BY <1>1, <1>3 DEF Lines
<1>6. ASSUME \A t \in Nat : ~ IsStart(s, t) PROVE Charge(s) = 0
  <2>1. Lines("session_start", s) = {}
    BY <1>4, <1>6
  <2> QED BY <2>1 DEF Charge
<1>7. ASSUME NEW t \in Nat, IsStart(s, t)
      PROVE  Lines("session_start", s) # {} /\ TheLine("session_start", s).started_at = t
  <2>1. PICK i \in Lines("session_start", s) : TheLine("session_start", s) = ledger[i]
    <3>1. Lines("session_start", s) # {}
      BY <1>2, <1>7
    <3> DEFINE c == CHOOSE i \in Lines("session_start", s) : TRUE
    <3>2. c \in Lines("session_start", s)
      BY <3>1
    <3> QED BY <3>2 DEF TheLine
  <2>2. PICK u \in Nat : ledger[i] = SessionStart(s, u) /\ IsStart(s, u)
    BY <1>4, <2>1
  <2>3. u = t
    BY <1>7, <2>2 DEF LinesInv, LinesTell
  <2> QED BY <2>1, <2>2, <2>3 DEF SessionStart
<1>8. ASSUME NEW e \in Nat, IsEnd(s, e)
      PROVE  Lines("session_end", s) # {} /\ TheLine("session_end", s).elapsed = e
  <2>1. PICK i \in Lines("session_end", s) : TheLine("session_end", s) = ledger[i]
    <3>1. Lines("session_end", s) # {}
      BY <1>3, <1>8
    <3> DEFINE c == CHOOSE i \in Lines("session_end", s) : TRUE
    <3>2. c \in Lines("session_end", s)
      BY <3>1
    <3> QED BY <3>2 DEF TheLine
  <2>2. PICK f \in Nat : ledger[i] = SessionEnd(s, f) /\ IsEnd(s, f)
    BY <1>5, <2>1
  <2>3. f = e
    BY <1>8, <2>2 DEF LinesInv, LinesTell
  <2> QED BY <2>1, <2>2, <2>3 DEF SessionEnd
<1>9. ASSUME NEW t \in Nat, NEW e \in Nat, IsStart(s, t), IsEnd(s, e) PROVE Charge(s) = e
  <2>1. Lines("session_start", s) # {}
    BY <1>7, <1>9
  <2>2. Lines("session_end", s) # {} /\ TheLine("session_end", s).elapsed = e
    BY <1>8, <1>9
  <2> QED BY <2>1, <2>2 DEF Charge
<1>10. ASSUME NEW t \in Nat, IsStart(s, t), \A e \in Nat : ~ IsEnd(s, e)
       PROVE  Charge(s) = now - t
  <2>1. Lines("session_start", s) # {} /\ TheLine("session_start", s).started_at = t
    BY <1>7, <1>10
  <2>2. Lines("session_end", s) = {}
    BY <1>5, <1>10
  <2> QED BY <2>1, <2>2 DEF Charge
<1> QED BY <1>6, <1>9, <1>10

LEMMA ChargeNat ==
    ASSUME LaunchTypeInv, LinesInv, NEW s \in Sessions
    PROVE  Charge(s) \in Nat
<1>1. CASE \A t \in Nat : ~ IsStart(s, t)
  BY <1>1, ChargeIs
<1>2. CASE \E t, e \in Nat : IsStart(s, t) /\ IsEnd(s, e)
  BY <1>2, ChargeIs
<1>3. CASE \E t \in Nat : IsStart(s, t) /\ \A e \in Nat : ~ IsEnd(s, e)
  <2>1. PICK t \in Nat : IsStart(s, t) /\ \A e \in Nat : ~ IsEnd(s, e)
    BY <1>3
  <2>2. t <= now /\ now \in Nat
    BY <2>1 DEF LinesInv, LinesTell, LaunchTypeInv
  <2> QED BY <2>1, <2>2, ChargeIs
<1> QED BY <1>1, <1>2, <1>3

\* Appending to the session ledger: a line more, or nothing where it is torn.
LEMMA LinesAfter ==
    ASSUME LaunchTypeInv, NEW x \in Records, ledger' = Recorded(ledger, x)
    PROVE  /\ ledger' \in Seq(Records)
           /\ ledger' # ledger => ledger' = Append(ledger, x)
           /\ \A s, t : IsStart(s, t)' => IsStart(s, t) \/ x = SessionStart(s, t)
           /\ \A s, e : IsEnd(s, e)' => IsEnd(s, e) \/ x = SessionEnd(s, e)
           /\ \A s, t : IsStart(s, t) => IsStart(s, t)'
           /\ \A s, e : IsEnd(s, e) => IsEnd(s, e)'
           /\ Trusted => \E i \in DOMAIN ledger' : ledger'[i] = x
<1>1. ledger \in Seq(Records)
  BY DEF LaunchTypeInv
<1>2. CASE ledger' = ledger
  <2>1. ~ Trusted
    <3>1. SUFFICES ASSUME Trusted PROVE FALSE
      OBVIOUS
    <3>2. Len(ledger) \in Nat /\ DOMAIN ledger = 1 .. Len(ledger)
      BY <1>1
    <3>3. ~ (ledger # <<>> /\ ledger[Len(ledger)] = TornRecord)
      BY <3>1, <3>2, <1>1 DEF Trusted
    <3>4. ledger' = Append(ledger, x)
      BY <3>3 DEF Recorded
    <3>5. Len(ledger') = Len(ledger) + 1
      BY <1>1, <3>4
    <3> QED BY <1>2, <3>2, <3>5
  <2> QED BY <1>1, <1>2, <2>1 DEF IsStart, IsEnd
<1>3. CASE ledger' # ledger
  <2>1. ledger' = Append(ledger, x)
    BY <1>3 DEF Recorded
  <2>2. /\ Len(ledger) \in Nat /\ DOMAIN ledger = 1 .. Len(ledger)
        /\ DOMAIN ledger' = 1 .. Len(ledger) + 1 /\ ledger' \in Seq(Records)
        /\ ledger'[Len(ledger) + 1] = x
        /\ \A i \in 1 .. Len(ledger) : ledger'[i] = ledger[i]
    BY <1>1, <2>1
  <2>3. \A i \in DOMAIN ledger' : i = Len(ledger) + 1 \/ i \in DOMAIN ledger
    BY <2>2
  <2>4. Len(ledger) + 1 \in DOMAIN ledger' /\ \A i \in DOMAIN ledger : i \in DOMAIN ledger'
    BY <2>2
  <2>5. \A s, t : IsStart(s, t)' => IsStart(s, t) \/ x = SessionStart(s, t)
    BY <2>2, <2>3 DEF IsStart, SessionStart
  <2>6. \A s, e : IsEnd(s, e)' => IsEnd(s, e) \/ x = SessionEnd(s, e)
    BY <2>2, <2>3 DEF IsEnd, SessionEnd
  <2>7. \A s, t : IsStart(s, t) => IsStart(s, t)'
    BY <2>2, <2>4 DEF IsStart, SessionStart
  <2>8. \A s, e : IsEnd(s, e) => IsEnd(s, e)'
    BY <2>2, <2>4 DEF IsEnd, SessionEnd
  <2> QED BY <2>1, <2>2, <2>4, <2>5, <2>6, <2>7, <2>8
<1> QED BY <1>2, <1>3

\* The three kinds of line are apart.
LEMMA LineKinds ==
    /\ \A s, t : TornRecord # SessionStart(s, t) /\ TornRecord # SessionEnd(s, t)
    /\ \A s, t, u, v : SessionStart(s, t) # SessionEnd(u, v)
    /\ \A s, t, u, v : SessionStart(s, t) = SessionStart(u, v) => s = u /\ t = v
    /\ \A s, t, u, v : SessionEnd(s, t) = SessionEnd(u, v) => s = u /\ t = v
<1>1. TornRecord.event = "torn"
  BY DEF TornRecord
<1>2. \A s, t : /\ SessionStart(s, t).event = "session_start" /\ SessionStart(s, t).session = s
                /\ SessionStart(s, t).started_at = t
  BY DEF SessionStart
<1>3. \A s, e : /\ SessionEnd(s, e).event = "session_end" /\ SessionEnd(s, e).session = s
                /\ SessionEnd(s, e).elapsed = e
  BY DEF SessionEnd
<1>4. \A s, t : TornRecord # SessionStart(s, t) /\ TornRecord # SessionEnd(s, t)
  BY <1>1, <1>2, <1>3
<1>5. \A s, t, u, v : SessionStart(s, t) # SessionEnd(u, v)
  BY <1>2, <1>3
<1>6. \A s, t, u, v : SessionStart(s, t) = SessionStart(u, v) => s = u /\ t = v
  BY <1>2
<1>7. \A s, t, u, v : SessionEnd(s, t) = SessionEnd(u, v) => s = u /\ t = v
  BY <1>3
<1> QED BY <1>4, <1>5, <1>6, <1>7

\* A torn line says nothing of a session.
LEMMA TornSaysNothing ==
    ASSUME LaunchTypeInv, ledger' \in {ledger, Recorded(ledger, TornRecord)}
    PROVE  /\ ledger' \in Seq(Records)
           /\ \A s, t : IsStart(s, t)' <=> IsStart(s, t)
           /\ \A s, e : IsEnd(s, e)' <=> IsEnd(s, e)
<1>1. CASE ledger' = ledger
  BY <1>1 DEF LaunchTypeInv, IsStart, IsEnd
<1>2. CASE ledger' = Recorded(ledger, TornRecord)
  <2>1. TornRecord \in Records
    BY DEF Records
  <2> QED BY <1>2, <2>1, LinesAfter, LineKinds
<1> QED BY <1>1, <1>2

CoreInv == LaunchTypeInv /\ LockInv /\ OwnInv /\ LinesInv

LEMMA CoreInit == ASSUME EnvelopeAssumption PROVE EnvelopeInit => CoreInv
<1> SUFFICES ASSUME EnvelopeInit PROVE CoreInv
  OBVIOUS
<1>1. LaunchTypeInv
  BY DEF EnvelopeInit, EnvelopeAssumption, LaunchTypeInv, NoSession, NotStarted, Children, Sessions
<1>2. LockInv /\ OwnInv
  BY DEF EnvelopeInit, LockInv, OwnInv
<1>3. LinesInv
  <2>1. \A s, t : ~ IsStart(s, t) /\ ~ IsEnd(s, t)
    BY DEF EnvelopeInit, IsStart, IsEnd
  <2>2. \A s \in Sessions : child[s].state = "none"
    BY DEF EnvelopeInit, NotStarted
  <2> QED BY <2>1, <2>2 DEF LinesInv, LinesTell
<1> QED BY <1>1, <1>2, <1>3 DEF CoreInv

\* A launcher that leaves gives back the lock and its session; nobody else had any.
LEMMA LeavesAlone ==
    ASSUME LaunchTypeInv, LockInv, NEW l \in Launchers, launcher[l] # "out", LeaveLaunch(l)
    PROVE  /\ flock' = {}
           /\ launcher' \in [Launchers -> {"out", "reading", "starting", "waiting"}]
           /\ \A m \in Launchers : launcher'[m] = "out"
           /\ EnvelopeAssumption => session' \in [Launchers -> [id : 0 .. MaxSessions, remaining : Int]]
<1>1. \A m \in Launchers : m # l => launcher[m] = "out"
  BY DEF LockInv
<1>2. EnvelopeAssumption => NoSession \in [id : 0 .. MaxSessions, remaining : Int]
  BY DEF NoSession, EnvelopeAssumption
<1>3. flock' = {}
  <2>1. flock = {l} /\ flock' = flock \ {l}
    BY DEF LockInv, LeaveLaunch
  <2> QED BY <2>1
<1>4. \A m \in Launchers : launcher'[m] = "out"
  BY <1>1 DEF LeaveLaunch, Goto, LaunchTypeInv
<1> QED BY <1>2, <1>3, <1>4 DEF LeaveLaunch, Goto, LaunchTypeInv

LEMMA CoreNext ==
    ASSUME EnvelopeAssumption, CoreInv, [EnvelopeNext]_EnvelopeVars
    PROVE  CoreInv'
<1> USE DEF CoreInv
<1>a. ASSUME UNCHANGED ledger
      PROVE  /\ \A s, t : IsStart(s, t)' <=> IsStart(s, t)
             /\ \A s, e : IsEnd(s, e)' <=> IsEnd(s, e)
  BY <1>a DEF IsStart, IsEnd
<1>1. ASSUME NEW l \in Launchers, TakeLock(l) PROVE CoreInv'
  <2>1. \A m \in Launchers : launcher[m] = "out"
    BY <1>1 DEF TakeLock, LockInv
  <2>2. LaunchTypeInv'
    BY <1>1 DEF TakeLock, Goto, LaunchTypeInv
  <2>3. LockInv' /\ OwnInv'
    BY <1>1, <2>1 DEF TakeLock, Goto, LaunchTypeInv, LockInv, OwnInv
  <2>4. LinesInv'
    BY <1>1, <1>a DEF TakeLock, LinesInv, LinesTell
  <2> QED BY <2>2, <2>3, <2>4
<1>2. ASSUME NEW l \in Launchers, RefuseSession(l) PROVE CoreInv'
  <2>1. launcher[l] # "out" /\ LeaveLaunch(l)
    BY <1>2 DEF RefuseSession
  <2>2. LaunchTypeInv'
    BY <1>2, <2>1, LeavesAlone DEF RefuseSession, LaunchTypeInv
  <2>3. LockInv' /\ OwnInv'
    BY <2>1, LeavesAlone DEF LockInv, OwnInv
  <2>4. LinesInv'
    BY <1>2, <1>a DEF RefuseSession, LinesInv, LinesTell
  <2> QED BY <2>2, <2>3, <2>4
<1>3. ASSUME NEW l \in Launchers, OpenSession(l) PROVE CoreInv'
  <2>1. PICK s \in Sessions :
          /\ child[s] = NotStarted
          /\ ledger' = Recorded(ledger, SessionStart(s, now))
          /\ session' = [session EXCEPT ![l] = [id |-> s, remaining |-> Remaining]]
          /\ child' = [child EXCEPT ![s].state = "opened"]
    BY <1>3 DEF OpenSession
  <2>2. /\ \A m \in Launchers : m # l => launcher[m] = "out"
        /\ launcher' = [launcher EXCEPT ![l] = "starting"]
        /\ UNCHANGED <<now, flock, busy, kills>> /\ MayOpen /\ flock = {l}
    BY <1>3 DEF OpenSession, Goto, LockInv
  <2>3. SessionStart(s, now) \in Records
    BY DEF Records, LaunchTypeInv
  <2>4. Remaining \in Int /\ Remaining > 0
    <3>1. ElapsedBefore \in Nat
      <4> DEFINE c == [r \in Sessions |-> Charge(r)]
      <4>1. \A r \in 1 .. MaxSessions : c[r] \in Nat
        BY ChargeNat DEF Sessions
      <4> HIDE DEF c
      <4>2. Total(c, MaxSessions) \in Nat
        BY <4>1, TotalNat DEF EnvelopeAssumption
      <4> QED BY <4>2 DEF ElapsedBefore, c
    <3>2. Remaining > 0
      BY <2>2 DEF MayOpen
    <3> QED BY <3>1, <3>2 DEF Remaining, EnvelopeAssumption
  <2>5. /\ ledger' \in Seq(Records)
        /\ \A r, t : IsStart(r, t)' => IsStart(r, t) \/ (r = s /\ t = now)
        /\ \A r, e : IsEnd(r, e)' <=> IsEnd(r, e)
        /\ \A r, t : IsStart(r, t) => IsStart(r, t)'
        /\ IsStart(s, now)'
    <3>1. Trusted
      BY <2>2 DEF MayOpen
    <3>2. \E i \in DOMAIN ledger' : ledger'[i] = SessionStart(s, now)
      BY <2>1, <2>3, <3>1, LinesAfter
    <3>3. IsStart(s, now)'
      BY <3>2, <2>2 DEF IsStart, SessionStart
    <3> QED BY <2>1, <2>3, <3>3, LinesAfter, LineKinds
  <2>6. /\ \A t \in Nat : ~ IsStart(s, t) /\ ~ IsEnd(s, t)
    BY <2>1 DEF LinesInv, LinesTell, NotStarted
  <2>7. /\ child'[s] = [NotStarted EXCEPT !.state = "opened"] /\ child'[s].state = "opened"
        /\ \A r \in Sessions : r # s => child'[r] = child[r]
        /\ child' \in [Sessions -> Children]
    BY <2>1 DEF LaunchTypeInv, NotStarted, Children
  <2>8. LaunchTypeInv'
    <3>1. session' \in [Launchers -> [id : 0 .. MaxSessions, remaining : Int]]
      BY <2>1, <2>4 DEF LaunchTypeInv, Sessions
    <3> QED BY <2>2, <2>5, <2>7, <3>1 DEF LaunchTypeInv
  <2>9. LockInv'
    BY <2>2 DEF LockInv, LaunchTypeInv
  <2>10. OwnInv'
    <3>1. \A m \in Launchers : m # l => launcher'[m] = "out"
      BY <2>2 DEF LaunchTypeInv
    <3>2. session'[l].id = s /\ session'[l].remaining = Remaining /\ launcher'[l] = "starting"
      BY <2>1, <2>2 DEF LaunchTypeInv
    <3> QED BY <2>2, <2>4, <2>5, <2>6, <2>7, <3>1, <3>2 DEF OwnInv, LaunchTypeInv
  <2>11. LinesInv'
    <3>1. ASSUME NEW r \in Sessions, r # s PROVE LinesTell(r)'
      BY <2>2, <2>5, <2>7, <3>1 DEF LinesInv, LinesTell
    <3>2. LinesTell(s)'
      BY <2>2, <2>5, <2>6, <2>7 DEF LinesTell, LaunchTypeInv
    <3> QED BY <3>1, <3>2 DEF LinesInv
  <2> QED BY <2>8, <2>9, <2>10, <2>11
<1>4. ASSUME NEW l \in Launchers, StartChild(l) PROVE CoreInv'
  <2>1. PICK s \in Sessions :
          /\ s = session[l].id /\ child[s].state = "opened" /\ IsStart(s, now)
          /\ session[l].remaining > 0 /\ \A e \in Nat : ~ IsEnd(s, e)
    BY <1>4 DEF StartChild, OwnInv
  <2>2. /\ child' = [child EXCEPT ![s] =
                        [state |-> "running", from |-> now, cap |-> Cap(session[l].remaining)]]
        /\ launcher' = [launcher EXCEPT ![l] = "waiting"] /\ launcher[l] = "starting"
        /\ UNCHANGED <<now, ledger, flock, session, busy, kills>>
    BY <1>4, <2>1 DEF StartChild, Goto
  <2>3. Cap(session[l].remaining) \in Nat
    <3>1. session[l].remaining \in Nat /\ Second \in Nat \ {0}
      BY <2>1 DEF LaunchTypeInv, EnvelopeAssumption
    <3>2. session[l].remaining \div Second \in Nat
      BY <3>1
    <3> QED BY <3>1, <3>2 DEF Cap
  <2>4. /\ child'[s] = [state |-> "running", from |-> now, cap |-> Cap(session[l].remaining)]
        /\ \A r \in Sessions : r # s => child'[r] = child[r]
        /\ child' \in [Sessions -> Children]
    BY <2>1, <2>2, <2>3 DEF LaunchTypeInv, Children
  <2>5. LaunchTypeInv' /\ LockInv'
    BY <2>2, <2>4 DEF LaunchTypeInv, LockInv
  <2>6. OwnInv'
    <3>1. \A m \in Launchers : m # l => launcher'[m] = "out"
      BY <2>2 DEF LockInv, LaunchTypeInv
    <3>2. launcher'[l] = "waiting" /\ session'[l].id = s
      BY <2>1, <2>2 DEF LaunchTypeInv
    <3> QED BY <1>a, <2>1, <2>2, <2>4, <3>1, <3>2 DEF OwnInv
  <2>7. LinesInv'
    <3>1. ASSUME NEW r \in Sessions, r # s PROVE LinesTell(r)'
      BY <1>a, <2>2, <2>4, <3>1 DEF LinesInv, LinesTell
    <3>2. LinesTell(s)'
      <4>1. child'[s].state = "running" /\ child'[s].from = now
        BY <2>4
      <4> QED BY <1>a, <2>1, <2>2, <4>1 DEF LinesInv, LinesTell, LaunchTypeInv
    <3> QED BY <3>1, <3>2 DEF LinesInv
  <2> QED BY <2>5, <2>6, <2>7
<1>5. ASSUME NEW s \in Sessions, ChildEnds(s) PROVE CoreInv'
  <2>1. /\ child'[s] = [child[s] EXCEPT !.state = "over"] /\ child[s].state = "running"
        /\ \A r \in Sessions : r # s => child'[r] = child[r]
        /\ child' \in [Sessions -> Children]
        /\ UNCHANGED <<now, ledger, flock, launcher, session, busy, kills>>
    BY <1>5 DEF ChildEnds, LaunchTypeInv, Children
  <2>2. child'[s].state = "over" /\ child'[s].from = child[s].from /\ child'[s].cap = child[s].cap
    BY <2>1 DEF LaunchTypeInv, Children
  <2>3. LaunchTypeInv' /\ LockInv'
    BY <2>1 DEF LaunchTypeInv, LockInv
  <2>4. OwnInv'
    BY <1>a, <2>1, <2>2 DEF OwnInv
  <2>5. LinesInv'
    <3>1. ASSUME NEW r \in Sessions, r # s PROVE LinesTell(r)'
      BY <1>a, <2>1, <3>1 DEF LinesInv, LinesTell
    <3>2. LinesTell(s)'
      BY <1>a, <2>1, <2>2 DEF LinesInv, LinesTell
    <3> QED BY <3>1, <3>2 DEF LinesInv
  <2> QED BY <2>3, <2>4, <2>5
<1>6. ASSUME NEW l \in Launchers, CloseSession(l) PROVE CoreInv'
  <2> DEFINE s == session[l].id
             e == now - child[s].from
  <2>1. s \in Sessions /\ child[s].state = "over" /\ launcher[l] # "out" /\ LeaveLaunch(l)
        /\ \A f \in Nat : ~ IsEnd(s, f)
    BY <1>6 DEF CloseSession, OwnInv
  <2>2. ledger' = Recorded(ledger, SessionEnd(s, e)) /\ UNCHANGED <<now, child, busy, kills>>
    BY <1>6 DEF CloseSession
  <2>3. e \in Nat
    BY <2>1 DEF LinesInv, LinesTell, LaunchTypeInv, Children
  <2>4. SessionEnd(s, e) \in Records
    BY <2>1, <2>3 DEF Records
  <2> HIDE DEF s, e
  <2>5. /\ ledger' \in Seq(Records)
        /\ \A r, t : IsStart(r, t)' <=> IsStart(r, t)
        /\ \A r, f : IsEnd(r, f)' => IsEnd(r, f) \/ (r = s /\ f = e)
    BY <2>2, <2>4, LinesAfter, LineKinds
  <2>6. LaunchTypeInv'
    BY <2>1, <2>2, <2>5, LeavesAlone DEF LaunchTypeInv
  <2>7. LockInv' /\ OwnInv'
    BY <2>1, LeavesAlone DEF LockInv, OwnInv
  <2>8. LinesInv'
    BY <2>1, <2>2, <2>5 DEF LinesInv, LinesTell
  <2> QED BY <2>6, <2>7, <2>8
<1>7. ASSUME NEW l \in Launchers, LauncherDies(l) PROVE CoreInv'
  <2>1. launcher[l] # "out" /\ LeaveLaunch(l) /\ UNCHANGED <<now, child, busy>>
        /\ kills' = kills + 1 /\ kills < MaxKills
        /\ ledger' \in {ledger, Recorded(ledger, TornRecord)}
    BY <1>7 DEF LauncherDies
  <2>2. LaunchTypeInv'
    BY <2>1, LeavesAlone, TornSaysNothing DEF LaunchTypeInv, EnvelopeAssumption
  <2>3. LockInv' /\ OwnInv'
    BY <2>1, LeavesAlone DEF LockInv, OwnInv
  <2>4. LinesInv'
    BY <2>1, TornSaysNothing DEF LinesInv, LinesTell
  <2> QED BY <2>2, <2>3, <2>4
<1>8. ASSUME NEW l \in Launchers, Interrupt(l) PROVE CoreInv'
  <2> DEFINE s == session[l].id
             e == now - child[s].from
  <2>1. s \in Sessions /\ child[s].state = "running" /\ launcher[l] # "out" /\ LeaveLaunch(l)
        /\ \A f \in Nat : ~ IsEnd(s, f)
    BY <1>8 DEF Interrupt, OwnInv
  <2>2. /\ ledger' = Recorded(ledger, SessionEnd(s, e)) /\ UNCHANGED <<now, busy>>
        /\ kills' = kills + 1 /\ kills < MaxKills
        /\ child' = [child EXCEPT ![s].cap = 0]
    BY <1>8 DEF Interrupt
  <2>3. e \in Nat
    BY <2>1 DEF LinesInv, LinesTell, LaunchTypeInv, Children
  <2>4. SessionEnd(s, e) \in Records
    BY <2>1, <2>3 DEF Records
  <2>5. /\ child'[s] = [child[s] EXCEPT !.cap = 0] /\ child' \in [Sessions -> Children]
        /\ \A r \in Sessions : r # s => child'[r] = child[r]
    BY <2>1, <2>2 DEF LaunchTypeInv, Children
  <2>6. child'[s].state = "running" /\ child'[s].cap = 0 /\ child'[s].from = child[s].from
    BY <2>1, <2>5 DEF LaunchTypeInv, Children
  <2> HIDE DEF s, e
  <2>7. /\ ledger' \in Seq(Records)
        /\ \A r, t : IsStart(r, t)' <=> IsStart(r, t)
        /\ \A r, f : IsEnd(r, f)' => IsEnd(r, f) \/ (r = s /\ f = e)
    BY <2>2, <2>4, LinesAfter, LineKinds
  <2>8. LaunchTypeInv'
    <3>1. kills' \in Nat /\ kills' <= MaxKills
      BY <2>2 DEF LaunchTypeInv, EnvelopeAssumption
    <3> QED BY <2>1, <2>2, <2>5, <2>7, <3>1, LeavesAlone DEF LaunchTypeInv
  <2>9. LockInv' /\ OwnInv'
    BY <2>1, LeavesAlone DEF LockInv, OwnInv
  <2>10. LinesInv'
    BY <2>1, <2>2, <2>5, <2>6, <2>7 DEF LinesInv, LinesTell
  <2> QED BY <2>8, <2>9, <2>10
<1>9. CASE Tick
  <2>1. /\ now' = now + 1 /\ now < MaxTime /\ busy' \in {busy, busy + 1}
        /\ UNCHANGED <<ledger, flock, launcher, session, child, kills>>
        /\ \A l \in Launchers : launcher[l] \notin {"reading", "starting"}
    BY <1>9 DEF Tick, LaunchTypeInv
  <2>2. LaunchTypeInv' /\ LockInv'
    BY <2>1 DEF LaunchTypeInv, LockInv, EnvelopeAssumption
  <2>3. OwnInv'
    BY <1>a, <2>1 DEF OwnInv
  <2>4. LinesInv'
    BY <1>a, <2>1 DEF LinesInv, LinesTell, LaunchTypeInv, Children
  <2> QED BY <2>2, <2>3, <2>4
<1>10. CASE UNCHANGED EnvelopeVars
  BY <1>10, <1>a DEF EnvelopeVars, LaunchTypeInv, LockInv, OwnInv, LinesInv, LinesTell
<1> QED BY <1>1, <1>2, <1>3, <1>4, <1>5, <1>6, <1>7, <1>8, <1>9, <1>10 DEF EnvelopeNext

-----------------------------------------------------------------------------
\* What sessions are charged, before and after a step.
ChargeFacts ==
    \A s \in Sessions :
        /\ Charge(s) \in Nat
        /\ \A t, e \in Nat : IsStart(s, t) /\ IsEnd(s, e) => Charge(s) = e
        /\ \A t \in Nat : IsStart(s, t) /\ (\A e \in Nat : ~ IsEnd(s, e)) =>
               Charge(s) = now - t
        /\ (\A t \in Nat : ~ IsStart(s, t)) => Charge(s) = 0

LEMMA ChargesKnown == CoreInv => ChargeFacts
BY ChargeIs, ChargeNat DEF CoreInv, ChargeFacts

LEMMA ChargesKnownNext == CoreInv' => ChargeFacts'
BY ChargesKnown, PTL

LEMMA ElapsedIs ==
    ASSUME EnvelopeAssumption, CoreInv, CoreInv'
    PROVE  /\ ElapsedBefore \in Nat /\ ElapsedBefore' \in Nat
           /\ (\A s \in Sessions : Charge(s) <= Charge(s)') => ElapsedBefore <= ElapsedBefore'
           /\ (\A s \in Sessions : Charge(s) <= Charge(s)')
              /\ (\E s \in Sessions : Charge(s) < Charge(s)') => ElapsedBefore + 1 <= ElapsedBefore'
<1> DEFINE c == [s \in Sessions |-> Charge(s)]
           d == [s \in Sessions |-> Charge(s)']
<1>1. ElapsedBefore = Total(c, MaxSessions)
  BY DEF ElapsedBefore
<1>2. ElapsedBefore' = Total(d, MaxSessions)
  BY DEF ElapsedBefore, Sessions
<1>3. \A s \in 1 .. MaxSessions :
          /\ c[s] \in Nat /\ d[s] \in Nat /\ c[s] = Charge(s) /\ d[s] = Charge(s)'
  BY ChargesKnown, ChargesKnownNext DEF ChargeFacts, Sessions
<1> HIDE DEF c, d
<1>4. MaxSessions \in Nat
  BY DEF EnvelopeAssumption
<1>5. Total(c, MaxSessions) \in Nat /\ Total(d, MaxSessions) \in Nat
  BY <1>3, <1>4, TotalNat
<1>6. ASSUME \A s \in Sessions : Charge(s) <= Charge(s)'
      PROVE  Total(c, MaxSessions) <= Total(d, MaxSessions)
  <2>1. \A s \in 1 .. MaxSessions : c[s] \in Int /\ d[s] \in Int /\ c[s] <= d[s]
    BY <1>3, <1>6 DEF Sessions
  <2> QED BY <1>4, <2>1, TotalMonotone
<1>7. ASSUME \A s \in Sessions : Charge(s) <= Charge(s)', NEW m \in Sessions, Charge(m) < Charge(m)'
      PROVE  Total(c, MaxSessions) + 1 <= Total(d, MaxSessions)
  <2>1. \A s \in 1 .. MaxSessions : c[s] \in Int /\ d[s] \in Int /\ c[s] <= d[s]
    BY <1>3, <1>7 DEF Sessions
  <2>2. m \in 1 .. MaxSessions /\ c[m] < d[m]
    BY <1>3, <1>7 DEF Sessions
  <2> QED BY <1>4, <2>1, <2>2, TotalStrict
<1> QED BY <1>1, <1>2, <1>5, <1>6, <1>7

\* A session is never charged less than it was: what its end records is the time
\* since its start.
LEMMA ChargesGrow ==
    ASSUME CoreInv, CoreInv', now <= now',
           \A s, t : IsStart(s, t) => IsStart(s, t)',
           \A s, e : IsEnd(s, e) => IsEnd(s, e)',
           \A s, e : IsEnd(s, e)' => IsEnd(s, e) \/ \A t \in Nat : IsStart(s, t) => e = now - t
    PROVE  \A s \in Sessions : Charge(s) <= Charge(s)'
<1> SUFFICES ASSUME NEW s \in Sessions PROVE Charge(s) <= Charge(s)'
  OBVIOUS
<1>1. ChargeFacts /\ ChargeFacts' /\ now \in Nat /\ now' \in Nat /\ now <= now'
  BY ChargesKnown, ChargesKnownNext DEF CoreInv, LaunchTypeInv
<1>2. CASE \A t \in Nat : ~ IsStart(s, t)
  BY <1>1, <1>2 DEF ChargeFacts
<1>3. CASE \E t \in Nat : IsStart(s, t)
  <2>1. PICK t \in Nat : IsStart(s, t)
    BY <1>3
  <2>2. IsStart(s, t)'
    BY <2>1
  <2>3. CASE \E e \in Nat : IsEnd(s, e)
    <3>1. PICK e \in Nat : IsEnd(s, e)
      BY <2>3
    <3>2. IsEnd(s, e)'
      BY <3>1
    <3>3. Charge(s) = e /\ Charge(s)' = e
      BY <1>1, <2>1, <2>2, <3>1, <3>2 DEF ChargeFacts
    <3> QED BY <3>3
  <2>4. CASE \A e \in Nat : ~ IsEnd(s, e)
    <3>1. Charge(s) = now - t
      BY <1>1, <2>1, <2>4 DEF ChargeFacts
    <3>2. CASE \E e \in Nat : IsEnd(s, e)'
      <4>1. PICK e \in Nat : IsEnd(s, e)'
        BY <3>2
      <4>2. e = now - t
        BY <2>1, <2>4, <4>1
      <4>3. Charge(s)' = e
        BY <1>1, <2>2, <4>1 DEF ChargeFacts
      <4> QED BY <1>1, <3>1, <4>2, <4>3
    <3>3. CASE \A e \in Nat : ~ IsEnd(s, e)'
      <4>1. Charge(s)' = now' - t
        BY <1>1, <2>2, <3>3 DEF ChargeFacts
      <4>2. now - t <= now' - t
        BY <1>1
      <4> QED BY <3>1, <4>1, <4>2
    <3> QED BY <3>2, <3>3
  <2> QED BY <2>3, <2>4
<1> QED BY <1>2, <1>3

\* The whole seconds of what remains are no more than it.
LEMMA CapFits ==
    ASSUME EnvelopeAssumption, NEW r \in Nat
    PROVE  Cap(r) \in Nat /\ Cap(r) <= r
<1>1. Second \in Nat /\ Second > 0
  BY DEF EnvelopeAssumption
<1>2. r \div Second \in Nat /\ r % Second \in 0 .. Second - 1
  BY <1>1
<1>3. r = Second * (r \div Second) + (r % Second)
  BY <1>1
<1>4. Cap(r) = Second * (r \div Second)
  BY <1>1, <1>2 DEF Cap
<1>5. Second * (r \div Second) \in Nat
  BY <1>1, <1>2
<1> QED BY <1>2, <1>3, <1>4, <1>5

LEMMA BusyInit == ASSUME EnvelopeAssumption, EnvelopeInit PROVE BusyInv
<1>1. CoreInv
  BY CoreInit
<1>2. ElapsedBefore \in Nat
  <2> DEFINE c == [s \in Sessions |-> Charge(s)]
  <2>1. \A s \in 1 .. MaxSessions : c[s] \in Nat
    BY <1>1, ChargesKnown DEF ChargeFacts, Sessions
  <2> HIDE DEF c
  <2>2. Total(c, MaxSessions) \in Nat
    BY <2>1, TotalNat DEF EnvelopeAssumption
  <2> QED BY <2>2 DEF ElapsedBefore, c
<1>3. Allowance + Grace * Second \in Nat
  BY DEF Allowance, EnvelopeAssumption
<1> QED BY <1>2, <1>3 DEF BusyInv, EnvelopeInit, NotStarted

LEMMA BusyNext ==
    ASSUME EnvelopeAssumption, CoreInv, CoreInv', BusyInv, [EnvelopeNext]_EnvelopeVars
    PROVE  BusyInv'
<1> SUFFICES ASSUME Capped' PROVE /\ busy' <= ElapsedBefore'
                                  /\ busy' <= Allowance + Grace * Second
                                  /\ \A l \in Launchers : launcher'[l] = "starting" =>
                                         busy' <= Allowance - session'[l].remaining
                                  /\ \A s \in Sessions : child'[s].state = "running" =>
                                         busy' + child'[s].cap + child'[s].from <= Allowance + now'
  BY DEF BusyInv, Allowance
<1>1. /\ LaunchTypeInv /\ LaunchTypeInv' /\ now \in Nat /\ busy \in Nat
      /\ ElapsedBefore \in Nat /\ ElapsedBefore' \in Nat
      /\ Allowance \in Nat /\ Grace * Second \in Nat
  BY ElapsedIs DEF CoreInv, LaunchTypeInv, Allowance, EnvelopeAssumption
<1>2. \A s \in Sessions :
          /\ child[s] \in Children /\ child[s].cap \in Nat /\ child[s].from \in Nat
          /\ child'[s] \in Children /\ child'[s].cap \in Nat /\ child'[s].from \in Nat
  BY <1>1 DEF LaunchTypeInv, Children
<1>a. ASSUME UNCHANGED ledger
      PROVE  /\ \A s, t : IsStart(s, t)' <=> IsStart(s, t)
             /\ \A s, e : IsEnd(s, e)' <=> IsEnd(s, e)
  BY <1>a DEF IsStart, IsEnd
\* A step that leaves the children, the clock and what is charged.
<1>b. ASSUME UNCHANGED <<child, now, busy>>, ElapsedBefore <= ElapsedBefore',
             \A l \in Launchers : launcher'[l] = "starting" =>
                 launcher[l] = "starting" /\ session'[l] = session[l]
      PROVE  BusyInv'
  <2>1. Capped
    BY <1>b DEF Capped
  <2> QED BY <1>1, <1>b, <2>1 DEF BusyInv, Allowance
<1>3. ASSUME NEW l \in Launchers, TakeLock(l) PROVE BusyInv'
  <2>1. ElapsedBefore <= ElapsedBefore'
    BY <1>1, <1>3, <1>a, ChargesGrow, ElapsedIs DEF TakeLock
  <2> QED BY <1>1, <1>3, <1>b, <2>1 DEF TakeLock, Goto, LaunchTypeInv
<1>4. ASSUME NEW l \in Launchers, RefuseSession(l) PROVE BusyInv'
  <2>1. ElapsedBefore <= ElapsedBefore'
    BY <1>1, <1>4, <1>a, ChargesGrow, ElapsedIs DEF RefuseSession
  <2>2. launcher[l] # "out" /\ LeaveLaunch(l)
    BY <1>4 DEF RefuseSession
  <2>3. \A m \in Launchers : launcher'[m] = "out"
    BY <2>2, LeavesAlone DEF CoreInv
  <2> QED BY <1>4, <1>b, <2>1, <2>3 DEF RefuseSession
<1>5. ASSUME NEW l \in Launchers, OpenSession(l) PROVE BusyInv'
  <2>1. PICK s \in Sessions :
          /\ child[s] = NotStarted
          /\ ledger' = Recorded(ledger, SessionStart(s, now))
          /\ session' = [session EXCEPT ![l] = [id |-> s, remaining |-> Remaining]]
          /\ child' = [child EXCEPT ![s].state = "opened"]
    BY <1>5 DEF OpenSession
  <2>2. /\ \A m \in Launchers : m # l => launcher'[m] # "starting"
        /\ session'[l].remaining = Remaining
        /\ UNCHANGED <<now, busy>>
    <3>1. launcher[l] = "reading" /\ launcher' = [launcher EXCEPT ![l] = "starting"]
      BY <1>5 DEF OpenSession, Goto
    <3>2. \A m \in Launchers : m # l => launcher[m] = "out"
      BY <3>1 DEF CoreInv, LockInv
    <3>3. \A m \in Launchers : m # l => launcher'[m] = "out"
      BY <1>1, <3>1, <3>2 DEF LaunchTypeInv
    <3>4. session'[l] = [id |-> s, remaining |-> Remaining]
      BY <1>1, <2>1 DEF LaunchTypeInv
    <3>5. UNCHANGED <<now, busy>>
      BY <1>5 DEF OpenSession
    <3> QED BY <3>3, <3>4, <3>5
  <2>3. SessionStart(s, now) \in Records
    BY <1>1 DEF Records
  <2>4. /\ \A r, t : IsStart(r, t) => IsStart(r, t)'
        /\ \A r, e : IsEnd(r, e)' <=> IsEnd(r, e)
    BY <1>1, <2>1, <2>3, LinesAfter, LineKinds
  <2>5. ElapsedBefore <= ElapsedBefore'
    BY <1>1, <2>2, <2>4, ChargesGrow, ElapsedIs
  <2>6. /\ \A r \in Sessions : r # s => child'[r] = child[r]
        /\ child'[s].state = "opened" /\ child[s].state = "none"
    BY <1>1, <2>1 DEF LaunchTypeInv, Children, NotStarted
  <2>7. Capped
    BY <2>6 DEF Capped
  <2>8. busy <= ElapsedBefore /\ busy <= Allowance + Grace * Second
        /\ \A r \in Sessions : child[r].state = "running" =>
               busy + child[r].cap + child[r].from <= Allowance + now
    BY <2>7 DEF BusyInv
  <2>9. busy <= Allowance - Remaining
    BY <1>1, <2>8 DEF Remaining, Allowance
  <2> QED BY <1>1, <2>2, <2>5, <2>6, <2>8, <2>9 DEF BusyInv, Allowance
<1>6. ASSUME NEW l \in Launchers, StartChild(l) PROVE BusyInv'
  <2>1. PICK s \in Sessions : s = session[l].id /\ child[s].state = "opened"
    BY <1>6 DEF StartChild, OwnInv, CoreInv
  <2> DEFINE r == session[l].remaining
  <2>2. r \in Nat /\ Cap(r) \in Nat /\ Cap(r) <= r
    <3>1. r \in Nat
      BY <1>1, <1>6 DEF StartChild, OwnInv, CoreInv, LaunchTypeInv
    <3> QED BY <3>1, CapFits
  <2>3. /\ child'[s] = [state |-> "running", from |-> now, cap |-> Cap(r)]
        /\ \A m \in Sessions : m # s => child'[m] = child[m]
        /\ UNCHANGED <<now, ledger, busy>>
    BY <1>1, <1>6, <2>1 DEF StartChild, LaunchTypeInv
  <2>4. Capped
    BY <2>1, <2>3 DEF Capped
  <2>5. busy <= ElapsedBefore /\ busy <= Allowance + Grace * Second /\ busy <= Allowance - r
        /\ \A m \in Sessions : child[m].state = "running" =>
               busy + child[m].cap + child[m].from <= Allowance + now
    BY <1>6, <2>4 DEF BusyInv, StartChild
  <2>6. ElapsedBefore <= ElapsedBefore'
    BY <1>1, <2>3, <1>a, ChargesGrow, ElapsedIs
  <2>7. \A m \in Launchers : launcher'[m] # "starting"
    BY <1>1, <1>6 DEF StartChild, Goto, LockInv, CoreInv, LaunchTypeInv
  <2>8. \A m \in Sessions : child'[m].state = "running" =>
               busy + child'[m].cap + child'[m].from <= Allowance + now
    <3>1. busy + Cap(r) + now <= Allowance + now
      BY <1>1, <2>2, <2>5
    <3> QED BY <2>3, <2>5, <3>1
  <2> QED BY <1>1, <2>3, <2>5, <2>6, <2>7, <2>8 DEF BusyInv, Allowance
<1>7. ASSUME NEW s \in Sessions, ChildEnds(s) PROVE BusyInv'
  <2>1. /\ UNCHANGED <<now, ledger, launcher, session, busy>>
        /\ \A m \in Sessions : m # s => child'[m] = child[m]
        /\ child'[s].state = "over" /\ child[s].state = "running" /\ child'[s].cap = child[s].cap
    BY <1>1, <1>2, <1>7 DEF ChildEnds, LaunchTypeInv, Children
  <2>2. Capped
    BY <2>1 DEF Capped
  <2>3. ElapsedBefore <= ElapsedBefore'
    BY <1>1, <2>1, <1>a, ChargesGrow, ElapsedIs
  <2> QED BY <1>1, <2>1, <2>2, <2>3 DEF BusyInv, Allowance
<1>8. ASSUME NEW l \in Launchers, CloseSession(l) PROVE BusyInv'
  <2>1. PICK s \in Sessions : s = session[l].id /\ child[s].state = "over"
    BY <1>8 DEF CloseSession, OwnInv, CoreInv
  <2> DEFINE e == now - child[s].from
  <2>2. /\ ledger' = Recorded(ledger, SessionEnd(s, e)) /\ UNCHANGED <<now, child, busy>>
        /\ launcher[l] # "out" /\ LeaveLaunch(l)
    BY <1>8, <2>1 DEF CloseSession
  <2>3. child[s].from <= now /\ \A t \in Nat : IsStart(s, t) => t = child[s].from
    BY <2>1 DEF CoreInv, LinesInv, LinesTell
  <2>4. SessionEnd(s, e) \in Records
    BY <1>1, <1>2, <2>3 DEF Records
  <2>5. /\ \A r, t : IsStart(r, t) => IsStart(r, t)'
        /\ \A r, f : IsEnd(r, f) => IsEnd(r, f)'
        /\ \A r, f : IsEnd(r, f)' => IsEnd(r, f) \/ (r = s /\ f = e)
    BY <1>1, <2>2, <2>4, LinesAfter, LineKinds
  <2>6. ElapsedBefore <= ElapsedBefore'
    BY <1>1, <2>2, <2>3, <2>5, ChargesGrow, ElapsedIs
  <2>7. \A m \in Launchers : launcher'[m] = "out"
    BY <2>2, LeavesAlone DEF CoreInv
  <2> QED BY <1>b, <2>2, <2>6, <2>7
<1>9. ASSUME NEW l \in Launchers, LauncherDies(l) PROVE BusyInv'
  <2>1. /\ ledger' \in {ledger, Recorded(ledger, TornRecord)} /\ UNCHANGED <<now, child, busy>>
        /\ launcher[l] # "out" /\ LeaveLaunch(l)
    BY <1>9 DEF LauncherDies
  <2>2. /\ \A s, t : IsStart(s, t)' <=> IsStart(s, t)
        /\ \A s, e : IsEnd(s, e)' <=> IsEnd(s, e)
    BY <1>1, <2>1, TornSaysNothing
  <2>3. ElapsedBefore <= ElapsedBefore'
    BY <1>1, <2>1, <2>2, ChargesGrow, ElapsedIs
  <2>4. \A m \in Launchers : launcher'[m] = "out"
    BY <2>1, LeavesAlone DEF CoreInv
  <2> QED BY <1>b, <2>1, <2>3, <2>4
<1>10. ASSUME NEW l \in Launchers, Interrupt(l) PROVE FALSE
  <2>1. PICK s \in Sessions : s = session[l].id /\ child[s].state = "running"
    BY <1>10 DEF Interrupt, OwnInv, CoreInv
  <2>2. child'[s] = [child[s] EXCEPT !.cap = 0]
    BY <1>1, <1>10, <2>1 DEF Interrupt, LaunchTypeInv
  <2>3. child'[s].state = "running" /\ child'[s].cap = 0
    BY <1>2, <2>1, <2>2 DEF Children
  <2> QED BY <2>3 DEF Capped
<1>11. ASSUME Tick PROVE BusyInv'
  <2>1. /\ now' = now + 1 /\ busy' \in {busy, busy + 1}
        /\ UNCHANGED <<ledger, launcher, session, child>>
        /\ \A l \in Launchers : launcher[l] # "starting"
        /\ busy' = busy + 1 => LiveSessions # {}
        /\ \A s \in LiveSessions : child[s].cap > 0 =>
               now < child[s].from + child[s].cap + Grace * Second
    BY <1>1, <1>11 DEF Tick
  <2>2. Capped
    BY <2>1 DEF Capped
  <2>3. /\ busy <= ElapsedBefore /\ busy <= Allowance + Grace * Second
        /\ \A s \in Sessions : child[s].state = "running" =>
               busy + child[s].cap + child[s].from <= Allowance + now
    BY <2>2 DEF BusyInv
  <2>4. \A s \in Sessions : Charge(s) <= Charge(s)'
    BY <1>1, <2>1, <1>a, ChargesGrow
  <2>5. ElapsedBefore <= ElapsedBefore'
    BY <2>4, ElapsedIs
  <2>6. CASE busy' = busy
    BY <1>1, <1>2, <2>1, <2>3, <2>5, <2>6 DEF BusyInv, Allowance
  <2>7. CASE busy' = busy + 1
    <3>1. PICK s \in Sessions : child[s].state = "running"
      BY <2>1, <2>7 DEF LiveSessions
    <3>2. child[s].cap > 0 /\ s \in LiveSessions
      BY <2>2, <3>1 DEF Capped, LiveSessions
    <3>3. IsStart(s, child[s].from) /\ child[s].from \in Nat /\ \A e \in Nat : ~ IsEnd(s, e)
      BY <1>2, <3>1, <3>2 DEF CoreInv, LinesInv, LinesTell
    <3>4. Charge(s) = now - child[s].from
      BY <3>3, ChargesKnown DEF ChargeFacts
    <3>5. Charge(s)' = now' - child[s].from
      <4>1. IsStart(s, child[s].from)' /\ \A e \in Nat : ~ IsEnd(s, e)'
        BY <2>1, <3>3, <1>a
      <4> QED BY <3>3, <4>1, <2>1, ChargesKnownNext DEF ChargeFacts
    <3>6. Charge(s) < Charge(s)'
      BY <1>1, <2>1, <3>3, <3>4, <3>5
    <3>7. ElapsedBefore + 1 <= ElapsedBefore'
      BY <2>4, <3>6, ElapsedIs
    <3>8. busy + 1 <= Allowance + Grace * Second
      BY <1>1, <1>2, <2>1, <2>3, <3>1, <3>2
    <3>9. \A m \in Sessions : child'[m].state = "running" =>
               busy' + child'[m].cap + child'[m].from <= Allowance + now'
      BY <1>1, <1>2, <2>1, <2>3, <2>7
    <3> QED BY <1>1, <2>1, <2>3, <2>7, <3>7, <3>8, <3>9 DEF BusyInv, Allowance
  <2> QED BY <2>1, <2>6, <2>7
<1>12. ASSUME UNCHANGED EnvelopeVars PROVE BusyInv'
  <2>1. UNCHANGED <<now, ledger, launcher, session, child, busy>>
    BY <1>12 DEF EnvelopeVars
  <2>2. ElapsedBefore <= ElapsedBefore'
    BY <1>1, <2>1, <1>a, ChargesGrow, ElapsedIs
  <2> QED BY <1>b, <2>1, <2>2
<1>13. BusyInv'
  BY <1>3, <1>4, <1>5, <1>6, <1>7, <1>8, <1>9, <1>10, <1>11, <1>12 DEF EnvelopeNext
<1> QED BY <1>13 DEF BusyInv, Allowance

LEMMA EnvelopeInvHolds ==
    ASSUME EnvelopeAssumption PROVE EnvelopeSpec => [](CoreInv /\ BusyInv)
<1>1. EnvelopeInit => CoreInv /\ BusyInv
  BY CoreInit, BusyInit
<1>2. CoreInv /\ BusyInv /\ [EnvelopeNext]_EnvelopeVars => (CoreInv /\ BusyInv)'
  BY CoreNext, BusyNext
<1> QED BY <1>1, <1>2, PTL DEF EnvelopeSpec

\* However many launchers there are, wherever each is killed, whatever sessions they
\* orphan and however these overlap: unless a child lost its cap, the children ran, all
\* sessions together, no longer than the stage allows and the grace of one `timeout`.
THEOREM StageStaysInEnvelope ==
    ASSUME EnvelopeAssumption PROVE EnvelopeSpec => []EnvelopeHolds
<1>1. ASSUME CoreInv, BusyInv PROVE EnvelopeHolds
  <2>1. (MaxStage + Grace) * Second = Allowance + Grace * Second
    BY DEF EnvelopeAssumption, Allowance
  <2> QED BY <1>1, <2>1 DEF BusyInv, EnvelopeHolds, Capped
<1> QED BY <1>1, EnvelopeInvHolds, PTL

\* The clock, the lock and the sessions are what they should be; one launcher at most
\* holds the lock.
THEOREM LaunchesWellTyped ==
    ASSUME EnvelopeAssumption PROVE EnvelopeSpec => []EnvelopeTypeOK
<1>1. ASSUME CoreInv PROVE EnvelopeTypeOK
  <2>1. LaunchTypeInv
    BY <1>1 DEF CoreInv
  <2>2. \A s \in Sessions : child[s].state \in {"none", "opened", "running", "over"}
    BY <2>1 DEF LaunchTypeInv, Children
  <2>3. now \in 0 .. MaxTime /\ busy \in 0 .. MaxTime /\ kills \in 0 .. MaxKills
    BY <2>1 DEF LaunchTypeInv, EnvelopeAssumption
  <2>4. Cardinality(flock) <= 1
    <3>1. CASE flock = {}
      BY <3>1, FS_EmptySet
    <3>2. CASE \E l \in Launchers : flock = {l}
      BY <3>2, FS_Singleton
    <3> QED BY <1>1, <3>1, <3>2 DEF CoreInv, LockInv
  <2> QED BY <2>1, <2>2, <2>3, <2>4 DEF LaunchTypeInv, EnvelopeTypeOK
<1> QED BY <1>1, EnvelopeInvHolds, PTL

-----------------------------------------------------------------------------
(* Part 3: Subset. *)

LEMMA TotalScaled ==
    ASSUME NEW n \in Nat, NEW c \in Int, NEW f, NEW g,
           \A k \in 1 .. n : f[k] \in Int /\ g[k] = c * f[k]
    PROVE  Total(g, n) = c * Total(f, n)
<1> DEFINE S == {k \in Nat : k <= n => Total(g, k) = c * Total(f, k)}
<1>1. /\ Total(f, 0) = 0
      /\ \A k \in 0 .. n : Total(f, k) \in Int
      /\ \A k \in 1 .. n : Total(f, k) = Total(f, k - 1) + f[k]
  BY TotalStep
<1>2. /\ Total(g, 0) = 0
      /\ \A k \in 1 .. n : Total(g, k) = Total(g, k - 1) + g[k]
  <2>1. \A k \in 1 .. n : g[k] \in Int
    OBVIOUS
  <2> QED BY <2>1, TotalStep
<1>3. 0 \in S
  BY <1>1, <1>2
<1>4. ASSUME NEW k \in Nat, k \in S PROVE k + 1 \in S
  <2> SUFFICES ASSUME k + 1 <= n PROVE Total(g, k + 1) = c * Total(f, k + 1)
    OBVIOUS
  <2>1. k + 1 \in 1 .. n /\ k \in 0 .. n /\ (k + 1) - 1 = k /\ Total(g, k) = c * Total(f, k)
    BY <1>4
  <2>2. Total(f, k + 1) = Total(f, k) + f[k + 1] /\ Total(g, k + 1) = Total(g, k) + g[k + 1]
    BY <1>1, <1>2, <2>1
  <2>3. Total(f, k) \in Int /\ f[k + 1] \in Int /\ g[k + 1] = c * f[k + 1]
    BY <1>1, <2>1
  <2>4. c * (Total(f, k) + f[k + 1]) = c * Total(f, k) + c * f[k + 1]
    BY <2>3
  <2> QED BY <2>1, <2>2, <2>3, <2>4
<1> HIDE DEF S
<1>5. n \in S
  BY <1>3, <1>4, Induction
<1> QED BY <1>5 DEF S

\* Ones for the members of a set add up to its size.
LEMMA TotalCounts ==
    ASSUME NEW n \in Nat, NEW A \in SUBSET (1 .. n), NEW one,
           \A k \in 1 .. n : one[k] = IF k \in A THEN 1 ELSE 0
    PROVE  IsFiniteSet(A) /\ Total(one, n) = Cardinality(A)
<1> DEFINE upTo(k) == A \cap (1 .. k)
           S == {k \in Nat : k <= n => IsFiniteSet(upTo(k)) /\ Total(one, k) = Cardinality(upTo(k))}
<1>1. /\ Total(one, 0) = 0
      /\ \A k \in 1 .. n : Total(one, k) = Total(one, k - 1) + one[k]
  <2>1. \A k \in 1 .. n : one[k] \in Int
    OBVIOUS
  <2> QED BY <2>1, TotalStep
<1>2. 0 \in S
  <2>1. upTo(0) = {}
    OBVIOUS
  <2> HIDE DEF upTo
  <2> QED BY <1>1, <2>1, FS_EmptySet
<1>3. ASSUME NEW k \in Nat, k \in S PROVE k + 1 \in S
  <2> SUFFICES ASSUME k + 1 <= n
               PROVE  IsFiniteSet(upTo(k + 1)) /\ Total(one, k + 1) = Cardinality(upTo(k + 1))
    OBVIOUS
  <2>1. IsFiniteSet(upTo(k)) /\ Total(one, k) = Cardinality(upTo(k)) /\ Cardinality(upTo(k)) \in Nat
    BY <1>3, FS_CardinalityType
  <2>2. k + 1 \in 1 .. n /\ (k + 1) - 1 = k /\ k + 1 \notin upTo(k)
    OBVIOUS
  <2>3. Total(one, k + 1) = Total(one, k) + one[k + 1]
    BY <1>1, <2>2
  <2>4. CASE k + 1 \in A
    <3>1. upTo(k + 1) = upTo(k) \cup {k + 1}
      BY <2>4
    <3>2. one[k + 1] = 1
      BY <2>2, <2>4
    <3> HIDE DEF upTo
    <3> QED BY <2>1, <2>2, <2>3, <3>1, <3>2, FS_AddElement
  <2>5. CASE k + 1 \notin A
    <3>1. upTo(k + 1) = upTo(k)
      BY <2>5
    <3>2. one[k + 1] = 0
      BY <2>2, <2>5
    <3> QED BY <2>1, <2>3, <3>1, <3>2
  <2> QED BY <2>4, <2>5
<1>4. n \in S
  <2> HIDE DEF S
  <2> QED BY <1>2, <1>3, Induction
<1>5. upTo(n) = A
  OBVIOUS
<1> QED BY <1>4, <1>5

\* The sizes of sets that are apart add up to the size of their union.
LEMMA UnionCounts ==
    ASSUME NEW n \in Nat, NEW fam, NEW size,
           \A k \in 1 .. n : IsFiniteSet(fam[k]) /\ size[k] = Cardinality(fam[k]),
           \A i, j \in 1 .. n : i # j => fam[i] \cap fam[j] = {}
    PROVE  /\ IsFiniteSet(UNION {fam[k] : k \in 1 .. n})
           /\ Cardinality(UNION {fam[k] : k \in 1 .. n}) = Total(size, n)
<1> DEFINE upTo(k) == UNION {fam[i] : i \in 1 .. k}
           S == {k \in Nat : k <= n => IsFiniteSet(upTo(k)) /\ Total(size, k) = Cardinality(upTo(k))}
<1>1. /\ Total(size, 0) = 0
      /\ \A k \in 1 .. n : Total(size, k) = Total(size, k - 1) + size[k]
  <2>1. \A k \in 1 .. n : size[k] \in Int
    BY FS_CardinalityType
  <2> QED BY <2>1, TotalStep
<1>2. 0 \in S
  <2>1. upTo(0) = {}
    OBVIOUS
  <2> HIDE DEF upTo
  <2> QED BY <1>1, <2>1, FS_EmptySet
<1>3. ASSUME NEW k \in Nat, k \in S PROVE k + 1 \in S
  <2> SUFFICES ASSUME k + 1 <= n
               PROVE  IsFiniteSet(upTo(k + 1)) /\ Total(size, k + 1) = Cardinality(upTo(k + 1))
    OBVIOUS
  <2>1. IsFiniteSet(upTo(k)) /\ Total(size, k) = Cardinality(upTo(k)) /\ Cardinality(upTo(k)) \in Nat
    BY <1>3, FS_CardinalityType
  <2>2. k + 1 \in 1 .. n /\ (k + 1) - 1 = k
    OBVIOUS
  <2>3. Total(size, k + 1) = Total(size, k) + size[k + 1]
    BY <1>1, <2>2
  <2>4. upTo(k + 1) = upTo(k) \cup fam[k + 1]
    <3>1. \A i : i \in 1 .. k + 1 <=> i \in 1 .. k \/ i = k + 1
      OBVIOUS
    <3> QED BY <3>1
  <2>5. upTo(k) \cap fam[k + 1] = {}
    <3>1. \A i \in 1 .. k : i \in 1 .. n /\ i # k + 1
      OBVIOUS
    <3> QED BY <2>2, <3>1
  <2>6. IsFiniteSet(fam[k + 1]) /\ size[k + 1] = Cardinality(fam[k + 1]) /\ size[k + 1] \in Nat
    BY <2>2, FS_CardinalityType
  <2> DEFINE old == upTo(k)
             more == fam[k + 1]
             all == upTo(k + 1)
  <2>7. /\ IsFiniteSet(old) /\ Total(size, k) = Cardinality(old) /\ Cardinality(old) \in Nat
        /\ IsFiniteSet(more) /\ size[k + 1] = Cardinality(more) /\ Cardinality(more) \in Nat
        /\ all = old \cup more /\ old \cap more = {}
    BY <2>1, <2>4, <2>5, <2>6
  <2> HIDE DEF old, more, all
  <2>8. Cardinality(old \cap more) = 0
    BY <2>7, FS_EmptySet
  <2>9. IsFiniteSet(all) /\ Cardinality(all) = Cardinality(old) + Cardinality(more)
    <3> DEFINE sum == Cardinality(old) + Cardinality(more) - Cardinality(old \cap more)
    <3>1. IsFiniteSet(old \cup more) /\ Cardinality(old \cup more) = sum
      BY <2>7, FS_Union
    <3>2. sum = Cardinality(old) + Cardinality(more)
      BY <2>7, <2>8
    <3> HIDE DEF sum
    <3>3. IsFiniteSet(all) /\ Cardinality(all) = sum
      BY <2>7, <3>1, Zenon
    <3> QED BY <3>2, <3>3
  <2>10. IsFiniteSet(all) /\ Total(size, k + 1) = Cardinality(all)
    BY <2>3, <2>7, <2>9
  <2> QED BY <2>10 DEF all
<1>4. n \in S
  <2> HIDE DEF S
  <2> QED BY <1>2, <1>3, Induction
<1> QED BY <1>4

\* A division and its remainder.
LEMMA DivisionIs ==
    ASSUME NEW a \in Nat, NEW d \in Nat \ {0}
    PROVE  /\ a \div d \in Nat /\ a % d \in Nat /\ a % d < d
           /\ a = d * (a \div d) + (a % d)
<1>1. a \div d \in Int /\ a % d \in 0 .. d - 1 /\ a = d * (a \div d) + (a % d)
  OBVIOUS
<1>2. a \div d \in Nat
  OBVIOUS
<1> QED BY <1>1, <1>2

-----------------------------------------------------------------------------
\* A question file as SubsetAssumption has it.
RowsOk(rows) ==
    /\ rows \in Seq(Range(rows))
    /\ \A i \in DOMAIN rows : rows[i].id \in Range(Order)

\* The digests order the rows of a file.
LEMMA PrecedesOrders ==
    ASSUME SubsetAssumption, NEW rows, RowsOk(rows)
    PROVE  /\ \A i \in DOMAIN rows : ~ Precedes(rows, i, i)
           /\ \A i, j, k \in DOMAIN rows :
                  Precedes(rows, i, j) /\ Precedes(rows, j, k) => Precedes(rows, i, k)
           /\ \A i, j \in DOMAIN rows : i # j => Precedes(rows, i, j) \/ Precedes(rows, j, i)
<1> DEFINE at(i) == Before(rows[i].id)
<1>1. ASSUME NEW i \in DOMAIN rows PROVE at(i) \in DOMAIN Order /\ Order[at(i)] = rows[i].id
  <2>1. \E n \in DOMAIN Order : Order[n] = rows[i].id
    BY DEF RowsOk, Range
  <2> QED BY <2>1 DEF Before
<1>2. \A i \in DOMAIN rows : i \in Int /\ at(i) \in Int
  BY <1>1 DEF RowsOk, SubsetAssumption
<1>3. \A i, j \in DOMAIN rows : at(i) = at(j) <=> rows[i].id = rows[j].id
  BY <1>1
<1>4. \A i, j \in DOMAIN rows :
          Precedes(rows, i, j) <=> at(i) < at(j) \/ (at(i) = at(j) /\ i < j)
  BY <1>3 DEF Precedes
<1> HIDE DEF at
<1> QED BY <1>2, <1>4

\* How many rows of a set come before a row.
Rank(rows, some, i) == Cardinality({j \in some : Precedes(rows, j, i)})

LEMMA RanksOrder ==
    ASSUME SubsetAssumption, NEW rows, RowsOk(rows),
           NEW some \in SUBSET DOMAIN rows, IsFiniteSet(some)
    PROVE  /\ \A i \in some : Rank(rows, some, i) \in 0 .. Cardinality(some) - 1
           /\ \A i, j \in some :
                  Precedes(rows, i, j) => Rank(rows, some, i) < Rank(rows, some, j)
<1> DEFINE before(i) == {j \in some : Precedes(rows, j, i)}
<1>1. ASSUME NEW i \in some
      PROVE  IsFiniteSet(before(i)) /\ Cardinality(before(i)) \in 0 .. Cardinality(some) - 1
  <2>1. before(i) \in SUBSET (some \ {i})
    BY PrecedesOrders
  <2>2. IsFiniteSet(some \ {i}) /\ Cardinality(some \ {i}) = Cardinality(some) - 1
    BY FS_RemoveElement
  <2> HIDE DEF before
  <2>3. IsFiniteSet(before(i)) /\ Cardinality(before(i)) <= Cardinality(some) - 1
    BY <2>1, <2>2, FS_Subset
  <2>4. Cardinality(before(i)) \in Nat /\ Cardinality(some) \in Nat
    BY <2>3, FS_CardinalityType
  <2> QED BY <2>3, <2>4
<1>2. ASSUME NEW i \in some, NEW j \in some, Precedes(rows, i, j)
      PROVE  Cardinality(before(i)) < Cardinality(before(j))
  <2>1. before(i) \cup {i} \in SUBSET before(j)
    BY <1>2, PrecedesOrders
  <2>2. i \notin before(i)
    BY PrecedesOrders
  <2>3. IsFiniteSet(before(i)) /\ IsFiniteSet(before(j))
    BY <1>1
  <2> HIDE DEF before
  <2>4. Cardinality(before(i) \cup {i}) = Cardinality(before(i)) + 1
    BY <2>2, <2>3, FS_AddElement
  <2>5. Cardinality(before(i) \cup {i}) <= Cardinality(before(j))
    BY <2>1, <2>3, FS_Subset
  <2>6. Cardinality(before(i)) \in Nat /\ Cardinality(before(j)) \in Nat
    BY <2>3, FS_CardinalityType
  <2> QED BY <2>4, <2>5, <2>6
<1>3. \A i : Rank(rows, some, i) = Cardinality(before(i))
  BY DEF Rank
<1> HIDE DEF before
<1> QED BY <1>1, <1>2, <1>3

\* The k earliest are k, and come before the others.
LEMMA EarliestAre ==
    ASSUME SubsetAssumption, NEW rows, RowsOk(rows),
           NEW some \in SUBSET DOMAIN rows, IsFiniteSet(some),
           NEW k \in Nat, k <= Cardinality(some)
    PROVE  /\ Earliest(rows, some, k) \subseteq some
           /\ IsFiniteSet(Earliest(rows, some, k))
           /\ Cardinality(Earliest(rows, some, k)) = k
           /\ \A x \in Earliest(rows, some, k), y \in some \ Earliest(rows, some, k) :
                  Precedes(rows, x, y)
<1> DEFINE n == Cardinality(some)
           r == [i \in some |-> Rank(rows, some, i)]
           first == {i \in some : r[i] < k}
<1>1. Earliest(rows, some, k) = first
  BY DEF Earliest, Rank
<1>2. n \in Nat
  BY FS_CardinalityType
<1>3. /\ \A i \in some : r[i] \in 0 .. n - 1
      /\ \A i, j \in some : Precedes(rows, i, j) => r[i] < r[j]
  BY RanksOrder
<1> HIDE DEF r
<1>4. r \in [some -> 0 .. n - 1]
  BY <1>3 DEF r
<1>5. \A i, j \in some : i # j => Precedes(rows, i, j) \/ Precedes(rows, j, i)
  BY PrecedesOrders
<1>6. \A i, j \in some : r[i] = r[j] => i = j
  <2>1. \A i \in some : r[i] \in Int
    BY <1>3
  <2> QED BY <1>3, <1>5, <2>1
<1>7. \A m \in 0 .. n - 1 : \E i \in some : r[i] = m
  <2>1. r \in Injection(some, 0 .. n - 1)
    BY <1>4, <1>6 DEF Injection, IsInjective
  <2>2. IsFiniteSet(0 .. n - 1) /\ Cardinality(0 .. n - 1) = n
    <3> HIDE DEF n
    <3> QED BY <1>2, FS_Interval
  <2>3. r \in Surjection(some, 0 .. n - 1)
    <3> DEFINE T == 0 .. n - 1
    <3>1. r \in Injection(some, T) /\ IsFiniteSet(T) /\ Cardinality(T) = Cardinality(some)
      BY <2>1, <2>2
    <3> HIDE DEF T
    <3>2. r \in Surjection(some, T)
      BY <3>1, FS_Injection, Zenon
    <3> QED BY <3>2 DEF T
  <2> QED BY <2>3 DEF Surjection
<1>8. IsFiniteSet(first)
  <2>1. first \in SUBSET some
    OBVIOUS
  <2> HIDE DEF first
  <2> QED BY <2>1, FS_Subset
<1>9. Cardinality(first) = k
  <2> DEFINE g == [i \in first |-> r[i]]
  <2>1. g \in [first -> 0 .. k - 1]
    BY <1>3, <1>2
  <2>2. \A m \in 0 .. k - 1 : \E i \in first : g[i] = m
    <3>1. SUFFICES ASSUME NEW m \in 0 .. k - 1 PROVE \E i \in first : g[i] = m
      OBVIOUS
    <3>2. m \in 0 .. n - 1 /\ m < k
      BY <1>2
    <3>3. PICK i \in some : r[i] = m
      BY <1>7, <3>2
    <3>4. i \in first
      BY <3>2, <3>3
    <3> QED BY <3>3, <3>4
  <2>3. g \in Bijection(first, 0 .. k - 1)
    BY <1>6, <2>1, <2>2 DEF Bijection, Injection, Surjection, IsInjective
  <2>4. Cardinality(0 .. k - 1) = k
    BY FS_Interval
  <2> HIDE DEF first, g
  <2> QED BY <1>8, <2>3, <2>4, FS_Bijection DEF ExistsBijection
<1>10. \A x \in first, y \in some \ first : Precedes(rows, x, y)
  <2>1. SUFFICES ASSUME NEW x \in first, NEW y \in some, y \notin first PROVE Precedes(rows, x, y)
    OBVIOUS
  <2>2. r[x] < k /\ r[y] >= k /\ r[x] \in Int /\ r[y] \in Int /\ x \in some
    BY <1>3, <2>1
  <2>3. ~ (r[y] < r[x])
    BY <2>2
  <2>4. x # y
    BY <2>1
  <2> QED BY <1>3, <1>5, <2>2, <2>3, <2>4
<1> QED BY <1>1, <1>8, <1>9, <1>10

-----------------------------------------------------------------------------
\* Largest remainders: every slot is given, and no share is off by a whole one.  A
\* slot more goes to a bucket that has a remainder, or the remainders would not add
\* up to the slots that are left.
LEMMA AllocationIs ==
    ASSUME SubsetAssumption, NEW sizes, DOMAIN sizes = DOMAIN DevBuckets,
           \A b \in DOMAIN DevBuckets : sizes[b] \in Nat,
           SumOver(sizes) \in Nat \ {0}, NEW total \in Nat, NEW a \in Allocations(sizes, total)
    PROVE  /\ \A b \in DOMAIN DevBuckets :
                  /\ a[b] \in Nat
                  /\ a[b] * SumOver(sizes) < (sizes[b] * total) + SumOver(sizes)
                  /\ a[b] * SumOver(sizes) > (sizes[b] * total) - SumOver(sizes)
           /\ SumOver(a) = total
<1> DEFINE n == Len(DevBuckets)
           pop == SumOver(sizes)
           floor == [i \in DOMAIN sizes |-> (sizes[i] * total) \div pop]
           rest == [i \in DOMAIN sizes |-> (sizes[i] * total) % pop]
           left == total - SumOver(floor)
<1>1. PICK S \in SUBSET DOMAIN sizes :
          /\ Cardinality(S) = left
          /\ \A i \in S, j \in DOMAIN sizes \ S : rest[i] >= rest[j]
          /\ a = [i \in DOMAIN sizes |-> floor[i] + IF i \in S THEN 1 ELSE 0]
  BY DEF Allocations
<1>2. n \in Nat /\ DOMAIN sizes = 1 .. n /\ DOMAIN DevBuckets = 1 .. n
  BY DEF SubsetAssumption
<1> DEFINE one == [i \in 1 .. n |-> IF i \in S THEN 1 ELSE 0]
           share == [i \in 1 .. n |-> sizes[i] * total]
           part == [i \in 1 .. n |-> pop * floor[i]]
<1>3. ASSUME NEW i \in 1 .. n
      PROVE  /\ sizes[i] \in Nat /\ share[i] \in Nat /\ floor[i] \in Nat /\ part[i] \in Nat
             /\ rest[i] \in Nat /\ rest[i] < pop /\ share[i] = part[i] + rest[i]
  <2>1. sizes[i] \in Nat /\ pop \in Nat \ {0}
    BY <1>2
  <2>2. share[i] = sizes[i] * total /\ share[i] \in Nat
    BY <2>1
  <2>3. floor[i] = share[i] \div pop /\ rest[i] = share[i] % pop /\ part[i] = pop * floor[i]
    BY <1>2
  <2> HIDE DEF pop, share, floor, rest, part
  <2>4. floor[i] \in Nat /\ rest[i] \in Nat /\ rest[i] < pop /\ share[i] = part[i] + rest[i]
    <3> DEFINE d == share[i]
    <3>1. d \in Nat /\ pop \in Nat \ {0} /\ floor[i] = d \div pop /\ rest[i] = d % pop
      BY <2>1, <2>2, <2>3
    <3> HIDE DEF d
    <3>2. d \div pop \in Nat /\ d % pop \in Nat /\ d % pop < pop /\ d = pop * (d \div pop) + (d % pop)
      BY <3>1, DivisionIs
    <3>3. floor[i] \in Nat /\ rest[i] \in Nat /\ rest[i] < pop /\ d = part[i] + rest[i]
      BY <2>3, <3>1, <3>2
    <3> QED BY <3>3 DEF d
  <2>5. part[i] \in Nat
    <3>1. part[i] = share[i] - rest[i] /\ part[i] \in Int
      <4> DEFINE x == floor[i]
      <4>1. pop \in Nat /\ x \in Nat /\ part[i] = pop * x
        BY <2>1, <2>3, <2>4
      <4> HIDE DEF x
      <4>2. pop * x \in Int
        BY <4>1
      <4> QED BY <2>2, <2>4, <4>1, <4>2
    <3>2. floor[i] >= 0 /\ pop >= 0 => pop * floor[i] >= 0
      <4> DEFINE x == floor[i]
      <4>1. pop \in Nat /\ x \in Nat
        BY <2>1, <2>4
      <4> HIDE DEF x
      <4>2. pop * x \in Nat
        BY <4>1
      <4> QED BY <4>2 DEF x
    <3> QED BY <2>1, <2>3, <2>4, <3>1, <3>2
  <2> QED BY <2>1, <2>2, <2>4, <2>5
<1>4. /\ \A i \in 1 .. n : one[i] = IF i \in S THEN 1 ELSE 0
      /\ \A i \in 1 .. n : share[i] = total * sizes[i] /\ part[i] = pop * floor[i]
      /\ \A i \in 1 .. n : a[i] = floor[i] + one[i]
  BY <1>1, <1>2, <1>3
<1>5. pop \in Nat \ {0} /\ pop = Total(sizes, n) /\ left = total - Total(floor, n)
  BY DEF SumOver
<1>6. SumOver(a) = Total(a, n)
  BY DEF SumOver
<1> HIDE DEF n, pop, floor, rest, left, one, share, part
<1>7. IsFiniteSet(S) /\ Total(one, n) = Cardinality(S) /\ Total(one, n) = left
  BY <1>1, <1>2, <1>4, TotalCounts
<1>8. Total(floor, n) \in Int /\ left \in Int
  <2>1. \A i \in 1 .. n : floor[i] \in Int
    BY <1>3
  <2>2. \A k \in 0 .. n : Total(floor, k) \in Int
    BY <1>2, <2>1, TotalStep
  <2> QED BY <1>2, <1>5, <2>2
<1>9. Total(a, n) = total
  <2>1. \A i \in 1 .. n : floor[i] \in Int /\ one[i] \in Int /\ a[i] = floor[i] + one[i]
    BY <1>3, <1>4
  <2>2. Total(a, n) = Total(floor, n) + Total(one, n)
    BY <1>2, <2>1, TotalAdds
  <2> QED BY <1>5, <1>7, <1>8, <2>2
<1>10. Total(rest, n) = pop * left
  <2>1. Total(share, n) = Total(part, n) + Total(rest, n)
    <3>1. \A i \in 1 .. n : part[i] \in Int /\ rest[i] \in Int /\ share[i] = part[i] + rest[i]
      BY <1>3
    <3> QED BY <1>2, <3>1, TotalAdds
  <2>2. Total(share, n) = total * pop
    <3>1. \A i \in 1 .. n : sizes[i] \in Int /\ share[i] = total * sizes[i]
      BY <1>3, <1>4
    <3>2. n \in Nat /\ total \in Int
      BY <1>2
    <3>3. Total(share, n) = total * Total(sizes, n)
      BY <3>1, <3>2, TotalScaled, Zenon
    <3> QED BY <1>5, <3>3
  <2>3. Total(part, n) = pop * Total(floor, n)
    <3>1. \A i \in 1 .. n : floor[i] \in Int /\ part[i] = pop * floor[i]
      BY <1>3, <1>4
    <3>2. n \in Nat /\ pop \in Int
      BY <1>2, <1>5
    <3> QED BY <3>1, <3>2, TotalScaled, Zenon
  <2>4. Total(rest, n) \in Int
    <3>1. \A i \in 1 .. n : rest[i] \in Int
      BY <1>3
    <3>2. \A k \in 0 .. n : Total(rest, k) \in Int
      BY <1>2, <3>1, TotalStep
    <3> QED BY <1>2, <3>2
  <2>5. pop * (total - Total(floor, n)) = total * pop - pop * Total(floor, n)
    BY <1>5, <1>8
  <2> QED BY <1>5, <1>8, <2>1, <2>2, <2>3, <2>4, <2>5
<1>11. ASSUME NEW b \in S PROVE rest[b] > 0
  <2> SUFFICES ASSUME rest[b] = 0 PROVE FALSE
    BY <1>1, <1>2, <1>3
  <2> DEFINE fewer == [i \in 1 .. n |-> IF i \in S \ {b} THEN 1 ELSE 0]
             bound == [i \in 1 .. n |-> pop * fewer[i]]
  <2>1. Total(fewer, n) = left - 1
    <3>1. S \ {b} \in SUBSET (1 .. n) /\ \A i \in 1 .. n : fewer[i] = IF i \in S \ {b} THEN 1 ELSE 0
      BY <1>1, <1>2
    <3>2. Cardinality(S \ {b}) = Cardinality(S) - 1
      BY <1>7, FS_RemoveElement
    <3> HIDE DEF fewer
    <3>3. Total(fewer, n) = Cardinality(S \ {b})
      BY <1>2, <3>1, TotalCounts
    <3> QED BY <1>7, <3>2, <3>3
  <2>2. Total(bound, n) = pop * (left - 1)
    <3>1. \A i \in 1 .. n : fewer[i] \in Int /\ bound[i] = pop * fewer[i]
      OBVIOUS
    <3> HIDE DEF fewer, bound
    <3>2. n \in Nat /\ pop \in Int
      BY <1>2, <1>5
    <3>3. Total(bound, n) = pop * Total(fewer, n)
      BY <3>1, <3>2, TotalScaled, Zenon
    <3> QED BY <2>1, <3>3
  <2>3. ASSUME NEW i \in 1 .. n
        PROVE  rest[i] \in Int /\ bound[i] \in Int /\ rest[i] <= bound[i]
    <3>1. CASE i \in S \ {b}
      <4>1. bound[i] = pop
        BY <1>5, <3>1
      <4> QED BY <1>3, <1>5, <4>1
    <3>2. CASE i \notin S \ {b}
      <4>1. bound[i] = 0
        BY <1>5, <3>2
      <4>2. rest[i] = 0
        <5>1. CASE i = b
          BY <5>1
        <5>2. CASE i \notin S
          <6>1. rest[b] >= rest[i]
            BY <1>1, <1>2, <5>2
          <6> QED BY <1>3, <6>1
        <5> QED BY <3>2, <5>1, <5>2
      <4> QED BY <4>1, <4>2
    <3> QED BY <3>1, <3>2
  <2>4. Total(rest, n) <= Total(bound, n)
    <3> HIDE DEF bound
    <3> QED BY <1>2, <2>3, TotalMonotone
  <2>5. pop * left <= pop * (left - 1)
    BY <1>10, <2>2, <2>4
  <2>6. pop * (left - 1) = pop * left - pop
    BY <1>5, <1>8
  <2>7. pop * left \in Int
    BY <1>5, <1>8
  <2> QED BY <1>5, <2>5, <2>6, <2>7
<1>12. ASSUME NEW b \in 1 .. n
       PROVE  /\ a[b] \in Nat
              /\ a[b] * pop < share[b] + pop
              /\ a[b] * pop > share[b] - pop
  <2>1. CASE b \in S
    <3>1. a[b] = floor[b] + 1
      BY <1>4, <2>1
    <3>2. a[b] * pop = part[b] + pop
      <4>1. (floor[b] + 1) * pop = pop * floor[b] + pop
        BY <1>3, <1>5
      <4> QED BY <1>4, <3>1, <4>1
    <3> QED BY <1>3, <1>5, <1>11, <2>1, <3>1, <3>2
  <2>2. CASE b \notin S
    <3>1. a[b] = floor[b]
      BY <1>3, <1>4, <2>2
    <3>2. a[b] * pop = part[b]
      <4>1. floor[b] * pop = pop * floor[b]
        BY <1>3, <1>5
      <4> QED BY <1>4, <3>1, <4>1
    <3> QED BY <1>3, <1>5, <3>1, <3>2
  <2> QED BY <2>1, <2>2
<1>13. \A b \in 1 .. n : share[b] = sizes[b] * total
  BY DEF share
<1> QED BY <1>2, <1>6, <1>9, <1>12, <1>13 DEF pop

-----------------------------------------------------------------------------
\* What a receipt was built from: a manifest there is, whose questions are enough and
\* all in some bucket, and one of the picks from them, of which no two share an id.
BuiltFrom(r) ==
    /\ r.manifest \in DOMAIN DevManifests
    /\ DevManifests[r.manifest].questions \in DOMAIN DevQuestions
    /\ LET rows == DevQuestions[DevManifests[r.manifest].questions]
           finals == Finals[DevManifests[r.manifest].final]
       IN /\ Cardinality(Eligible(rows, finals)) >= Size
          /\ \A i \in Eligible(rows, finals) :
                 \E b \in DOMAIN DevBuckets : rows[i].tools \in DevBuckets[b]
          /\ \E taken \in Picks(rows, finals) : r.ids = IdsIn(rows, taken)
    /\ Cardinality(r.ids) = Size

LEMMA PickHasItsShape ==
    ASSUME SubsetAssumption, NEW rows, RowsOk(rows), NEW finals,
           Cardinality(Eligible(rows, finals)) >= Size,
           \A i \in Eligible(rows, finals) :
               \E b \in DOMAIN DevBuckets : rows[i].tools \in DevBuckets[b],
           NEW taken \in Picks(rows, finals)
    PROVE  LET eligible == Eligible(rows, finals)
               by == Bucketed(rows, finals)
               all == Cardinality(eligible)
           IN /\ taken \in SUBSET eligible
              /\ IsFiniteSet(taken) /\ Cardinality(taken) = Size
              /\ \A b \in DOMAIN DevBuckets :
                    LET got == Cardinality(by[b] \cap taken)
                    IN /\ got * all < (Cardinality(by[b]) * Size) + all
                       /\ got * all > (Cardinality(by[b]) * Size) - all
                       /\ \A x \in by[b] \cap taken, y \in by[b] \ taken : Precedes(rows, x, y)
<1> DEFINE n == Len(DevBuckets)
           eligible == Eligible(rows, finals)
           by == Bucketed(rows, finals)
           all == Cardinality(eligible)
           sizes == [b \in DOMAIN DevBuckets |-> Cardinality(by[b])]
<1>1. n \in Nat /\ DOMAIN DevBuckets = 1 .. n /\ Size \in Nat \ {0}
  BY DEF SubsetAssumption
<1>2. PICK a \in Allocations(sizes, Size) :
          /\ \A b \in DOMAIN DevBuckets : a[b] <= sizes[b]
          /\ taken = UNION {Earliest(rows, by[b], a[b]) : b \in DOMAIN DevBuckets}
  BY DEF Picks
<1>3. IsFiniteSet(eligible)
  <2>1. eligible \in SUBSET DOMAIN rows
    BY DEF Eligible
  <2>2. Len(rows) \in Nat /\ DOMAIN rows = 1 .. Len(rows)
    BY DEF RowsOk
  <2>3. IsFiniteSet(1 .. Len(rows))
    BY <2>2, FS_Interval
  <2> HIDE DEF eligible
  <2> QED BY <2>1, <2>2, <2>3, FS_Subset
<1>4. /\ \A b \in 1 .. n : by[b] = {i \in eligible : DevBucketOf(rows[i].tools) = b}
      /\ \A b \in 1 .. n : sizes[b] = Cardinality(by[b])
      /\ DOMAIN sizes = 1 .. n
  BY <1>1 DEF Bucketed
<1>5. \A i \in eligible : DevBucketOf(rows[i].tools) \in 1 .. n
  BY <1>1 DEF DevBucketOf
<1>6. all >= Size /\ all \in Nat
  BY <1>3, FS_CardinalityType
<1> HIDE DEF n, eligible, by, all, sizes
<1>7. ASSUME NEW b \in 1 .. n
      PROVE  by[b] \in SUBSET eligible /\ IsFiniteSet(by[b]) /\ sizes[b] \in Nat
  <2>1. by[b] \in SUBSET eligible
    BY <1>4
  <2>2. IsFiniteSet(by[b])
    BY <1>3, <2>1, FS_Subset
  <2> QED BY <1>4, <2>1, <2>2, FS_CardinalityType
<1>8. \A b, c \in 1 .. n : b # c => by[b] \cap by[c] = {}
  BY <1>4
<1>9. UNION {by[b] : b \in 1 .. n} = eligible
  BY <1>4, <1>5
<1>10. SumOver(sizes) = all
  <2>1. \A b \in 1 .. n : IsFiniteSet(by[b]) /\ sizes[b] = Cardinality(by[b])
    BY <1>4, <1>7
  <2>2. Cardinality(UNION {by[b] : b \in 1 .. n}) = Total(sizes, n)
    BY <1>1, <1>8, <2>1, UnionCounts
  <2> QED BY <1>9, <2>2 DEF SumOver, n, all
<1>11. /\ \A b \in DOMAIN DevBuckets :
             /\ a[b] \in Nat
             /\ a[b] * SumOver(sizes) < (sizes[b] * Size) + SumOver(sizes)
             /\ a[b] * SumOver(sizes) > (sizes[b] * Size) - SumOver(sizes)
       /\ SumOver(a) = Size
  <2>1. DOMAIN sizes = DOMAIN DevBuckets /\ \A b \in DOMAIN DevBuckets : sizes[b] \in Nat
    BY <1>1, <1>4, <1>7
  <2>2. SumOver(sizes) \in Nat \ {0} /\ Size \in Nat
    BY <1>1, <1>6, <1>10
  <2> QED BY <2>1, <2>2, AllocationIs
<1> DEFINE first == [b \in 1 .. n |-> Earliest(rows, by[b], a[b])]
<1>12. ASSUME NEW b \in 1 .. n
       PROVE  /\ first[b] \in SUBSET by[b] /\ IsFiniteSet(first[b])
              /\ Cardinality(first[b]) = a[b]
              /\ \A x \in first[b], y \in by[b] \ first[b] : Precedes(rows, x, y)
  <2>1. by[b] \in SUBSET DOMAIN rows
    BY <1>7 DEF eligible, Eligible
  <2>2. a[b] \in Nat /\ a[b] <= Cardinality(by[b])
    BY <1>1, <1>2, <1>4, <1>11
  <2>3. IsFiniteSet(by[b])
    BY <1>7
  <2>4. /\ Earliest(rows, by[b], a[b]) \subseteq by[b]
        /\ IsFiniteSet(Earliest(rows, by[b], a[b]))
        /\ Cardinality(Earliest(rows, by[b], a[b])) = a[b]
        /\ \A x \in Earliest(rows, by[b], a[b]), y \in by[b] \ Earliest(rows, by[b], a[b]) :
               Precedes(rows, x, y)
    BY <2>1, <2>2, <2>3, EarliestAre
  <2> QED BY <2>4
<1>13. taken = UNION {first[b] : b \in 1 .. n}
  BY <1>1, <1>2
<1> HIDE DEF first
<1>14. IsFiniteSet(taken) /\ Cardinality(taken) = Size
  <2>1. \A b \in 1 .. n : IsFiniteSet(first[b]) /\ a[b] = Cardinality(first[b])
    BY <1>12
  <2>2. \A b, c \in 1 .. n : b # c => first[b] \cap first[c] = {}
    <3>1. \A b \in 1 .. n : first[b] \subseteq by[b]
      BY <1>12
    <3> QED BY <1>8, <3>1
  <2>3. /\ IsFiniteSet(UNION {first[b] : b \in 1 .. n})
        /\ Cardinality(UNION {first[b] : b \in 1 .. n}) = Total(a, n)
    BY <1>1, <2>1, <2>2, UnionCounts
  <2> QED BY <1>11, <1>13, <2>3 DEF SumOver, n
<1>15. taken \in SUBSET eligible
  <2>1. \A b \in 1 .. n : first[b] \subseteq eligible
    BY <1>7, <1>12
  <2> QED BY <1>13, <2>1
<1>16. ASSUME NEW b \in 1 .. n
       PROVE  /\ by[b] \cap taken = first[b]
              /\ by[b] \ taken = by[b] \ first[b]
  <2>1. \A c \in 1 .. n : first[c] \subseteq by[c]
    BY <1>12
  <2> QED BY <1>8, <1>13, <2>1
<1>17. ASSUME NEW b \in DOMAIN DevBuckets
       PROVE  /\ Cardinality(by[b] \cap taken) * all < (Cardinality(by[b]) * Size) + all
              /\ Cardinality(by[b] \cap taken) * all > (Cardinality(by[b]) * Size) - all
              /\ \A x \in by[b] \cap taken, y \in by[b] \ taken : Precedes(rows, x, y)
  <2>1. b \in 1 .. n
    BY <1>1
  <2>2. Cardinality(by[b] \cap taken) = a[b] /\ Cardinality(by[b]) = sizes[b]
    BY <1>4, <1>12, <1>16, <2>1
  <2>3. a[b] * all < (sizes[b] * Size) + all /\ a[b] * all > (sizes[b] * Size) - all
    BY <1>10, <1>11
  <2>4. \A x \in by[b] \cap taken, y \in by[b] \ taken : Precedes(rows, x, y)
    BY <1>12, <1>16, <2>1
  <2> QED BY <2>2, <2>3, <2>4
<1> QED BY <1>14, <1>15, <1>17 DEF eligible, by, all

LEMMA ReceiptHasItsShape ==
    ASSUME SubsetAssumption, NEW r, BuiltFrom(r)
    PROVE  \E taken \in SUBSET DOMAIN DevQuestions[DevManifests[r.manifest].questions] : Taken(r, taken)
<1> DEFINE rows == DevQuestions[DevManifests[r.manifest].questions]
           finals == Finals[DevManifests[r.manifest].final]
<1>1. RowsOk(rows)
  BY DEF BuiltFrom, RowsOk, SubsetAssumption, Range
<1>2. /\ Cardinality(Eligible(rows, finals)) >= Size
      /\ \A i \in Eligible(rows, finals) :
             \E b \in DOMAIN DevBuckets : rows[i].tools \in DevBuckets[b]
      /\ Cardinality(r.ids) = Size
  BY DEF BuiltFrom
<1>3. PICK taken \in Picks(rows, finals) : r.ids = IdsIn(rows, taken)
  BY DEF BuiltFrom
<1> HIDE DEF rows, finals
<1>4. LET eligible == Eligible(rows, finals)
          by == Bucketed(rows, finals)
          all == Cardinality(eligible)
      IN /\ taken \in SUBSET eligible
         /\ IsFiniteSet(taken) /\ Cardinality(taken) = Size
         /\ \A b \in DOMAIN DevBuckets :
               LET got == Cardinality(by[b] \cap taken)
               IN /\ got * all < (Cardinality(by[b]) * Size) + all
                  /\ got * all > (Cardinality(by[b]) * Size) - all
                  /\ \A x \in by[b] \cap taken, y \in by[b] \ taken : Precedes(rows, x, y)
  BY <1>1, <1>2, PickHasItsShape
<1>5. Taken(r, taken)
  BY <1>2, <1>3, <1>4, Zenon DEF Taken, rows, finals
<1>6. taken \in SUBSET DOMAIN rows
  BY <1>4 DEF Eligible
<1> QED BY <1>5, <1>6 DEF rows

-----------------------------------------------------------------------------
\* As many places of a list hold one of the ids as there are ids, when each id is
\* at exactly one.
LEMMA EachOnce ==
    ASSUME NEW list, DOMAIN list = 1 .. Len(list), Len(list) \in Nat, NEW ids,
           \A id \in ids : Cardinality({i \in DOMAIN list : list[i] = id}) = 1
    PROVE  LET places == {i \in DOMAIN list : list[i] \in ids}
           IN /\ \A i, j \in places : list[i] = list[j] => i = j
              /\ {list[i] : i \in places} = ids
              /\ Cardinality(places) = Cardinality(ids)
<1> DEFINE places == {i \in DOMAIN list : list[i] \in ids}
           at(id) == {i \in DOMAIN list : list[i] = id}
           all == DOMAIN list
<1>1. IsFiniteSet(all)
  BY FS_Interval
<1>2. \A A : A \subseteq all => IsFiniteSet(A)
  <2> HIDE DEF all
  <2> QED BY <1>1, FS_Subset
<1>3. IsFiniteSet(places)
  BY <1>2
<1>4. ASSUME NEW id \in ids PROVE \E i : at(id) = {i}
  <2>1. at(id) \subseteq all /\ Cardinality(at(id)) = 1
    OBVIOUS
  <2> HIDE DEF at
  <2> QED BY <1>2, <2>1, FS_Singleton
<1>5. \A i, j \in places : list[i] = list[j] => i = j
  <2>1. SUFFICES ASSUME NEW i \in places, NEW j \in places, list[i] = list[j] PROVE i = j
    OBVIOUS
  <2>2. PICK k : at(list[i]) = {k}
    BY <1>4
  <2>3. i \in at(list[i]) /\ j \in at(list[i])
    BY <2>1
  <2> HIDE DEF at
  <2> QED BY <2>2, <2>3
<1>6. \A id \in ids : \E i \in places : list[i] = id
  <2>1. SUFFICES ASSUME NEW id \in ids PROVE \E i \in places : list[i] = id
    OBVIOUS
  <2>2. PICK k : at(id) = {k}
    BY <1>4
  <2>3. k \in at(id)
    BY <2>2
  <2> QED BY <2>3
<1>7. {list[i] : i \in places} = ids
  BY <1>6
<1>8. Cardinality(places) = Cardinality(ids)
  <2> DEFINE g == [i \in places |-> list[i]]
  <2>1. g \in Bijection(places, ids)
    <3>1. g \in [places -> ids]
      OBVIOUS
    <3>2. \A i, j \in places : g[i] = g[j] => i = j
      BY <1>5
    <3>3. \A id \in ids : \E i \in places : g[i] = id
      BY <1>6
    <3> HIDE DEF g, places
    <3> QED BY <3>1, <3>2, <3>3 DEF Bijection, Injection, Surjection, IsInjective
  <2> HIDE DEF g, places
  <2> QED BY <1>3, <2>1, FS_Bijection DEF ExistsBijection
<1> QED BY <1>5, <1>7, <1>8

\* Every file is in a version there is.
StoreInv ==
    /\ DOMAIN store = DOMAIN DevVersions
    /\ \A f \in DOMAIN DevVersions : store[f] \in DevVersions[f]

\* The committed receipt was built.
PinInv == ReceiptReads(pinned) => BuiltFrom(pinned)

\* A run holds files that there were; until the first edit under it, the ones the store
\* has; and once past the gate, the ids that are committed and the questions they are of.
TaskInv ==
    /\ touches \in Nat
    /\ DOMAIN task = {"cmd", "questions", "key", "ids"}
    /\ task # NoTask =>
          /\ task.questions \in DOMAIN DevQuestions /\ task.key \in DOMAIN Keys
    /\ task.cmd = "gate" => (touches = 0 => task.questions = store["questions"])
    /\ task.cmd = "restrict" =>
          /\ ReceiptReads(pinned) /\ task.ids = pinned.ids
          /\ touches = 0 => task.questions = DevManifests[pinned.manifest].questions

SubsetInv == StoreInv /\ PinInv /\ TaskInv /\ ScoredIsPinned

LEMMA SubsetInvInit == ASSUME SubsetAssumption, SubsetInit PROVE SubsetInv
<1>1. StoreInv
  BY DEF SubsetInit, StoreInv
<1>2. PinInv
  BY DEF SubsetInit, PinInv, ReceiptReads
<1>3. TaskInv
  BY DEF SubsetInit, TaskInv, NoTask
<1>4. ScoredIsPinned
  BY DEF SubsetInit, ScoredIsPinned
<1> QED BY <1>1, <1>2, <1>3, <1>4 DEF SubsetInv

\* What the restriction lets through is what was committed.
LEMMA RestrictedIsPinned ==
    ASSUME SubsetAssumption, SubsetInv, task.cmd = "restrict",
           Restrictable(DevQuestions[task.questions], Keys[task.key], task.ids)
    PROVE  LET q == DevQuestions[task.questions]
               k == Keys[task.key]
               items == {i \in DOMAIN q : q[i].id \in task.ids}
               answers == {i \in DOMAIN k : k[i] \in task.ids}
           IN /\ IdsIn(q, items) = pinned.ids
              /\ Cardinality(items) = Size /\ Cardinality(answers) = Size
              /\ touches = 0 => \A i \in items :
                     q[i].question \notin Finals[DevManifests[pinned.manifest].final]
<1> DEFINE q == DevQuestions[task.questions]
           k == Keys[task.key]
           items == {i \in DOMAIN q : q[i].id \in task.ids}
           answers == {i \in DOMAIN k : k[i] \in task.ids}
           idOf == [i \in DOMAIN q |-> q[i].id]
<1>1. /\ BuiltFrom(pinned) /\ task.ids = pinned.ids /\ ReceiptReads(pinned)
      /\ touches = 0 => task.questions = DevManifests[pinned.manifest].questions
      /\ task.questions \in DOMAIN DevQuestions /\ task.key \in DOMAIN Keys
  <2>1. task # NoTask
    BY DEF NoTask
  <2> QED BY <2>1 DEF SubsetInv, PinInv, TaskInv
<1>2. /\ Len(q) \in Nat /\ DOMAIN q = 1 .. Len(q)
      /\ Len(k) \in Nat /\ DOMAIN k = 1 .. Len(k)
  <2>1. q \in Seq(Range(q)) /\ k \in Seq(Range(k))
    BY <1>1 DEF SubsetAssumption
  <2> QED BY <2>1
<1>3. Cardinality(pinned.ids) = Size
  BY <1>1 DEF BuiltFrom
<1> HIDE DEF q, k
<1>4. /\ \A id \in task.ids : Cardinality({i \in DOMAIN idOf : idOf[i] = id}) = 1
      /\ \A id \in task.ids : Cardinality({i \in DOMAIN k : k[i] = id}) = 1
  <2>1. ASSUME NEW id \in task.ids PROVE {i \in DOMAIN idOf : idOf[i] = id} = {i \in DOMAIN q : q[i].id = id}
    OBVIOUS
  <2>2. \A id \in task.ids :
            /\ Cardinality({i \in DOMAIN q : q[i].id = id}) = 1
            /\ Cardinality({i \in DOMAIN k : k[i] = id}) = 1
    BY DEF Restrictable, q, k
  <2> QED BY <2>1, <2>2
<1>5. Cardinality(answers) = Size
  <2>1. DOMAIN k = 1 .. Len(k) /\ Len(k) \in Nat
    BY <1>2
  <2>2. \A id \in task.ids : Cardinality({i \in DOMAIN k : k[i] = id}) = 1
    BY <1>4
  <2>3. Cardinality({i \in DOMAIN k : k[i] \in task.ids}) = Cardinality(task.ids)
    BY <2>1, <2>2, EachOnce
  <2> QED BY <1>1, <1>3, <2>3
<1>6. /\ \A i, j \in items : q[i].id = q[j].id => i = j
      /\ IdsIn(q, items) = pinned.ids
      /\ Cardinality(items) = Size
  <2>1. DOMAIN idOf = 1 .. Len(q) /\ Len(idOf) = Len(q)
    BY <1>2
  <2> DEFINE places == {i \in DOMAIN idOf : idOf[i] \in task.ids}
  <2>2. /\ \A i, j \in places : idOf[i] = idOf[j] => i = j
        /\ {idOf[i] : i \in places} = task.ids
        /\ Cardinality(places) = Cardinality(task.ids)
    <3> HIDE DEF idOf
    <3>1. DOMAIN idOf = 1 .. Len(idOf) /\ Len(idOf) \in Nat
      BY <1>2, <2>1
    <3> QED BY <1>4, <3>1, EachOnce
  <2>3. places = items /\ \A i \in items : idOf[i] = q[i].id
    OBVIOUS
  <2> HIDE DEF places, items, idOf
  <2> QED BY <1>1, <1>3, <2>2, <2>3 DEF IdsIn
<1>7. ASSUME touches = 0, NEW i \in items
      PROVE  q[i].question \notin Finals[DevManifests[pinned.manifest].final]
  <2>1. PICK taken : Taken(pinned, taken)
    BY <1>1, ReceiptHasItsShape
  <2>2. /\ taken \subseteq Eligible(q, Finals[DevManifests[pinned.manifest].final])
        /\ pinned.ids = IdsIn(q, taken)
    BY <1>1, <1>7, <2>1 DEF Taken, q
  <2>3. taken \subseteq DOMAIN q
    BY <2>2 DEF Eligible
  <2>4. PICK j \in taken : q[j].id = q[i].id
    BY <1>1, <2>2 DEF IdsIn
  <2>5. j \in items
    BY <2>3, <2>4
  <2>6. j = i
    BY <1>6, <2>4, <2>5
  <2> QED BY <2>2, <2>4, <2>6 DEF Eligible
<1> QED BY <1>5, <1>6, <1>7 DEF q, k

LEMMA SubsetInvNext ==
    ASSUME SubsetAssumption, SubsetInv, [SubsetNext]_SubsetVars
    PROVE  SubsetInv'
<1> USE DEF SubsetInv
<1>1. ASSUME NEW f \in DOMAIN DevVersions, Touch(f) PROVE SubsetInv'
  <2>1. UNCHANGED <<chosen, pinned, task, scored>>
    BY <1>1 DEF Touch
  <2>2. StoreInv'
    BY <1>1 DEF Touch, StoreInv
  <2>3. PinInv'
    BY <2>1 DEF PinInv
  <2>4. TaskInv'
    <3>1. CASE task = NoTask
      BY <1>1, <3>1 DEF Touch, TaskInv, NoTask
    <3>2. CASE task # NoTask
      <4>1. touches \in Nat /\ touches' = touches + 1
        BY <1>1, <3>2 DEF Touch, TaskInv
      <4>2. touches' \in Nat /\ touches' # 0
        BY <4>1
      <4> QED BY <2>1, <3>2, <4>2 DEF TaskInv
    <3> QED BY <3>1, <3>2
  <2>5. ScoredIsPinned'
    BY <2>1 DEF ScoredIsPinned
  <2> QED BY <2>2, <2>3, <2>4, <2>5
<1>2. CASE WriteReceipt
  <2>1. UNCHANGED <<store, pinned, task, scored, touches>>
    BY <1>2 DEF WriteReceipt
  <2> QED BY <2>1 DEF StoreInv, PinInv, TaskInv, ScoredIsPinned
<1>3. CASE VerifyAndPin
  <2> DEFINE m == store["manifest"]
  <2>1. UNCHANGED <<store, chosen, task, scored, touches>> /\ task = NoTask
    BY <1>3 DEF VerifyAndPin
  <2>2. MayBuild(m) /\ chosen \in Built(m) /\ pinned' = chosen
    BY <1>3 DEF VerifyAndPin
  <2>3. m \in DOMAIN DevManifests /\ store["questions"] \in DOMAIN DevQuestions
    BY DEF StoreInv, SubsetAssumption
  <2> HIDE DEF m
  <2>4. BuiltFrom(chosen)
    <3>1. chosen.manifest = m
      BY <2>2 DEF Built
    <3>2. /\ \E taken \in Picks(DevQuestions[DevManifests[m].questions], Finals[DevManifests[m].final]) :
                 chosen.ids = IdsIn(DevQuestions[DevManifests[m].questions], taken)
          /\ Cardinality(chosen.ids) = Size
      BY <2>2 DEF Built
    <3>3. /\ store["questions"] = DevManifests[m].questions /\ store["final"] = DevManifests[m].final
          /\ LET rows == DevQuestions[store["questions"]]
                 eligible == Eligible(rows, Finals[store["final"]])
             IN /\ Cardinality(eligible) >= Size
                /\ \A i \in eligible : \E b \in DOMAIN DevBuckets : rows[i].tools \in DevBuckets[b]
      BY <2>2 DEF MayBuild
    <3> QED BY <2>3, <3>1, <3>2, <3>3 DEF BuiltFrom
  <2>5. PinInv'
    <3>1. BuiltFrom(pinned')
      BY <2>2, <2>4
    <3>2. BuiltFrom(pinned)'
      BY <3>1 DEF BuiltFrom, Eligible, Picks, IdsIn, Bucketed, Allocations, SumOver, Earliest, Precedes, Before, DevBucketOf, Total
    <3> QED BY <3>2 DEF PinInv
  <2> QED BY <2>1, <2>5 DEF StoreInv, TaskInv, ScoredIsPinned, NoTask
<1>4. CASE LoadFiles
  <2>1. UNCHANGED <<store, chosen, pinned, scored, touches>>
    BY <1>4 DEF LoadFiles
  <2>2. store["questions"] \in DOMAIN DevQuestions /\ store["key"] \in DOMAIN Keys
    BY DEF StoreInv, SubsetAssumption
  <2>3. TaskInv'
    BY <1>4, <2>2 DEF LoadFiles, TaskInv
  <2> QED BY <2>1, <2>3 DEF StoreInv, PinInv, ScoredIsPinned
<1>5. CASE PassGate
  <2>1. UNCHANGED <<store, chosen, pinned, scored, touches>> /\ task.cmd = "gate"
    BY <1>5 DEF PassGate
  <2>2. TaskInv'
    <3>1. CASE ~ Gate
      <4>1. task' = NoTask
        BY <1>5, <3>1 DEF PassGate
      <4> QED BY <2>1, <4>1 DEF TaskInv, NoTask
    <3>2. CASE Gate
      <4>1. task' = [task EXCEPT !.cmd = "restrict", !.ids = chosen.ids]
        BY <1>5, <3>2 DEF PassGate
      <4>2. /\ ReceiptReads(pinned) /\ chosen = pinned
            /\ store["questions"] = DevManifests[pinned.manifest].questions
        BY <3>2 DEF Gate
      <4>3. task # NoTask
        BY <2>1 DEF NoTask
      <4>4. /\ DOMAIN task' = {"cmd", "questions", "key", "ids"}
            /\ task'.cmd = "restrict" /\ task'.ids = pinned.ids
            /\ task'.questions = task.questions /\ task'.key = task.key
        BY <4>1, <4>2 DEF TaskInv
      <4> QED BY <2>1, <4>2, <4>3, <4>4 DEF TaskInv
    <3> QED BY <3>1, <3>2
  <2> QED BY <2>1, <2>2 DEF StoreInv, PinInv, ScoredIsPinned
<1>6. CASE RestrictBoth
  <2>1. UNCHANGED <<store, chosen, pinned, touches>> /\ task.cmd = "restrict" /\ task' = NoTask
    BY <1>6 DEF RestrictBoth
  <2>2. ScoredIsPinned'
    <3> DEFINE q == DevQuestions[task.questions]
               k == Keys[task.key]
               items == {i \in DOMAIN q : q[i].id \in task.ids}
               answers == {i \in DOMAIN k : k[i] \in task.ids}
               new == [pin |-> pinned, questions |-> task.questions,
                       items |-> items, answers |-> answers, quiet |-> touches = 0]
    <3>1. CASE ~ Restrictable(q, k, task.ids)
      <4>1. UNCHANGED scored
        BY <1>6, <3>1 DEF RestrictBoth
      <4> QED BY <4>1 DEF ScoredIsPinned
    <3>2. CASE Restrictable(q, k, task.ids)
      <4>1. scored' = scored \cup {new}
        BY <1>6, <3>2 DEF RestrictBoth
      <4>2. /\ IdsIn(q, items) = pinned.ids
            /\ Cardinality(items) = Size /\ Cardinality(answers) = Size
            /\ touches = 0 => \A i \in items :
                   q[i].question \notin Finals[DevManifests[pinned.manifest].final]
        BY <2>1, <3>2, RestrictedIsPinned
      <4>3. /\ new.pin = pinned /\ DevQuestions[new.questions] = q
            /\ new.items = items /\ new.answers = answers /\ new.quiet = (touches = 0)
        OBVIOUS
      <4> HIDE DEF q, k, items, answers, new
      <4>4. ASSUME NEW s \in scored'
            PROVE  /\ IdsIn(DevQuestions[s.questions], s.items) = s.pin.ids
                   /\ Cardinality(s.items) = Size /\ Cardinality(s.answers) = Size
                   /\ s.quiet => \A i \in s.items :
                          DevQuestions[s.questions][i].question
                              \notin Finals[DevManifests[s.pin.manifest].final]
        <5>1. CASE s \in scored
          BY <5>1 DEF ScoredIsPinned
        <5>2. CASE s = new
          BY <4>2, <4>3, <5>2
        <5> QED BY <4>1, <5>1, <5>2
      <4> QED BY <4>4 DEF ScoredIsPinned
    <3> QED BY <3>1, <3>2
  <2>3. TaskInv'
    BY <2>1 DEF TaskInv, NoTask
  <2> QED BY <2>1, <2>2, <2>3 DEF StoreInv, PinInv
<1>7. CASE UNCHANGED SubsetVars
  BY <1>7 DEF SubsetVars, StoreInv, PinInv, TaskInv, ScoredIsPinned
<1> QED BY <1>1, <1>2, <1>3, <1>4, <1>5, <1>6, <1>7 DEF SubsetNext

LEMMA SubsetInvHolds == ASSUME SubsetAssumption PROVE SubsetSpec => []SubsetInv
<1>1. SubsetInit => SubsetInv
  BY SubsetInvInit
<1>2. SubsetInv /\ [SubsetNext]_SubsetVars => SubsetInv'
  BY SubsetInvNext
<1> QED BY <1>1, <1>2, PTL DEF SubsetSpec

\* Whatever was edited, the committed subset is as many rows as it says, every bucket's
\* share of them is right to within one, and within a bucket they are the earliest.
THEOREM CommittedSubsetIsProportional ==
    ASSUME SubsetAssumption PROVE SubsetSpec => []SubsetIsProportional
<1>1. ASSUME SubsetInv PROVE SubsetIsProportional
  <2>1. SUFFICES ASSUME ReceiptReads(pinned)
        PROVE \E taken \in SUBSET DOMAIN DevQuestions[DevManifests[pinned.manifest].questions] :
                  Taken(pinned, taken)
    BY Zenon DEF SubsetIsProportional
  <2>2. BuiltFrom(pinned)
    BY <1>1, <2>1 DEF SubsetInv, PinInv
  <2> QED BY <2>2, ReceiptHasItsShape, Zenon
<1> QED BY <1>1, SubsetInvHolds, PTL

\* Whatever was edited, even under a run that has its files loaded, what is scored is
\* the committed subset, each item once and with its answer; and if nothing was edited
\* under a run, no item of it is a question of a final scoring set.
THEOREM OnlyTheCommittedIsScored ==
    ASSUME SubsetAssumption PROVE SubsetSpec => []ScoredIsPinned
<1>1. SubsetInv => ScoredIsPinned
  BY DEF SubsetInv
<1> QED BY <1>1, SubsetInvHolds, PTL
=============================================================================
