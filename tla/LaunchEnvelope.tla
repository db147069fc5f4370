--------------------------- MODULE LaunchEnvelope ---------------------------
(***************************************************************************)
(* scripts/launch_mining_stage.py: the wrapper that runs each miner        *)
(* session under `timeout` and accounts for wall-clock time in a session   *)
(* ledger shared by all launches under one persistent root.                *)
(*                                                                         *)
(* Time is counted in ticks, Second ticks to the second, and the clock     *)
(* does not go back.  A launcher may be killed alone: its child is then    *)
(* still under `timeout`, and the flock is gone with the launcher.         *)
(***************************************************************************)
EXTENDS Integers, Sequences, FiniteSets, Totals

CONSTANTS Launchers,
          Second,      \* ticks per second
          MaxStage,    \* --max-stage-seconds
          Grace,       \* seconds of --kill-after
          Interrupts,  \* whether a launcher may be interrupted alone
          MaxKills,    \* bound on launchers killed and interrupted
          MaxTime,     \* bound on the clock, in ticks
          MaxSessions  \* bound on sessions

EnvelopeAssumption ==
    /\ Second \in Nat \ {0} /\ MaxStage \in Nat \ {0} /\ Grace \in Nat
    /\ Interrupts \in BOOLEAN
    /\ MaxKills \in Nat /\ MaxTime \in Nat /\ MaxSessions \in Nat

VARIABLES now,       \* the clock
          ledger,    \* mining-stage-sessions.jsonl, line by line
          flock,     \* the launchers that hold .mining-stage-launch.lock
          launcher,  \* each launcher: "out", "reading", "starting", "waiting"
          session,   \* the session each launcher works for, and what remains
          child,     \* per session: [state, from, cap], cap 0 being no cap
          busy,      \* ticks during which some child ran (history)
          kills

EnvelopeVars == <<now, ledger, flock, launcher, session, child, busy, kills>>

TornRecord == [event |-> "torn"]
SessionStart(s, t) == [event |-> "session_start", session |-> s, started_at |-> t]
SessionEnd(s, e) == [event |-> "session_end", session |-> s, elapsed |-> e]

NoSession == [id |-> 0, remaining |-> 0]
Sessions == 1 .. MaxSessions
NotStarted == [state |-> "none", from |-> 0, cap |-> 0]

\* append_jsonl: a line cut short takes the next one with it.
Recorded(lines, line) ==
    IF lines # <<>> /\ lines[Len(lines)] = TornRecord THEN lines ELSE Append(lines, line)

Trusted == \A i \in DOMAIN ledger : ledger[i] # TornRecord

\* The lines of a session.
Lines(event, s) == {i \in DOMAIN ledger : ledger[i].event = event /\ ledger[i].session = s}
TheLine(event, s) == ledger[CHOOSE i \in Lines(event, s) : TRUE]

\* Mutant: a session that nobody closed costs nothing.
ChargeWhenClosed(s) ==
    IF Lines("session_end", s) # {} THEN TheLine("session_end", s).elapsed ELSE 0

\* An ended session as recorded, any other that was started until now.
Charge(s) ==
    IF Lines("session_start", s) = {} THEN 0
    ELSE IF Lines("session_end", s) # {} THEN TheLine("session_end", s).elapsed
    ELSE now - TheLine("session_start", s).started_at

\* elapsed_before.
ElapsedBefore == Total([s \in Sessions |-> Charge(s)], MaxSessions)

Remaining == MaxStage * Second - ElapsedBefore

\* The session ledger can be trusted and leaves something of the allowance.
MayOpen == Trusted /\ Remaining > 0

EnvelopeInit ==
    /\ now = 0
    /\ ledger = <<>>
    /\ flock = {}
    /\ launcher = [l \in Launchers |-> "out"]
    /\ session = [l \in Launchers |-> NoSession]
    /\ child = [s \in Sessions |-> NotStarted]
    /\ busy = 0
    /\ kills = 0

Goto(l, pc) == launcher' = [launcher EXCEPT ![l] = pc]

LeaveLaunch(l) ==
    /\ Goto(l, "out")
    /\ flock' = flock \ {l}
    /\ session' = [session EXCEPT ![l] = NoSession]

-----------------------------------------------------------------------------
\* fcntl.flock(LOCK_EX).
TakeLock(l) ==
    /\ launcher[l] = "out"
    /\ flock = {}
    /\ flock' = {l}
    /\ Goto(l, "reading")
    /\ UNCHANGED <<now, ledger, session, child, busy, kills>>

\* parser.error: a session ledger it cannot trust, or nothing left.
RefuseSession(l) ==
    /\ launcher[l] = "reading"
    /\ ~MayOpen
    /\ LeaveLaunch(l)
    /\ UNCHANGED <<now, ledger, child, busy, kills>>

\* The allowance is fixed and the session is on disk before anything runs.
OpenSession(l) ==
    /\ launcher[l] = "reading"
    /\ MayOpen
    /\ \E s \in Sessions :
         /\ child[s] = NotStarted
         /\ \A r \in Sessions : r < s => child[r] # NotStarted
         /\ ledger' = Recorded(ledger, SessionStart(s, now))
         /\ session' = [session EXCEPT ![l] = [id |-> s, remaining |-> Remaining]]
         /\ child' = [child EXCEPT ![s].state = "opened"]
    /\ Goto(l, "starting")
    /\ UNCHANGED <<now, flock, busy, kills>>

\* subprocess.run: `timeout --kill-after=30 <int(remaining)> ...`.
Cap(remaining) == (remaining \div Second) * Second

StartChild(l) ==
    /\ launcher[l] = "starting"
    /\ child' = [child EXCEPT ![session[l].id] =
                    [state |-> "running", from |-> now, cap |-> Cap(session[l].remaining)]]
    /\ Goto(l, "waiting")
    /\ UNCHANGED <<now, ledger, flock, session, busy, kills>>

\* The child returns, or `timeout` ends it: TERM at its cap, KILL after Grace.
ChildEnds(s) ==
    /\ child[s].state = "running"
    /\ child' = [child EXCEPT ![s].state = "over"]
    /\ UNCHANGED <<now, ledger, flock, launcher, session, busy, kills>>

\* The finally, then the end of the with: the lock goes.
CloseSession(l) ==
    /\ launcher[l] = "waiting"
    /\ child[session[l].id].state = "over"
    /\ ledger' = Recorded(ledger, SessionEnd(session[l].id, now - child[session[l].id].from))
    /\ LeaveLaunch(l)
    /\ UNCHANGED <<now, child, busy, kills>>

-----------------------------------------------------------------------------
\* The launcher alone dies, perhaps in the middle of an append.
LauncherDies(l) ==
    /\ launcher[l] # "out"
    /\ kills < MaxKills
    /\ kills' = kills + 1
    /\ ledger' \in {ledger, Recorded(ledger, TornRecord)}
    /\ ledger' # ledger =>
         \/ launcher[l] = "reading" /\ MayOpen
         \/ launcher[l] = "waiting" /\ child[session[l].id].state = "over"
    /\ LeaveLaunch(l)
    /\ UNCHANGED <<now, child, busy>>

\* An interrupt of the launcher alone: subprocess.run kills `timeout` itself, the
\* finally closes the session, and the child goes on with nothing to end it.
Interrupt(l) ==
    /\ launcher[l] = "waiting"
    /\ child[session[l].id].state = "running"
    /\ kills < MaxKills
    /\ kills' = kills + 1
    /\ child' = [child EXCEPT ![session[l].id].cap = 0]
    /\ ledger' = Recorded(ledger, SessionEnd(session[l].id, now - child[session[l].id].from))
    /\ LeaveLaunch(l)
    /\ UNCHANGED <<now, busy>>

LiveSessions == {s \in Sessions : child[s].state = "running"}

\* `timeout` keeps its word: a capped child is gone Grace after its cap.  From
\* reading the clock to starting the child a launcher takes less than a tick.
Tick ==
    /\ now < MaxTime
    /\ \A l \in Launchers : launcher[l] \notin {"reading", "starting"}
    /\ \A s \in LiveSessions : child[s].cap > 0 =>
         now < child[s].from + child[s].cap + Grace * Second
    /\ now' = now + 1
    /\ busy' = busy + (IF LiveSessions = {} THEN 0 ELSE 1)
    /\ UNCHANGED <<ledger, flock, launcher, session, child, kills>>

EnvelopeNext ==
    \/ \E l \in Launchers : TakeLock(l)
    \/ \E l \in Launchers : RefuseSession(l)
    \/ \E l \in Launchers : OpenSession(l)
    \/ \E l \in Launchers : StartChild(l)
    \/ \E s \in Sessions : ChildEnds(s)
    \/ \E l \in Launchers : CloseSession(l)
    \/ \E l \in Launchers : LauncherDies(l)
    \/ Interrupts /\ \E l \in Launchers : Interrupt(l)
    \/ Tick

EnvelopeSpec == EnvelopeInit /\ [][EnvelopeNext]_EnvelopeVars

-----------------------------------------------------------------------------
(* Properties. *)

\* The shape of the clock, the locks and the sessions.
EnvelopeTypeOK ==
    /\ now \in 0 .. MaxTime /\ busy \in 0 .. MaxTime /\ kills \in 0 .. MaxKills
    /\ Cardinality(flock) <= 1
    /\ launcher \in [Launchers -> {"out", "reading", "starting", "waiting"}]
    /\ \A l \in Launchers : session[l].id \in 0 .. MaxSessions
    /\ \A s \in Sessions : child[s].state \in {"none", "opened", "running", "over"}

\* No child runs without a cap ("GNU timeout/gtimeout is required; refusing an
\* uncapped launch").
EveryChildCapped == \A s \in LiveSessions : child[s].cap > 0

\* As long as no child was without a cap: however launches are killed, orphaned,
\* overlapped and resumed, the miner never runs for longer, all sessions
\* together, than the stage allows and the grace `timeout` gives: a session
\* nobody closed is charged until now.
EnvelopeHolds ==
    (\A s \in Sessions : child[s].state \in {"running", "over"} => child[s].cap > 0)
        => busy <= (MaxStage + Grace) * Second
=============================================================================
