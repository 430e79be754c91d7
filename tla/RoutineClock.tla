------------------------------ MODULE RoutineClock ------------------------------
(***************************************************************************)
(* When a routine fires: packages/host/src/schedule (scheduler,            *)
(* agent-scan, fire-lock), packages/domain/src/schedule (dueAt) and the    *)
(* route by which the control plane delivers a fire (routes/routine-fires).*)
(* Ticks overlap: a sweep that is slow is still under way when the timer   *)
(* starts the next.  What becomes of a fire is modelled by RoutineRuns.    *)
(***************************************************************************)
EXTENDS Integers, Sequences, FiniteSetsExt

CONSTANTS
  Scans,       \* ticks of the scheduler that may be under way at once
  Instants,    \* the schedule: the times the routine is due
  Grace,       \* cronFireGraceMs, in units of the clock
  Ttl,         \* dedupTtlSec: how long a fire lock lasts, in the same units
  MaxNow,      \* bound: the clock
  MaxRestarts, \* bound: restarts of the host
  MaxFires     \* bound: fires recorded

ASSUME ClockAssumption ==
  /\ Instants \subseteq 1..MaxNow
  /\ Ttl \in Nat \ {0}
  /\ {Grace, MaxNow, MaxRestarts, MaxFires} \subseteq Nat
  /\ "route" \notin Scans

Route == "route"                 \* the control plane's delivery
Firers == Scans \cup {Route}

VARIABLES
  now,        \* the clock
  startedAt,  \* when this process started
  lastTick,   \* the end of the last window scanned
  expiry,     \* when each instant's fire lock runs out; 0: never taken here
  firer,      \* the sweeps and the delivery: [at, since, until, instant, burnt]
  restarts,   \* restarts so far
  fired,      \* history: the fires, [instant, by, boot, burnt]
  missed      \* history: instants of windows that were lost or caught up on

clockVars == <<now, startedAt, lastTick, expiry, firer, restarts, fired, missed>>

AtRest ==
  [at |-> "idle", since |-> 0, until |-> 0, instant |-> 0, burnt |-> 0]

ClockInit ==
  /\ now = 0 /\ startedAt = 0 /\ lastTick = 0
  /\ expiry = [t \in Instants |-> 0]
  /\ firer = [f \in Firers |-> AtRest]
  /\ restarts = 0
  /\ fired = <<>>
  /\ missed = {}

-----------------------------------------------------------------------------
\* Mutant: the window is shifted to before this process started.
Unclamped(since) == since - Grace

\* Mutant: only its right edge is shifted.
Unshifted(since) == since

\* The left edge of the window that is evaluated: shifted by the grace, never
\* to before this process started.
EvalSince(since) ==
  IF Grace = 0 THEN since ELSE Max({since - Grace, startedAt})

DueIn(since, until) == {t \in Instants : since < t /\ t <= until}

\* tick: the window moves on before anything is listed.
Tick(w) ==
  /\ firer[w].at = "idle"
  /\ lastTick' = now
  /\ firer' = [firer EXCEPT ![w] =
                 [AtRest EXCEPT !.at = "scan", !.since = EvalSince(lastTick),
                                !.until = now - Grace]]
  /\ UNCHANGED <<now, startedAt, expiry, restarts, fired, missed>>

\* The workspaces, the agents or routines.json cannot be read: the window is
\* lost.
ScanFails(w) ==
  /\ firer[w].at = "scan"
  /\ missed' = missed \cup DueIn(firer[w].since, firer[w].until)
  /\ firer' = [firer EXCEPT ![w] = AtRest]
  /\ UNCHANGED <<now, startedAt, lastTick, expiry, restarts, fired>>

\* setNx: a lock holds until it runs out.
Held(t) == now < expiry[t]

\* burnRoutineFireInstant: who takes the lock goes on to fire.
Burn(f, t) ==
  IF Held(t)
    THEN firer' = [firer EXCEPT ![f] = AtRest] /\ UNCHANGED expiry
    ELSE /\ firer' = [firer EXCEPT ![f] =
                        [AtRest EXCEPT !.at = "fire", !.instant = t, !.burnt = now]]
         /\ expiry' = [expiry EXCEPT ![t] = now + Ttl]

\* dueAt: the first instant of the window; a scheduler that was late fires once.
ScanDue(w) ==
  /\ firer[w].at = "scan"
  /\ LET due == DueIn(firer[w].since, firer[w].until) IN
     /\ due # {}
     /\ Burn(w, Min(due))
     /\ missed' = missed \cup (due \ {Min(due)})
  /\ UNCHANGED <<now, startedAt, lastTick, restarts, fired>>

\* The control plane delivers an instant that has passed, once or again.
Deliver(t) ==
  /\ firer[Route].at = "idle"
  /\ t <= now
  /\ Burn(Route, t)
  /\ UNCHANGED <<now, startedAt, lastTick, restarts, fired, missed>>

\* fireRoutineRun: a run is recorded; or the routine is busy, and the instant
\* is spent all the same.
Fire(f) ==
  /\ firer[f].at = "fire"
  /\ \/ UNCHANGED fired
     \/ /\ Len(fired) < MaxFires
        /\ fired' = Append(fired, [instant |-> firer[f].instant, by |-> f,
                                   boot |-> restarts,
                                   burnt |-> firer[f].burnt])
  /\ firer' = [firer EXCEPT ![f] = AtRest]
  /\ UNCHANGED <<now, startedAt, lastTick, expiry, restarts, missed>>

Elapse ==
  /\ now < MaxNow
  /\ now' = now + 1
  /\ UNCHANGED <<startedAt, lastTick, expiry, firer, restarts, fired, missed>>

\* The locks and the sweeps are the process's.
Reboot ==
  /\ restarts < MaxRestarts
  /\ restarts' = restarts + 1
  /\ startedAt' = now
  /\ lastTick' = now
  /\ expiry' = [t \in Instants |-> 0]
  /\ firer' = [f \in Firers |-> AtRest]
  /\ UNCHANGED <<now, fired, missed>>

ClockNext ==
  \/ \E w \in Scans : Tick(w) \/ ScanFails(w) \/ ScanDue(w) \/ Fire(w)
  \/ \E t \in Instants : Deliver(t)
  \/ Fire(Route)
  \/ Elapse
  \/ Reboot

ClockSpec == ClockInit /\ [][ClockNext]_clockVars

-----------------------------------------------------------------------------
(* Properties.                                                             *)

\* Every variable stays within its type.
ClockTypeOK ==
  /\ {now, startedAt, lastTick} \subseteq 0..MaxNow
  /\ expiry \in [Instants -> 0..(MaxNow + Ttl)]
  /\ firer \in [Firers -> [at : {"idle", "scan", "fire"},
                           since : 0..MaxNow, until : (0 - Grace)..MaxNow,
                           instant : Instants \cup {0}, burnt : 0..MaxNow]]
  /\ restarts \in 0..MaxRestarts
  /\ fired \in Seq([instant : Instants, by : Firers, boot : 0..MaxRestarts,
                    burnt : 0..MaxNow])
  /\ missed \subseteq Instants

\* The locks were taken a whole TTL apart.
Apart(a, b) == a + Ttl <= b \/ b + Ttl <= a

\* Each due instant is fired once: by a scan or by the delivery, never by both,
\* and never again by the scan of a process that started after it
\* (scheduler.ts:123-131).  Two things repeat one: a delivery made again after a
\* restart, which loses the lock; and, in one process, the lock running out
\* before the second of the two, one of which is a delivery, asks for it.
FiresOnce ==
  \A i, j \in DOMAIN fired :
    i < j /\ fired[i].instant = fired[j].instant =>
      IF fired[i].boot = fired[j].boot
        THEN /\ Route \in {fired[i].by, fired[j].by}
             /\ Apart(fired[i].burnt, fired[j].burnt)
        ELSE fired[j].by = Route

\* The windows tile: an instant that came due since the process started, with
\* its grace over at the last tick, has been burned or is being scanned for; the
\* exceptions are lost windows and the later instants of a late one.
NoInstantSkipped ==
  \A t \in Instants :
    startedAt < t /\ t <= lastTick - Grace
    => \/ expiry[t] # 0 \/ t \in missed
       \/ \E w \in Scans : /\ firer[w].at = "scan"
                           /\ t \in DueIn(firer[w].since, firer[w].until)
=============================================================================
