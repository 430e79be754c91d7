---------------------------- MODULE RuntimeLauncher ----------------------------
(***************************************************************************)
(* The launcher of one agent's runtime process on the local profile,       *)
(* packages/host/src/launcher, with the callers that need the agent's      *)
(* directory quiet (withQuiesced of channel/proxy.ts: a rename, a delete)  *)
(* and the shutdown of the host.                                           *)
(*                                                                         *)
(* An action is what the host does between two awaits, or what a child     *)
(* process does by itself.  A caller of ensureAwake that waits - for the   *)
(* boot under way or for a drain - only calls again when that is over, so  *)
(* callers have no state of their own.                                     *)
(***************************************************************************)
EXTENDS Naturals, FiniteSets

CONSTANTS
  Movers,      \* callers of withQuiesced
  MaxSpawns    \* bound: children spawned

ASSUME LauncherAssumption == IsFiniteSet(Movers) /\ MaxSpawns \in Nat

VARIABLES
  child,      \* the children spawned: "starting" | "serving" | "gone" | "seen"
  spawned,    \* how many there are
  signalled,  \* those that were sent SIGTERM
  killed,     \* those that were sent SIGKILL
  entry,      \* the live-set `running`: a child, or 0
  drain,      \* per child: the drain of its sleep: "none" | "term" | "kill"
  boot,       \* the boot under way, [phase, child]
  held,       \* the refcount of hold()
  mover,      \* per mover: [at, waits], where `waits` is the child it sleeps
  stop,       \* stop(): "open" | "term" | "kill" | "done"
  awaited,    \* the children stop() waits for
  stray       \* history: children a failed boot has let go of

vars == <<child, spawned, signalled, killed, entry, drain, boot, held, mover,
          stop, awaited, stray>>

Children == 1..MaxSpawns
Alive(k) == k \in 1..spawned /\ child[k] \in {"starting", "serving"}

NoBoot == [phase |-> "none", child |-> 0]
AtRest == [at |-> "idle", waits |-> 0]
closed == stop # "open"

Init ==
  /\ child = [k \in Children |-> "starting"]
  /\ spawned = 0
  /\ signalled = {}
  /\ killed = {}
  /\ entry = 0
  /\ drain = [k \in Children |-> "none"]
  /\ boot = NoBoot
  /\ held = 0
  /\ mover = [m \in Movers |-> AtRest]
  /\ stop = "open"
  /\ awaited = {}
  /\ stray = {}

-----------------------------------------------------------------------------
(* ensureAwake and the boot.                                               *)

\* Nobody is booting, nothing is live (or draining), and the latches are open.
EnsureAwake ==
  /\ ~ closed
  /\ held = 0
  /\ boot.phase = "none"
  /\ entry = 0
  /\ spawned < MaxSpawns
  /\ boot' = [phase |-> "port", child |-> 0]
  /\ UNCHANGED <<child, spawned, signalled, killed, entry, drain, held, mover,
                 stop, awaited, stray>>

\* Mutants of Latched: the latches are not looked at again after the await.
LatchedForStop == closed
LatchedForMove == held > 0

\* A move or the shutdown began while the port was being allocated.
Latched == held > 0 \/ closed

BootRefused ==
  /\ boot.phase = "port"
  /\ Latched
  /\ boot' = NoBoot
  /\ UNCHANGED <<child, spawned, signalled, killed, entry, drain, held, mover,
                 stop, awaited, stray>>

Spawn ==
  /\ boot.phase = "port"
  /\ ~ Latched
  /\ spawned' = spawned + 1
  /\ entry' = spawned + 1
  /\ boot' = [phase |-> "health", child |-> spawned + 1]
  /\ UNCHANGED <<child, signalled, killed, drain, held, mover, stop, awaited,
                 stray>>

\* The health probe got its answer; afterSpawn is awaited next.
Healthy ==
  /\ boot.phase = "health"
  /\ child[boot.child] = "serving"
  /\ boot' = [boot EXCEPT !.phase = "after"]
  /\ UNCHANGED <<child, spawned, signalled, killed, entry, drain, held, mover,
                 stop, awaited, stray>>

Booted ==
  /\ boot.phase = "after"
  /\ boot' = NoBoot
  /\ UNCHANGED <<child, spawned, signalled, killed, entry, drain, held, mover,
                 stop, awaited, stray>>

\* kill() and the end of the boot; the exit is not waited for.
LetGo(k) ==
  /\ signalled' = signalled \cup {k}
  /\ stray' = IF Alive(k) THEN stray \cup {k} ELSE stray
  /\ boot' = NoBoot
  /\ UNCHANGED <<child, spawned, killed, drain, held, mover, stop, awaited>>

\* The health budget is used up.
BootTimesOut ==
  /\ boot.phase = "health"
  /\ entry' = 0
  /\ LetGo(boot.child)

AfterSpawnFails ==
  /\ boot.phase = "after"
  /\ entry' = IF entry = boot.child THEN 0 ELSE entry
  /\ LetGo(boot.child)

-----------------------------------------------------------------------------
(* The children.                                                           *)

Serve(k) ==
  /\ k \in 1..spawned
  /\ child[k] = "starting"
  /\ child' = [child EXCEPT ![k] = "serving"]
  /\ UNCHANGED <<spawned, signalled, killed, entry, drain, boot, held, mover,
                 stop, awaited, stray>>

\* On a signal, or by itself.
Die(k) ==
  /\ Alive(k)
  /\ child' = [child EXCEPT ![k] = "gone"]
  /\ UNCHANGED <<spawned, signalled, killed, entry, drain, boot, held, mover,
                 stop, awaited, stray>>

\* The exit event: the entry is reaped and the boot under way, if it still
\* waits for the child's health, fails.  Its kill() finds nobody.
ExitSeen(k) ==
  /\ k \in 1..spawned
  /\ child[k] = "gone"
  /\ child' = [child EXCEPT ![k] = "seen"]
  /\ entry' = IF entry = k THEN 0 ELSE entry
  /\ boot' = IF boot.phase = "health" /\ boot.child = k THEN NoBoot ELSE boot
  /\ UNCHANGED <<spawned, signalled, killed, drain, held, mover, stop, awaited,
                 stray>>

-----------------------------------------------------------------------------
(* sleep, and its drain.                                                   *)

\* Mutant of LiveSetOnSleep: the entry is deleted up front.
LiveSetDropped == 0

\* The entry stays for the whole drain.
LiveSetOnSleep == entry

\* A sleep that finds a drain under way joins it: nothing changes.
StartDrain ==
  IF drain[entry] # "none" THEN UNCHANGED <<drain, signalled, entry>>
  ELSE /\ drain' = [drain EXCEPT ![entry] = "term"]
       /\ signalled' = signalled \cup {entry}
       /\ entry' = LiveSetOnSleep

\* The sleep of a caller without a hold (destroy).
Sleep ==
  /\ entry # 0
  /\ drain[entry] = "none"
  /\ StartDrain
  /\ UNCHANGED <<child, spawned, killed, boot, held, mover, stop, awaited, stray>>

\* SIGTERM's budget is over: SIGKILL.
TermExpires(k) ==
  /\ drain[k] = "term"
  /\ child[k] # "seen"
  /\ drain' = [drain EXCEPT ![k] = "kill"]
  /\ killed' = killed \cup {k}
  /\ UNCHANGED <<child, spawned, signalled, entry, boot, held, mover, stop,
                 awaited, stray>>

WaitingOn(k) == {m \in Movers : mover[m].at = "sleeping" /\ mover[m].waits = k}

\* Mutant of KillExpires: the callers of the sleep are not told.
KillExpiresUntold(k) ==
  /\ drain[k] = "kill"
  /\ child[k] # "seen"
  /\ drain' = [drain EXCEPT ![k] = "none"]
  /\ UNCHANGED <<child, spawned, signalled, killed, entry, boot, held, mover,
                 stop, awaited, stray>>

\* Still there after SIGKILL: the sleep fails, and so do its callers.
KillExpires(k) ==
  /\ drain[k] = "kill"
  /\ child[k] # "seen"
  /\ drain' = [drain EXCEPT ![k] = "none"]
  /\ mover' = [m \in Movers |-> IF m \in WaitingOn(k) THEN AtRest ELSE mover[m]]
  /\ held' = held - Cardinality(WaitingOn(k))
  /\ UNCHANGED <<child, spawned, signalled, killed, entry, boot, stop, awaited,
                 stray>>

\* The exit is confirmed.
Drained(k) ==
  /\ drain[k] # "none"
  /\ child[k] = "seen"
  /\ drain' = [drain EXCEPT ![k] = "none"]
  /\ entry' = IF entry = k THEN 0 ELSE entry
  /\ mover' = [m \in Movers |->
                 IF m \in WaitingOn(k) THEN [at |-> "moving", waits |-> 0]
                 ELSE mover[m]]
  /\ UNCHANGED <<child, spawned, signalled, killed, boot, held, stop, awaited,
                 stray>>

-----------------------------------------------------------------------------
(* withQuiesced.                                                           *)

Hold(m) ==
  /\ mover[m].at = "idle"
  /\ mover' = [mover EXCEPT ![m].at = "held"]
  /\ held' = held + 1
  /\ UNCHANGED <<child, spawned, signalled, killed, entry, drain, boot, stop,
                 awaited, stray>>

\* status() answered; sleep() resolves at once when nothing is live.
Quiesce(m) ==
  /\ mover[m].at = "held"
  /\ IF entry = 0
       THEN /\ mover' = [mover EXCEPT ![m].at = "moving"]
            /\ UNCHANGED <<drain, signalled, entry>>
       ELSE /\ mover' = [mover EXCEPT ![m] = [at |-> "sleeping", waits |-> entry]]
            /\ StartDrain
  /\ UNCHANGED <<child, spawned, killed, boot, held, stop, awaited, stray>>

\* The directory has been moved or deleted.
Release(m) ==
  /\ mover[m].at = "moving"
  /\ mover' = [mover EXCEPT ![m] = AtRest]
  /\ held' = held - 1
  /\ UNCHANGED <<child, spawned, signalled, killed, entry, drain, boot, stop,
                 awaited, stray>>

-----------------------------------------------------------------------------
(* stop: the children exit before the final sync.                          *)

Stop ==
  /\ ~ closed
  /\ stop' = "term"
  /\ awaited' = {entry} \ {0}
  /\ signalled' = signalled \cup ({entry} \ {0})
  /\ entry' = 0
  /\ UNCHANGED <<child, spawned, killed, drain, boot, held, mover, stray>>

StopExpires ==
  /\ stop = "term"
  /\ \E k \in awaited : child[k] # "seen"
  /\ stop' = "kill"
  /\ killed' = killed \cup awaited
  /\ UNCHANGED <<child, spawned, signalled, entry, drain, boot, held, mover,
                 awaited, stray>>

\* All are gone, or SIGKILL's budget is over too.
Stopped ==
  /\ \/ stop \in {"term", "kill"} /\ \A k \in awaited : child[k] = "seen"
     \/ stop = "kill"
  /\ stop' = "done"
  /\ UNCHANGED <<child, spawned, signalled, killed, entry, drain, boot, held,
                 mover, awaited, stray>>

-----------------------------------------------------------------------------
BootStep == BootRefused \/ Spawn \/ Healthy \/ BootTimesOut \/ Booted \/ AfterSpawnFails
DrainStep(k) == TermExpires(k) \/ KillExpires(k) \/ Drained(k) \/ ExitSeen(k)
MoveStep(m) == Quiesce(m) \/ Release(m)
StopStep == StopExpires \/ Stopped

Next ==
  \/ EnsureAwake
  \/ BootStep
  \/ \E k \in Children : Serve(k) \/ Die(k) \/ DrainStep(k)
  \/ Sleep
  \/ \E m \in Movers : Hold(m) \/ MoveStep(m)
  \/ Stop
  \/ StopStep

Spec == Init /\ [][Next]_vars

\* Every await of the host is bounded by a timer; the children owe nothing.
FairSpec ==
  /\ Spec
  /\ WF_vars(BootStep)
  /\ WF_vars(StopStep)
  /\ \A k \in Children : WF_vars(DrainStep(k))
  /\ \A m \in Movers : WF_vars(MoveStep(m))

-----------------------------------------------------------------------------
(* Properties.                                                             *)

TypeOK ==
  /\ child \in [Children -> {"starting", "serving", "gone", "seen"}]
  /\ spawned \in 0..MaxSpawns
  /\ signalled \subseteq Children
  /\ killed \subseteq Children
  /\ entry \in 0..MaxSpawns
  /\ drain \in [Children -> {"none", "term", "kill"}]
  /\ boot \in [phase : {"none", "port", "health", "after"}, child : 0..MaxSpawns]
  /\ held \in Nat
  /\ mover \in [Movers -> [at : {"idle", "held", "sleeping", "moving"},
                           waits : 0..MaxSpawns]]
  /\ stop \in {"open", "term", "kill", "done"}
  /\ awaited \subseteq Children
  /\ stray \subseteq Children

\* A runtime that nobody has told to go is the one the launcher lists, and
\* there is none once the host shuts down: no dispatch, boot, sleep or
\* shutdown, in any order, leaves an orphan (process.ts, PRODUCT-1399).
NoOrphan ==
  \A k \in Children : (Alive(k) /\ k \notin signalled) => entry = k /\ ~ closed

\* While a directory is moved or deleted no runtime of the agent lives, but
\* for what a failed boot let go of and what the shutdown has signalled.
QuietWhileMoved ==
  (\E m \in Movers : mover[m].at = "moving") =>
    \A k \in Children :
      Alive(k) => k \in stray \/ (closed /\ k \in signalled)

\* Two runtimes over one directory: only if a failed boot let go of one.
OneRuntimeButStrays ==
  \A k, j \in Children :
    Alive(k) /\ Alive(j) /\ k # j => k \in stray \/ j \in stray

\* "A dispatch arriving in that window respawned a SECOND runtime over the
\* same directory" (process-types.ts) does not happen again.
OneRuntimePerDirectory ==
  \A k, j \in Children : Alive(k) /\ Alive(j) => k = j

\* The final sync walks the files when every runtime is gone, but for one
\* that outlives its SIGKILL and what a failed boot let go of.
QuietAtFinalSync ==
  stop = "done" => \A k \in Children : Alive(k) => k \in stray \cup killed

\* A move is never stuck behind a runtime, and a boot never keeps its
\* callers: whatever the children do, each ends, one way or the other.
NobodyWaitsForEver ==
  /\ \A m \in Movers : [](mover[m].at # "idle" => <>(mover[m].at = "idle"))
  /\ [](boot.phase # "none" => <>(boot.phase = "none"))
=============================================================================
