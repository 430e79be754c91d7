------------------------- MODULE RuntimeLauncherProofs -------------------------
(***************************************************************************)
(* Proofs about RuntimeLauncher, for any finite set of movers and any      *)
(* number of children: the types, and the four safety properties that the  *)
(* run Launcher checks.                                                    *)
(***************************************************************************)
EXTENDS RuntimeLauncher, FiniteSetTheorems, TLAPS

-----------------------------------------------------------------------------
(* The inductive invariant.                                                *)

\* The movers between hold() and release().
Holders == {m \in Movers : mover[m].at # "idle"}

\* hold() is a reference count.
HeldInv == held = Cardinality(Holders)

\* Only the child of the boot under way can be in the live-set, and what is
\* listed has been spawned.
BootInv ==
  /\ entry \in 0..spawned
  /\ boot.phase = "port" => entry = 0 /\ spawned < MaxSpawns
  /\ boot.phase \in {"health", "after"}
       => boot.child \in 1..spawned /\ entry \in {0, boot.child}

\* The shutdown empties the live-set for good, and looks after what was in it.
StopInv ==
  /\ closed => entry = 0
  /\ \A k, j \in awaited : k = j
  /\ awaited \subseteq signalled
  /\ stop = "kill" => awaited \subseteq killed
  /\ stop = "done" => \A k \in awaited : child[k] = "seen" \/ k \in killed

\* A child that lives is listed, let go of by a failed boot, or awaited by the
\* shutdown.
Accounted ==
  \A k \in Children :
    Alive(k) => entry = k \/ k \in stray \/ (closed /\ k \in awaited)

\* A mover that waits, waits for what is listed; one that moves, found nothing.
MoveInv ==
  \A m \in Movers :
    /\ mover[m].at = "sleeping" => entry \in {0, mover[m].waits}
    /\ mover[m].at = "moving" => entry = 0

IInv == TypeOK /\ HeldInv /\ BootInv /\ StopInv /\ Accounted /\ NoOrphan /\ MoveInv

-----------------------------------------------------------------------------
(* The reference count and the types.                                      *)

LEMMA HoldersFinite == IsFiniteSet(Holders)
<1>1. Holders \subseteq Movers
  BY DEF Holders
<1> QED BY <1>1, LauncherAssumption, FS_Subset

\* A step that moves no mover into or out of "idle" keeps the count.
LEMMA HeldSame ==
  ASSUME HeldInv, held' = held,
         \A m \in Movers : mover'[m].at = "idle" <=> mover[m].at = "idle"
  PROVE  HeldInv'
<1>1. Holders' = Holders
  BY DEF Holders
<1> QED BY <1>1 DEF HeldInv

\* The sleep's callers go, and the count goes down by as many.
LEMMA HeldKillExpires ==
  ASSUME TypeOK, HeldInv, NEW k \in Children, KillExpires(k)
  PROVE  HeldInv'
<1>1. WaitingOn(k) \subseteq Holders
  BY DEF WaitingOn, Holders
<1>2. Holders' = Holders \ WaitingOn(k)
  <2>1. \A m \in Movers : mover'[m] = IF m \in WaitingOn(k) THEN AtRest ELSE mover[m]
    BY DEF KillExpires
  <2> QED BY <2>1 DEF Holders, AtRest
<1>3. Holders \cap WaitingOn(k) = WaitingOn(k)
  BY <1>1
<1>4. Cardinality(Holders \ WaitingOn(k))
        = Cardinality(Holders) - Cardinality(WaitingOn(k))
  BY <1>3, HoldersFinite, FS_Difference
<1> QED BY <1>2, <1>4 DEF HeldInv, KillExpires

LEMMA HeldStep == TypeOK /\ HeldInv /\ [Next]_vars => HeldInv'
<1> SUFFICES ASSUME TypeOK, HeldInv, [Next]_vars PROVE HeldInv'
  OBVIOUS
<1> USE DEF HeldInv
<1>1. CASE EnsureAwake
  BY <1>1 DEF EnsureAwake, Holders
<1>2. CASE BootStep
  BY <1>2 DEF BootStep, BootRefused, Spawn, Healthy, BootTimesOut, Booted,
              AfterSpawnFails, LetGo, Holders
<1>3. ASSUME NEW k \in Children, Serve(k) \/ Die(k) \/ TermExpires(k) \/ ExitSeen(k)
      PROVE  HeldInv'
  BY <1>3 DEF Serve, Die, TermExpires, ExitSeen, Holders
<1>4. ASSUME NEW k \in Children, KillExpires(k) PROVE HeldInv'
  BY <1>4, HeldKillExpires
<1>5. ASSUME NEW k \in Children, Drained(k) PROVE HeldInv'
  <2>1. \A m \in Movers :
          mover'[m] = IF m \in WaitingOn(k) THEN [at |-> "moving", waits |-> 0]
                      ELSE mover[m]
    BY <1>5 DEF Drained
  <2>2. \A m \in Movers : mover'[m].at = "idle" <=> mover[m].at = "idle"
    BY <2>1 DEF WaitingOn
  <2> QED BY <1>5, <2>2, HeldSame DEF Drained
<1>6. CASE Sleep
  BY <1>6 DEF Sleep, Holders
<1>7. ASSUME NEW m \in Movers, Hold(m) PROVE HeldInv'
  <2>1. Holders' = Holders \cup {m} /\ m \notin Holders
    BY <1>7 DEF Hold, Holders, TypeOK
  <2> QED BY <1>7, <2>1, HoldersFinite, FS_AddElement DEF Hold
<1>8. ASSUME NEW m \in Movers, Quiesce(m) PROVE HeldInv'
  <2>1. \A n \in Movers : mover'[n].at = "idle" <=> mover[n].at = "idle"
    BY <1>8 DEF Quiesce, TypeOK
  <2> QED BY <1>8, <2>1, HeldSame DEF Quiesce
<1>9. ASSUME NEW m \in Movers, Release(m) PROVE HeldInv'
  <2>1. Holders' = Holders \ {m} /\ m \in Holders
    BY <1>9 DEF Release, Holders, AtRest, TypeOK
  <2> QED BY <1>9, <2>1, HoldersFinite, FS_RemoveElement DEF Release
<1>10. CASE Stop \/ StopStep
  BY <1>10 DEF Stop, StopStep, StopExpires, Stopped, Holders
<1>11. CASE UNCHANGED vars
  BY <1>11 DEF vars, Holders
<1> QED BY <1>1, <1>2, <1>3, <1>4, <1>5, <1>6, <1>7, <1>8, <1>9, <1>10, <1>11
        DEF Next, DrainStep, MoveStep

\* The sleep of a caller keeps the types.
LEMMA StartDrainType ==
  ASSUME TypeOK, entry # 0, StartDrain
  PROVE  /\ drain' \in [Children -> {"none", "term", "kill"}]
         /\ signalled' \subseteq Children
         /\ entry' = entry
<1>1. entry \in Children
  BY DEF TypeOK, Children
<1> QED BY <1>1 DEF StartDrain, LiveSetOnSleep, TypeOK

LEMMA TypeStep == TypeOK /\ BootInv /\ HeldInv' /\ [Next]_vars => TypeOK'
<1> SUFFICES ASSUME TypeOK, BootInv, HeldInv', [Next]_vars PROVE TypeOK'
  OBVIOUS
<1>a. held' \in Nat
  <2>1. Holders' \subseteq Movers
    BY DEF Holders
  <2> QED BY <2>1, LauncherAssumption, FS_Subset, FS_CardinalityType DEF HeldInv
<1> USE LauncherAssumption DEF TypeOK
<1>1. CASE EnsureAwake
  BY <1>1 DEF EnsureAwake
<1>2. CASE BootRefused
  BY <1>2 DEF BootRefused, NoBoot
<1>3. CASE Spawn
  BY <1>3 DEF Spawn, BootInv
<1>4. CASE Healthy \/ Booted
  BY <1>4 DEF Healthy, Booted, NoBoot
<1>5. CASE BootTimesOut \/ AfterSpawnFails
  <2>1. boot.child \in Children
    BY <1>5 DEF BootTimesOut, AfterSpawnFails, BootInv, Children
  <2> QED BY <1>5, <2>1 DEF BootTimesOut, AfterSpawnFails, LetGo, NoBoot
<1>6. ASSUME NEW k \in Children, Serve(k) \/ Die(k) \/ ExitSeen(k) PROVE TypeOK'
  BY <1>6 DEF Serve, Die, ExitSeen, NoBoot
<1>7. ASSUME NEW k \in Children, TermExpires(k) PROVE TypeOK'
  BY <1>7 DEF TermExpires
<1>8. ASSUME NEW k \in Children, KillExpires(k) PROVE TypeOK'
  BY <1>a, <1>8 DEF KillExpires, AtRest
<1>9. ASSUME NEW k \in Children, Drained(k) PROVE TypeOK'
  BY <1>9 DEF Drained
<1>10. CASE Sleep
  BY <1>10, StartDrainType DEF Sleep
<1>11. ASSUME NEW m \in Movers, Hold(m) PROVE TypeOK'
  BY <1>11 DEF Hold
<1>12. ASSUME NEW m \in Movers, Quiesce(m) PROVE TypeOK'
  BY <1>12, StartDrainType DEF Quiesce
<1>13. ASSUME NEW m \in Movers, Release(m) PROVE TypeOK'
  BY <1>a, <1>13 DEF Release, AtRest
<1>14. CASE Stop
  BY <1>14 DEF Stop, Children
<1>15. CASE StopStep
  BY <1>15 DEF StopStep, StopExpires, Stopped
<1>16. CASE UNCHANGED vars
  BY <1>16 DEF vars
<1> QED BY <1>1, <1>2, <1>3, <1>4, <1>5, <1>6, <1>7, <1>8, <1>9, <1>10, <1>11,
           <1>12, <1>13, <1>14, <1>15, <1>16
        DEF Next, BootStep, DrainStep, MoveStep

-----------------------------------------------------------------------------
(* The live-set, the boot and the shutdown.                                *)

\* A sleep changes neither the boot nor the live-set.
LEMMA SleepKeepsEntry ==
  ASSUME StartDrain
  PROVE  entry' = entry /\ signalled \subseteq signalled'
BY DEF StartDrain, LiveSetOnSleep

LEMMA BootStepInv == TypeOK /\ BootInv /\ [Next]_vars => BootInv'
<1> SUFFICES ASSUME TypeOK, BootInv, [Next]_vars PROVE BootInv'
  OBVIOUS
<1> USE DEF BootInv, TypeOK
<1>1. CASE EnsureAwake
  BY <1>1 DEF EnsureAwake
<1>2. CASE BootStep
  BY <1>2 DEF BootStep, BootRefused, Spawn, Healthy, BootTimesOut, Booted,
              AfterSpawnFails, LetGo, NoBoot
<1>3. ASSUME NEW k \in Children, Serve(k) \/ Die(k) \/ DrainStep(k) PROVE BootInv'
  BY <1>3 DEF Serve, Die, DrainStep, TermExpires, KillExpires, Drained, ExitSeen,
              NoBoot
<1>4. CASE Sleep
  BY <1>4, SleepKeepsEntry DEF Sleep
<1>5. ASSUME NEW m \in Movers, Hold(m) \/ MoveStep(m) PROVE BootInv'
  BY <1>5, SleepKeepsEntry DEF Hold, MoveStep, Quiesce, Release
<1>6. CASE Stop \/ StopStep
  BY <1>6 DEF Stop, StopStep, StopExpires, Stopped
<1>7. CASE UNCHANGED vars
  BY <1>7 DEF vars
<1> QED BY <1>1, <1>2, <1>3, <1>4, <1>5, <1>6, <1>7 DEF Next

LEMMA StopStepInv ==
  TypeOK /\ BootInv /\ StopInv /\ [Next]_vars => StopInv'
<1> SUFFICES ASSUME TypeOK, BootInv, StopInv, [Next]_vars PROVE StopInv'
  OBVIOUS
<1> USE DEF StopInv, TypeOK, closed
<1>1. CASE EnsureAwake
  BY <1>1 DEF EnsureAwake
<1>2. CASE BootStep
  BY <1>2 DEF BootStep, BootRefused, Spawn, Healthy, BootTimesOut, Booted,
              AfterSpawnFails, LetGo, Latched, BootInv
<1>3. ASSUME NEW k \in Children, Serve(k) \/ Die(k) \/ ExitSeen(k) PROVE StopInv'
  BY <1>3 DEF Serve, Die, ExitSeen, Alive
<1>4. ASSUME NEW k \in Children, TermExpires(k) \/ KillExpires(k) \/ Drained(k)
      PROVE  StopInv'
  BY <1>4 DEF TermExpires, KillExpires, Drained
<1>5. CASE Sleep
  BY <1>5, SleepKeepsEntry DEF Sleep
<1>6. ASSUME NEW m \in Movers, Hold(m) \/ MoveStep(m) PROVE StopInv'
  BY <1>6, SleepKeepsEntry DEF Hold, MoveStep, Quiesce, Release
<1>7. CASE Stop
  BY <1>7 DEF Stop
<1>8. CASE StopStep
  BY <1>8 DEF StopStep, StopExpires, Stopped
<1>9. CASE UNCHANGED vars
  BY <1>9 DEF vars
<1> QED BY <1>1, <1>2, <1>3, <1>4, <1>5, <1>6, <1>7, <1>8, <1>9
        DEF Next, DrainStep

\* No child is forgotten, and none that nobody told to go is unlisted.
LEMMA AccountStep ==
  TypeOK /\ BootInv /\ StopInv /\ Accounted /\ NoOrphan /\ [Next]_vars
    => Accounted' /\ NoOrphan'
<1> SUFFICES ASSUME TypeOK, BootInv, StopInv, Accounted, NoOrphan, [Next]_vars
             PROVE  Accounted' /\ NoOrphan'
  OBVIOUS
<1> USE DEF Accounted, NoOrphan, Alive, closed, TypeOK
<1>1. CASE EnsureAwake
  BY <1>1 DEF EnsureAwake
<1>2. CASE BootRefused \/ Healthy \/ Booted
  BY <1>2 DEF BootRefused, Healthy, Booted
<1>3. CASE Spawn
  <2>1. entry = 0 /\ stop = "open"
    BY <1>3 DEF Spawn, BootInv, Latched
  <2>2. \A k \in Children : Alive(k)' => Alive(k) \/ k = spawned + 1
    BY <1>3 DEF Spawn
  <2>3. \A k \in Children : Alive(k) => k # 0
    BY DEF Children
  <2> HIDE DEF Alive
  <2> QED BY <1>3, <2>1, <2>2, <2>3 DEF Spawn
<1>4. CASE BootTimesOut \/ AfterSpawnFails
  <2>1. /\ entry \in {0, boot.child} /\ boot.child \in Children
        /\ entry' = 0 \/ entry' = entry
        /\ LetGo(boot.child)
    BY <1>4 DEF BootTimesOut, AfterSpawnFails, BootInv, Children
  <2>2. \A k \in Children : Alive(k) => k # 0
    BY DEF Children
  <2>3. \A k \in Children : Alive(k)' <=> Alive(k)
    BY <2>1 DEF LetGo
  <2> HIDE DEF Alive
  <2> QED BY <2>1, <2>2, <2>3 DEF LetGo
<1>5. ASSUME NEW k \in Children, Serve(k) \/ Die(k) \/ ExitSeen(k)
      PROVE  Accounted' /\ NoOrphan'
  BY <1>5 DEF Serve, Die, ExitSeen
<1>6. ASSUME NEW k \in Children, TermExpires(k) \/ KillExpires(k) \/ Drained(k)
      PROVE  Accounted' /\ NoOrphan'
  BY <1>6 DEF TermExpires, KillExpires, Drained
<1>7. CASE Sleep
  BY <1>7, SleepKeepsEntry DEF Sleep
<1>8. ASSUME NEW m \in Movers, Hold(m) \/ MoveStep(m)
      PROVE  Accounted' /\ NoOrphan'
  BY <1>8, SleepKeepsEntry DEF Hold, MoveStep, Quiesce, Release
<1>9. CASE Stop
  BY <1>9 DEF Stop, Children
<1>10. CASE StopStep
  BY <1>10 DEF StopStep, StopExpires, Stopped
<1>11. CASE UNCHANGED vars
  BY <1>11 DEF vars
<1> QED BY <1>1, <1>2, <1>3, <1>4, <1>5, <1>6, <1>7, <1>8, <1>9, <1>10, <1>11
        DEF Next, BootStep, DrainStep

\* While a mover holds, nothing is spawned.
LEMMA HeldIsPositive ==
  ASSUME TypeOK, HeldInv, NEW m \in Movers, mover[m].at # "idle"
  PROVE  held > 0
<1>1. Holders # {}
  BY DEF Holders
<1>2. Cardinality(Holders) \in Nat /\ Cardinality(Holders) # 0
  BY <1>1, HoldersFinite, FS_CardinalityType, FS_EmptySet
<1> QED BY <1>2 DEF HeldInv

LEMMA MoveStepInv ==
  TypeOK /\ HeldInv /\ BootInv /\ MoveInv /\ [Next]_vars => MoveInv'
<1> SUFFICES ASSUME TypeOK, HeldInv, BootInv, MoveInv, [Next]_vars PROVE MoveInv'
  OBVIOUS
<1> USE DEF MoveInv, TypeOK
<1>1. CASE EnsureAwake
  BY <1>1 DEF EnsureAwake
<1>2. CASE Spawn
  <2>1. \A m \in Movers : mover[m].at = "idle"
    BY <1>2, HeldIsPositive DEF Spawn, Latched
  <2> QED BY <1>2, <2>1 DEF Spawn
<1>3. CASE BootStep /\ ~ Spawn
  BY <1>3 DEF BootStep, BootRefused, Healthy, BootTimesOut, Booted,
              AfterSpawnFails, LetGo
<1>4. ASSUME NEW k \in Children, Serve(k) \/ Die(k) \/ TermExpires(k) \/ ExitSeen(k)
      PROVE  MoveInv'
  BY <1>4 DEF Serve, Die, TermExpires, ExitSeen
<1>5. ASSUME NEW k \in Children, KillExpires(k) PROVE MoveInv'
  BY <1>5 DEF KillExpires, AtRest
<1>6. ASSUME NEW k \in Children, Drained(k) PROVE MoveInv'
  <2>1. \A m \in WaitingOn(k) : entry \in {0, k}
    BY DEF WaitingOn
  <2> QED BY <1>6, <2>1 DEF Drained
<1>7. CASE Sleep
  BY <1>7, SleepKeepsEntry DEF Sleep
<1>8. ASSUME NEW m \in Movers, Hold(m) \/ MoveStep(m) PROVE MoveInv'
  BY <1>8, SleepKeepsEntry DEF Hold, MoveStep, Quiesce, Release, AtRest
<1>9. CASE Stop \/ StopStep
  BY <1>9 DEF Stop, StopStep, StopExpires, Stopped
<1>10. CASE UNCHANGED vars
  BY <1>10 DEF vars
<1> QED BY <1>1, <1>2, <1>3, <1>4, <1>5, <1>6, <1>7, <1>8, <1>9, <1>10
        DEF Next, DrainStep

-----------------------------------------------------------------------------
(* The theorems.                                                           *)

LEMMA IInvInit == Init => IInv
<1> SUFFICES ASSUME Init PROVE IInv
  OBVIOUS
<1> USE DEF Init
<1>1. TypeOK
  BY LauncherAssumption DEF TypeOK, NoBoot, AtRest
<1>2. HeldInv
  <2>1. Holders = {}
    BY DEF Holders, AtRest
  <2> QED BY <2>1, FS_EmptySet DEF HeldInv
<1>3. BootInv /\ StopInv /\ MoveInv
  BY DEF BootInv, StopInv, MoveInv, NoBoot, AtRest, closed
<1>4. Accounted /\ NoOrphan
  BY DEF Accounted, NoOrphan, Alive
<1> QED BY <1>1, <1>2, <1>3, <1>4 DEF IInv

LEMMA IInvStep == IInv /\ [Next]_vars => IInv'
BY HeldStep, TypeStep, BootStepInv, StopStepInv, AccountStep, MoveStepInv DEF IInv

\* The strengthened invariant holds in every reachable state.
THEOREM Invariant == Spec => []IInv
BY IInvInit, IInvStep, PTL DEF Spec

\* The types are an invariant.
THEOREM TypeCorrect == Spec => []TypeOK
<1>1. IInv => TypeOK
  BY DEF IInv
<1> QED BY <1>1, Invariant, PTL

\* process.ts, process-boot.ts:29-32: whatever boots, sleeps, moves and
\* shutdowns do to each other, no child that nobody told to go is unlisted.
THEOREM NoOrphanEver == Spec => []NoOrphan
<1>1. IInv => NoOrphan
  BY DEF IInv
<1> QED BY <1>1, Invariant, PTL

\* process-boot.ts:20-28: no runtime works in a directory while it is moved.
THEOREM QuietMoves == Spec => []QuietWhileMoved
<1>1. IInv => QuietWhileMoved
  <2> SUFFICES ASSUME IInv, NEW m \in Movers, mover[m].at = "moving",
                      NEW k \in Children, Alive(k)
               PROVE  k \in stray \/ (closed /\ k \in signalled)
    BY DEF QuietWhileMoved
  <2>1. entry = 0
    BY DEF IInv, MoveInv
  <2>2. k \in stray \/ (closed /\ k \in awaited)
    BY <2>1 DEF IInv, Accounted, Children
  <2> QED BY <2>2 DEF IInv, StopInv
<1> QED BY <1>1, Invariant, PTL

\* The live-set keeps its entry for the whole drain (process-drain.ts:10-17),
\* so a directory has one runtime, but for what a failed boot let go of.
THEOREM OneRuntime == Spec => []OneRuntimeButStrays
<1>1. IInv => OneRuntimeButStrays
  <2> SUFFICES ASSUME IInv, NEW k \in Children, NEW j \in Children,
                      Alive(k), Alive(j), k # j, k \notin stray, j \notin stray
               PROVE  FALSE
    BY DEF OneRuntimeButStrays
  <2>1. entry = k \/ (closed /\ k \in awaited)
    BY DEF IInv, Accounted
  <2>2. entry = j \/ (closed /\ j \in awaited)
    BY DEF IInv, Accounted
  <2>3. k # 0 /\ j # 0
    BY DEF Children
  <2> QED BY <2>1, <2>2, <2>3 DEF IInv, StopInv
<1> QED BY <1>1, Invariant, PTL

\* process-drain.ts:47-60: the final sync starts when what was listed is gone
\* or was sent SIGKILL.
THEOREM QuietSync == Spec => []QuietAtFinalSync
<1>1. IInv => QuietAtFinalSync
  <2> SUFFICES ASSUME IInv, stop = "done", NEW k \in Children, Alive(k)
               PROVE  k \in stray \cup killed
    BY DEF QuietAtFinalSync
  <2>1. closed /\ entry = 0
    BY DEF closed, IInv, StopInv
  <2>2. k \in stray \/ k \in awaited
    BY <2>1 DEF IInv, Accounted, Children
  <2>3. child[k] # "seen"
    BY DEF Alive
  <2> QED BY <2>2, <2>3 DEF IInv, StopInv
<1> QED BY <1>1, Invariant, PTL
=============================================================================
