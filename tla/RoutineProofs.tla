------------------------------ MODULE RoutineProofs ------------------------------
(***************************************************************************)
(* Proofs about the routine scheduler.  RoutineRuns, for any set of sweeps *)
(* and any number of runs, edits and restarts: the types, that the run in  *)
(* flight is never lost from its file, that an end is final, and that a    *)
(* run is settled by the reply to its own turn while nobody else writes in *)
(* its conversation.  RoutineClock, for any schedule, any grace, any TTL   *)
(* of the fire lock, any number of overlapping scans, and restarts at any  *)
(* time: a due instant is fired once while its lock lasts, and none is     *)
(* skipped.                                                                *)
(***************************************************************************)
EXTENDS RoutineRuns, RoutineClock, WellFoundedInduction, TLAPS

-----------------------------------------------------------------------------
(* The queue.  One edit at a time is under way, and nothing else changes   *)
(* the file: what it is about to save is the file as it is, but for the    *)
(* one row it is about.                                                    *)

\* The file with the row of a new run.
Fired ==
  [r \in Runs |->
     IF r = recorded + 1 THEN "running"
     ELSE IF r <= recorded /\ Prunes(r) THEN "pruned" ELSE run[r]]

\* What an edit under way holds.
EditOK(e) ==
  /\ e.run \in Runs
  /\ e.by = "fire" => Running = {} /\ e.run = recorded + 1 /\ e.rows = Fired
  /\ e.by # "fire" => e.run \in Running
  /\ e.by = "failure" => /\ e.rows = Marked(e.run, "error")
                         /\ fire[e.run] = "marking"
  /\ e.by = "user" => e.rows = Marked(e.run, "cancelled")
  /\ e.by \in Sweeps => /\ sweep[e.by].at = "save" /\ sweep[e.by].run = e.run
                        /\ e.rows = Marked(e.run, sweep[e.by].new)

EditsInv ==
  /\ \A e \in edits : EditOK(e)
  /\ \A d, e \in edits : d = e

\* A sweep that is under way names a run, and what becomes of it.
SweepInv ==
  \A w \in Sweeps :
    sweep[w].at # "idle" => /\ sweep[w].run \in 1..recorded
                            /\ sweep[w].new \in {"done", "error"}

\* What is not yet recorded has left no trace.
Unrecorded ==
  \A r \in Runs : r > recorded => run[r] = "none" /\ fire[r] = "none"

\* Only the newest run may be in flight (run.ts:45-49).
OneRunning == \A r \in Running : r = recorded

RowInv == EditsInv /\ SweepInv /\ Unrecorded /\ OneRunning

By == Sweeps \cup {"fire", "failure", "user"}
EditType == [by : By, run : Runs, rows : Rows]

\* A run is a number, and 0 stands for none.
LEMMA RunsAre == Runs \subseteq 0..MaxRuns /\ 0 \in 0..MaxRuns /\ Runs \subseteq Nat
BY RoutineAssumption DEF Runs

\* What an edit loads, it will save.
LEMMA LoadType ==
  ASSUME TypeOK, NEW by \in By, NEW r \in Runs, NEW rows \in Rows, Load(by, r, rows)
  PROVE  edits' \subseteq EditType
<1>1. [by |-> by, run |-> r, rows |-> rows] \in EditType
  BY DEF EditType
<1> QED BY <1>1 DEF Load, TypeOK, EditType, By

LEMMA MarkedType ==
  ASSUME TypeOK, NEW r \in Runs, NEW status \in Statuses
  PROVE  Marked(r, status) \in Rows
BY DEF Marked, TypeOK, Rows

LEMMA FiredType == ASSUME TypeOK PROVE Fired \in Rows
<1>1. \A r \in Runs :
        (IF r = recorded + 1 THEN "running"
         ELSE IF r <= recorded /\ Prunes(r) THEN "pruned" ELSE run[r]) \in Statuses
  BY DEF TypeOK, Rows, Statuses
<1> QED BY <1>1 DEF Fired, Rows

LEMMA HeadAndTail ==
  ASSUME NEW T, NEW s \in Seq(T), s # <<>>
  PROVE  Tail(s) \in Seq(T) /\ Head(s) \in T
OBVIOUS

\* The turn that ends is answered.
LEMMA AnswersType ==
  ASSUME TypeOK, turns # <<>>
  PROVE  /\ Tail(turns) \in Seq(0..MaxRuns) /\ Head(turns) \in 0..MaxRuns
<1>1. turns \in Seq(0..MaxRuns)
  BY DEF TypeOK
<1> QED BY <1>1, HeadAndTail

\* An edit saves what was loaded.
LEMMA SaveType ==
  ASSUME TypeOK, NEW e \in edits, Save(e)
  PROVE  /\ edits' \subseteq EditType /\ run' \in Rows /\ old' \in BOOLEAN
         /\ e.run \in Runs /\ e.by \in By
BY DEF Save, TypeOK, EditType, By

LEMMA TypeStep == TypeOK /\ RowInv /\ [Next]_vars => TypeOK'
<1> SUFFICES ASSUME TypeOK, RowInv, [Next]_vars PROVE TypeOK'
  OBVIOUS
<1>0. edits \subseteq EditType
  BY DEF TypeOK, EditType, By
<1>1. CASE LoadFire
  <2>1. recorded + 1 \in Runs
    BY <1>1, RoutineAssumption DEF LoadFire, TypeOK, Runs
  <2>2. edits' \subseteq EditType
    BY <1>1, <2>1, FiredType, LoadType DEF LoadFire, Fired, By
  <2> QED BY <1>1, <2>2 DEF LoadFire, TypeOK, EditType, By, files, history
<1>2. ASSUME NEW r \in Runs, FireStep(r) PROVE TypeOK'
  <2>1. Append(turns, r) \in Seq(0..MaxRuns)
    BY RunsAre DEF TypeOK
  <2>2. fire' \in [Runs -> {"none", "posting", "failed", "marking", "done"}]
    BY <1>2 DEF FireStep, Accept, Refuse, LoseAnswer, TypeOK
  <2> QED BY <1>2, <2>1, <2>2
          DEF FireStep, Accept, Refuse, LoseAnswer, TypeOK, files, runtime, history
<1>3. ASSUME NEW r \in Runs, LoadFailure(r) PROVE TypeOK'
  <2>1. edits' \subseteq EditType
    <3>1. Marked(r, "error") \in Rows
      BY MarkedType DEF Statuses
    <3> QED BY <1>0, <1>3, <3>1, LoadType DEF LoadFailure, By
  <2>2. fire' \in [Runs -> {"none", "posting", "failed", "marking", "done"}]
    BY <1>3 DEF LoadFailure, TypeOK
  <2> QED BY <1>3, <2>1, <2>2
          DEF LoadFailure, TypeOK, EditType, By, files, runtime, history
<1>4. ASSUME NEW r \in Runs, LoadCancel(r) PROVE TypeOK'
  <2>1. edits' \subseteq EditType
    <3>1. Marked(r, "cancelled") \in Rows
      BY MarkedType DEF Statuses
    <3> QED BY <1>4, <3>1, LoadType DEF LoadCancel, By
  <2> QED BY <1>4, <2>1 DEF LoadCancel, TypeOK, EditType, By, files, runtime, history
<1>5. ASSUME NEW r \in Runs, Abort(r) PROVE TypeOK'
  <2>1. /\ turns' \in Seq(0..MaxRuns) /\ last' \in 0..MaxRuns /\ replied' \subseteq Runs
    <3>1. CASE UNCHANGED <<turns, last, replied>>
      BY <3>1 DEF TypeOK
    <3>2. CASE Answers
      BY <3>2, AnswersType DEF Answers, Writes
    <3> QED BY <1>5, <3>1, <3>2 DEF Abort
  <2> QED BY <1>5, <2>1 DEF Abort, TypeOK, files, history
<1>6. ASSUME NEW w \in Sweeps, Judge(w) PROVE TypeOK'
  <2>1. PICK r \in Running :
          sweep' = [sweep EXCEPT ![w] =
                      [at |-> "apply", run |-> r,
                       new |-> IF Replied(r) THEN "done" ELSE "error",
                       own |-> Replied(r) => last = r]]
    BY <1>6 DEF Judge
  <2>2. r \in 0..MaxRuns
    BY <2>1, RunsAre DEF Running
  <2>3. PICK own : own = (Replied(r) => last = r) /\ own \in BOOLEAN
    OBVIOUS
  <2>4. PICK new : new = (IF Replied(r) THEN "done" ELSE "error")
                   /\ new \in {"none", "done", "error"}
    OBVIOUS
  <2>5. sweep' = [sweep EXCEPT ![w] = [at |-> "apply", run |-> r, new |-> new, own |-> own]]
    BY <2>1, <2>3, <2>4, Zenon
  <2>6. sweep' \in [Sweeps -> [at : {"idle", "apply", "save"}, run : 0..MaxRuns,
                               new : {"none", "done", "error"}, own : BOOLEAN]]
    BY <2>2, <2>3, <2>4, <2>5 DEF TypeOK
  <2> QED BY <1>6, <2>6 DEF Judge, TypeOK, files, runtime, history
<1>7. ASSUME NEW w \in Sweeps, LoadSettled(w) PROVE TypeOK'
  <2>1. edits' \subseteq EditType
    <3>1. CASE StillRuns(sweep[w].run)
      <4>1. sweep[w].run \in Runs /\ sweep[w].new \in Statuses
        BY <1>7, <3>1 DEF LoadSettled, RowInv, SweepInv, StillRuns, Running, Statuses
      <4>2. Marked(sweep[w].run, sweep[w].new) \in Rows
        BY <4>1, MarkedType
      <4> QED BY <1>7, <3>1, <4>1, <4>2, LoadType DEF LoadSettled, By
    <3>2. CASE ~ StillRuns(sweep[w].run)
      BY <1>0, <1>7, <3>2 DEF LoadSettled
    <3> QED BY <3>1, <3>2
  <2>2. sweep' \in [Sweeps -> [at : {"idle", "apply", "save"}, run : 0..MaxRuns,
                               new : {"none", "done", "error"}, own : BOOLEAN]]
    <3>1. \/ sweep' = [sweep EXCEPT ![w].at = "save"]
          \/ sweep' = [sweep EXCEPT ![w] = Idle]
      BY <1>7 DEF LoadSettled
    <3>2. CASE sweep' = [sweep EXCEPT ![w].at = "save"]
      BY <3>2 DEF TypeOK
    <3>3. CASE sweep' = [sweep EXCEPT ![w] = Idle]
      BY <3>3, RunsAre DEF TypeOK, Idle
    <3> QED BY <3>1, <3>2, <3>3
  <2> QED BY <1>7, <2>1, <2>2
          DEF LoadSettled, TypeOK, EditType, By, files, runtime, history
<1>8. ASSUME NEW e \in edits, Record(e) PROVE TypeOK'
  <2>1. /\ edits' \subseteq EditType /\ run' \in Rows /\ old' \in BOOLEAN
        /\ e.run \in Runs /\ e.run \in 0..MaxRuns
    BY <1>8, SaveType, RunsAre DEF Record
  <2> QED BY <1>8, <2>1 DEF Record, TypeOK, EditType, By, runtime, history
<1>9. ASSUME NEW e \in edits, MarkErrored(e) PROVE TypeOK'
  <2>1. /\ edits' \subseteq EditType /\ run' \in Rows /\ old' \in BOOLEAN
        /\ e.run \in Runs
    BY <1>9, SaveType DEF MarkErrored
  <2> QED BY <1>9, <2>1 DEF MarkErrored, TypeOK, EditType, By, runtime, history
<1>10. ASSUME NEW e \in edits, Settle(e) PROVE TypeOK'
  <2>1. /\ edits' \subseteq EditType /\ run' \in Rows /\ old' \in BOOLEAN
    BY <1>10, SaveType DEF Settle
  <2>2. sweep' \in [Sweeps -> [at : {"idle", "apply", "save"}, run : 0..MaxRuns,
                               new : {"none", "done", "error"}, own : BOOLEAN]]
    BY <1>10, RunsAre DEF Settle, TypeOK, Idle
  <2>3. mistaken' \in BOOLEAN /\ derailed' \in BOOLEAN
    <3>1. /\ mistaken' = (mistaken \/ ~ sweep[e.by].own)
          /\ derailed' = (derailed \/ sweep[e.by].new = "error")
      BY <1>10 DEF Settle
    <3> QED BY <3>1, Zenon
  <2> QED BY <1>10, <2>1, <2>2, <2>3 DEF Settle, TypeOK, EditType, By, runtime
<1>11. ASSUME NEW e \in edits, CancelRow(e) PROVE TypeOK'
  <2>1. /\ edits' \subseteq EditType /\ run' \in Rows /\ old' \in BOOLEAN
        /\ e.run \in Runs
    BY <1>11, SaveType DEF CancelRow
  <2> QED BY <1>11, <2>1 DEF CancelRow, TypeOK, EditType, By, runtime
<1>12. ASSUME NEW e \in edits, SaveFails(e) PROVE TypeOK'
  <2>1. e.run \in Runs /\ e.by \in By
    BY <1>0 DEF EditType
  <2>2. fire' \in [Runs -> {"none", "posting", "failed", "marking", "done"}]
    BY <1>12, <2>1 DEF SaveFails, TypeOK
  <2>3. sweep' \in [Sweeps -> [at : {"idle", "apply", "save"}, run : 0..MaxRuns,
                               new : {"none", "done", "error"}, own : BOOLEAN]]
    BY <1>12, <2>1, RunsAre DEF SaveFails, TypeOK, Idle
  <2> QED BY <1>12, <2>2, <2>3 DEF SaveFails, TypeOK, files, runtime, history
<1>13. CASE Age \/ RewriteRoutines
  BY <1>13 DEF Age, RewriteRoutines, TypeOK, files, runtime, history
<1>14. CASE TurnEnds
  BY <1>14, AnswersType DEF TurnEnds, Answers, Writes, TypeOK, files, history
<1>15. CASE UserPosts
  <2>1. Append(turns, 0) \in Seq(0..MaxRuns)
    BY RunsAre DEF TypeOK
  <2>2. others' \in 0..MaxEvents
    BY <1>15, RoutineAssumption DEF UserPosts, Eventful, TypeOK
  <2> QED BY <1>15, <2>1, <2>2 DEF UserPosts, TypeOK, files, history
<1>16. CASE Compacts
  <2>1. others' \in 0..MaxEvents
    BY <1>16, RoutineAssumption DEF Compacts, Eventful, TypeOK
  <2> QED BY <1>16, <2>1, RunsAre DEF Compacts, Writes, TypeOK, files, history
<1>17. CASE Restart
  <2>1. fire' \in [Runs -> {"none", "posting", "failed", "marking", "done"}]
    BY <1>17 DEF Restart
  <2>2. /\ last' \in 0..MaxRuns /\ replied' \subseteq Runs /\ turns' \in Seq(0..MaxRuns)
    <3>1. CASE turns = <<>>
      BY <1>17, <3>1 DEF Restart, TypeOK
    <3>2. CASE turns # <<>>
      <4>1. Head(turns) \in 0..MaxRuns
        BY <3>2, AnswersType
      <4> QED BY <1>17, <3>2, <4>1 DEF Restart, Writes
    <3> QED BY <3>1, <3>2
  <2>3. crashes' \in 0..MaxEvents
    BY <1>17, RoutineAssumption DEF Restart, Eventful, TypeOK
  <2>4. sweep' \in [Sweeps -> [at : {"idle", "apply", "save"}, run : 0..MaxRuns,
                               new : {"none", "done", "error"}, own : BOOLEAN]]
    BY <1>17, RunsAre DEF Restart, Idle
  <2> QED BY <1>17, <2>1, <2>2, <2>3, <2>4 DEF Restart, TypeOK, files, history
<1>18. CASE UNCHANGED vars
  BY <1>18 DEF vars, files, runtime, history, TypeOK
<1> QED BY <1>1, <1>2, <1>3, <1>4, <1>5, <1>6, <1>7, <1>8, <1>9, <1>10, <1>11,
           <1>12, <1>13, <1>14, <1>15, <1>16, <1>17, <1>18 DEF Next, Write

-----------------------------------------------------------------------------
(* What a save makes of the file.                                          *)

\* Any edit but a fire's ends the run in flight, and no other row changes.
LEMMA SavedIs ==
  ASSUME TypeOK, RowInv, NEW e \in edits, e.by # "fire", Save(e)
  PROVE  /\ e.run \in Running /\ Running = {e.run} /\ Running' = {} /\ edits' = {}
         /\ run'[e.run] \in {"done", "error", "cancelled"}
         /\ \A r \in Runs : r # e.run => run'[r] = run[r]
<1>1. EditOK(e) /\ e.by \in By /\ edits' = {} /\ run' = e.rows
  BY DEF RowInv, EditsInv, Save, TypeOK, By
<1>2. e.run \in Running /\ e.run \in Runs
  BY <1>1 DEF EditOK
<1>3. Running = {e.run}
  BY <1>2 DEF RowInv, OneRunning
<1>4. PICK status \in {"done", "error", "cancelled"} : run' = Marked(e.run, status)
  <2>1. CASE e.by \in Sweeps
    BY <1>1, <2>1 DEF EditOK, RowInv, SweepInv
  <2>2. CASE e.by \in {"failure", "user"}
    BY <1>1, <2>2 DEF EditOK
  <2> QED BY <1>1, <2>1, <2>2 DEF By
<1>5. \A r \in Runs : run'[r] = IF r = e.run THEN status ELSE run[r]
  BY <1>2, <1>4 DEF Marked, TypeOK, Rows
<1>6. Running' = {}
  BY <1>3, <1>5 DEF Running
<1> QED BY <1>1, <1>2, <1>3, <1>5, <1>6

\* A fire's adds the run that is in flight from now on.
LEMMA RecordedIs ==
  ASSUME TypeOK, RowInv, NEW e \in edits, Record(e)
  PROVE  /\ e.run = recorded + 1 /\ recorded' = recorded + 1 /\ recorded \in Nat
         /\ e.run \in Runs /\ Running = {} /\ Running' = {e.run} /\ edits' = {}
         /\ \A r \in Runs : r # e.run => run'[r] \in {run[r], "pruned"}
         /\ \A r \in Runs : r > recorded + 1 => run'[r] = run[r]
<1>1. EditOK(e) /\ e.by = "fire" /\ edits' = {} /\ run' = e.rows
  BY DEF RowInv, EditsInv, Record, Save
<1>2. /\ e.run = recorded + 1 /\ recorded' = recorded + 1 /\ e.run \in Runs
      /\ Running = {} /\ run' = Fired
  BY <1>1 DEF EditOK, Record
<1>3. recorded \in Nat /\ \A r \in Runs : r \in Nat
  BY RunsAre DEF TypeOK
<1>4. \A r \in Runs : run'[r] = IF r = recorded + 1 THEN "running"
                                ELSE IF r <= recorded /\ Prunes(r) THEN "pruned"
                                ELSE run[r]
  BY <1>2 DEF Fired
<1>5. Running' = {e.run}
  BY <1>2, <1>4 DEF Running
<1>6. \A r \in Runs : r > recorded + 1 => run'[r] = run[r]
  BY <1>3, <1>4
<1> QED BY <1>1, <1>2, <1>3, <1>4, <1>5, <1>6

\* The files are only changed by a save.
LEMMA OtherSteps ==
  ASSUME TypeOK, [Next]_vars, ~ \E e \in edits : Write(e)
  PROVE  UNCHANGED <<run, recorded, mistaken>>
<1>1. CASE LoadFire \/ Age \/ TurnEnds \/ UserPosts \/ Compacts \/ RewriteRoutines
           \/ Restart \/ UNCHANGED vars
  BY <1>1 DEF LoadFire, Age, TurnEnds, UserPosts, Compacts, RewriteRoutines, Restart,
              vars, files, history
<1>2. ASSUME NEW r \in Runs, FireStep(r) \/ LoadFailure(r) \/ LoadCancel(r) \/ Abort(r)
      PROVE  UNCHANGED <<run, recorded, mistaken>>
  BY <1>2 DEF FireStep, Accept, Refuse, LoseAnswer, LoadFailure, LoadCancel, Abort,
              files, history
<1>3. ASSUME NEW w \in Sweeps, Judge(w) \/ LoadSettled(w)
      PROVE  UNCHANGED <<run, recorded, mistaken>>
  BY <1>3 DEF Judge, LoadSettled, files, history
<1>4. ASSUME NEW e \in edits, SaveFails(e) PROVE UNCHANGED <<run, recorded, mistaken>>
  BY <1>4 DEF SaveFails, files, history
<1> QED BY <1>1, <1>2, <1>3, <1>4 DEF Next

-----------------------------------------------------------------------------
(* The invariant of the rows and the edits.                                *)

\* An edit under way keeps holding what it should.
LEMMA EditStays ==
  ASSUME TypeOK, NEW e \in edits, EditOK(e), UNCHANGED <<run, recorded>>,
         fire[e.run] = "marking" => fire'[e.run] = "marking",
         e.by \in Sweeps => sweep'[e.by] = sweep[e.by]
  PROVE  EditOK(e)'
BY DEF EditOK, Running, Fired, Prunes, Marked

\* A sweep stays where it is, gives up, or names the run in flight.
SweepMoves(w) ==
  \/ sweep'[w] = sweep[w]
  \/ sweep[w].at # "save" /\ sweep'[w].at = "idle"
  \/ /\ sweep[w].at # "save" /\ sweep'[w].run \in Running
     /\ sweep'[w].new \in {"done", "error"}

LEMMA RowStep == TypeOK /\ RowInv /\ [Next]_vars => RowInv'
<1> SUFFICES ASSUME TypeOK, RowInv, [Next]_vars PROVE RowInv'
  OBVIOUS
<1>0. /\ recorded \in Nat /\ (\A r \in Runs : r \in Nat /\ r # 0)
      /\ run \in [Runs -> Statuses] /\ "fire" \notin Sweeps /\ "failure" \notin Sweeps
      /\ "user" \notin Sweeps
      /\ \A e \in edits : e.run \in Runs /\ e.by \in By
  BY RunsAre, RoutineAssumption DEF TypeOK, Rows, Runs, By
<1>1. ASSUME UNCHANGED <<run, recorded, edits>>,
             UNCHANGED fire, \A w \in Sweeps : SweepMoves(w)
      PROVE  RowInv'
  <2>1. Running' = Running /\ \A r \in Running : r = recorded /\ r \in 1..recorded
    BY <1>0, <1>1 DEF Running, RowInv, OneRunning
  <2>2. ASSUME NEW e \in edits PROVE EditOK(e)'
    <3>1. EditOK(e)
      BY DEF RowInv, EditsInv
    <3>2. fire[e.run] = "marking" => fire'[e.run] = "marking"
      BY <1>0, <1>1
    <3>3. e.by \in Sweeps => sweep'[e.by] = sweep[e.by]
      BY <1>1, <3>1 DEF EditOK, SweepMoves
    <3> QED BY <1>1, <3>1, <3>2, <3>3, EditStays
  <2>3. SweepInv'
    BY <1>1, <2>1 DEF SweepInv, RowInv, SweepMoves
  <2>4. Unrecorded'
    BY <1>0, <1>1, <2>1 DEF Unrecorded, RowInv
  <2>5. OneRunning'
    BY <1>1, <2>1 DEF OneRunning
  <2> QED BY <1>1, <2>2, <2>3, <2>4, <2>5 DEF RowInv, EditsInv
<1>2. ASSUME UNCHANGED <<run, recorded>>, edits = {},
             NEW e, edits' = {e}, EditOK(e)',
             \A r \in Runs : fire'[r] = fire[r] \/ r \in Running,
             \A w \in Sweeps : sweep[w].at = "save" => sweep'[w] = sweep[w],
             \A w \in Sweeps : \/ sweep'[w] = sweep[w]
                               \/ /\ sweep[w].at # "idle"
                                  /\ sweep'[w].run = sweep[w].run
                                  /\ sweep'[w].new = sweep[w].new
      PROVE  RowInv'
  <2>1. Running' = Running /\ \A r \in Running : r = recorded
    BY <1>2 DEF Running, RowInv, OneRunning
  <2>2. SweepInv'
    BY <1>2 DEF SweepInv, RowInv
  <2>3. Unrecorded'
    BY <1>0, <1>2, <2>1 DEF Unrecorded, RowInv
  <2> QED BY <1>2, <2>1, <2>2, <2>3 DEF RowInv, EditsInv, OneRunning
<1>3. CASE LoadFire
  <2>1. PICK e : /\ e = [by |-> "fire", run |-> recorded + 1, rows |-> Fired]
                 /\ edits' = {e} /\ edits = {} /\ Running = {}
                 /\ UNCHANGED <<run, recorded, fire, sweep>>
    BY <1>3 DEF LoadFire, Load, QueueFree, GateFree, Fired, files
  <2>2. recorded + 1 \in Runs
    BY <1>3, RoutineAssumption DEF LoadFire, TypeOK, Runs
  <2>3. /\ e.by = "fire" /\ e.run = recorded + 1 /\ e.rows = Fired
    BY <2>1
  <2>4. Running' = Running /\ Fired' = Fired
    BY <2>1 DEF Running, Fired, Prunes
  <2>5. EditOK(e)'
    BY <1>0, <2>1, <2>2, <2>3, <2>4 DEF EditOK
  <2> QED BY <1>2, <2>1, <2>5
<1>4. ASSUME NEW r \in Runs, FireStep(r) PROVE RowInv'
  <2>1. fire[r] = "posting" /\ UNCHANGED <<run, recorded, edits, sweep>>
    BY <1>4 DEF FireStep, Accept, Refuse, LoseAnswer, files
  <2>2. r <= recorded
    BY <1>0, <2>1 DEF RowInv, Unrecorded
  <2>3. fire' = [fire EXCEPT ![r] = "done"] \/ fire' = [fire EXCEPT ![r] = "failed"]
    BY <1>4 DEF FireStep, Accept, Refuse, LoseAnswer
  <2>4. \A q \in Runs : q # r => fire'[q] = fire[q]
    BY <2>3 DEF TypeOK
  <2>5. Running' = Running
    BY <2>1 DEF Running
  <2>6. \A e \in edits : EditOK(e)'
    <3> SUFFICES ASSUME NEW e \in edits PROVE EditOK(e)'
      OBVIOUS
    <3>1. EditOK(e) /\ (fire[e.run] = "marking" => e.run # r)
      BY <2>1 DEF RowInv, EditsInv
    <3>2. fire[e.run] = "marking" => fire'[e.run] = "marking"
      BY <1>0, <2>4, <3>1
    <3> QED BY <2>1, <3>1, <3>2, EditStays
  <2>7. Unrecorded'
    BY <1>0, <2>1, <2>2, <2>4 DEF Unrecorded, RowInv
  <2> QED BY <2>1, <2>5, <2>6, <2>7 DEF RowInv, EditsInv, SweepInv, OneRunning
<1>5. ASSUME NEW r \in Runs, LoadFailure(r) PROVE RowInv'
  <2>1. /\ fire[r] = "failed" /\ UNCHANGED <<run, recorded, sweep>>
        /\ edits = {}
    BY <1>5 DEF LoadFailure, files, Load, QueueFree
  <2>2. r <= recorded
    BY <1>0, <2>1 DEF RowInv, Unrecorded
  <2>3. CASE StillRuns(r)
    <3>1. PICK e : /\ e = [by |-> "failure", run |-> r, rows |-> Marked(r, "error")]
                   /\ edits' = {e}
      BY <1>5, <2>1, <2>3 DEF LoadFailure, Load
    <3>2. e.by = "failure" /\ e.run = r /\ e.rows = Marked(r, "error")
      BY <3>1
    <3>3. /\ fire'[r] = "marking" /\ \A q \in Runs : q # r => fire'[q] = fire[q]
      BY <1>5, <2>3 DEF LoadFailure, TypeOK
    <3>4. r \in Running
      BY <2>3 DEF StillRuns
    <3>5. EditOK(e)'
      BY <1>0, <2>1, <3>2, <3>3, <3>4 DEF EditOK, Running, Marked
    <3> QED BY <1>2, <2>1, <3>1, <3>3, <3>4, <3>5
  <2>4. CASE ~ StillRuns(r)
    <3>1. edits' = edits /\ \A q \in Runs : q # r => fire'[q] = fire[q]
      BY <1>5, <2>4 DEF LoadFailure, TypeOK
    <3>2. Unrecorded'
      BY <1>0, <2>1, <2>2, <3>1 DEF Unrecorded, RowInv
    <3>3. Running' = Running
      BY <2>1 DEF Running
    <3> QED BY <2>1, <3>1, <3>2, <3>3 DEF RowInv, EditsInv, SweepInv, OneRunning
  <2> QED BY <2>3, <2>4
<1>6. ASSUME NEW r \in Runs, LoadCancel(r) PROVE RowInv'
  <2>1. PICK e : /\ e = [by |-> "user", run |-> r, rows |-> Marked(r, "cancelled")]
                 /\ edits' = {e} /\ edits = {} /\ r \in Running
                 /\ UNCHANGED <<run, recorded, fire, sweep>>
    BY <1>6 DEF LoadCancel, Load, QueueFree, files
  <2>2. e.by = "user" /\ e.run = r /\ e.rows = Marked(r, "cancelled")
    BY <2>1
  <2>3. EditOK(e)'
    BY <1>0, <2>1, <2>2 DEF EditOK, Running, Marked
  <2> QED BY <1>2, <2>1, <2>3
<1>7. ASSUME NEW r \in Runs, Abort(r) PROVE RowInv'
  <2>1. UNCHANGED <<run, recorded, edits, fire, sweep>>
    BY <1>7 DEF Abort, files
  <2>2. \A w \in Sweeps : SweepMoves(w)
    BY <2>1 DEF SweepMoves
  <2> QED BY <1>1, <2>1, <2>2
<1>8. ASSUME NEW w \in Sweeps, Judge(w) PROVE RowInv'
  <2>1. PICK r \in Running, new \in {"done", "error"}, own \in BOOLEAN :
          sweep' = [sweep EXCEPT ![w] =
                      [at |-> "apply", run |-> r, new |-> new, own |-> own]]
    <3>1. PICK r \in Running :
            sweep' = [sweep EXCEPT ![w] =
                        [at |-> "apply", run |-> r,
                         new |-> IF Replied(r) THEN "done" ELSE "error",
                         own |-> Replied(r) => last = r]]
      BY <1>8 DEF Judge
    <3>2. (IF Replied(r) THEN "done" ELSE "error") \in {"done", "error"}
      OBVIOUS
    <3>3. (Replied(r) => last = r) \in BOOLEAN
      OBVIOUS
    <3> QED BY <3>1, <3>2, <3>3
  <2>2. sweep[w].at = "idle" /\ UNCHANGED <<run, recorded, edits, fire>>
    BY <1>8 DEF Judge, files
  <2>3. /\ sweep'[w].run = r /\ sweep'[w].new = new
        /\ \A v \in Sweeps : v # w => sweep'[v] = sweep[v]
    BY <2>1 DEF TypeOK
  <2>4. \A v \in Sweeps : SweepMoves(v)
    <3>1. sweep[w].at # "save" /\ sweep'[w].run \in Running
          /\ sweep'[w].new \in {"done", "error"}
      BY <2>1, <2>2, <2>3
    <3> QED BY <2>3, <3>1 DEF SweepMoves
  <2> QED BY <1>1, <2>2, <2>4
<1>9. ASSUME NEW w \in Sweeps, LoadSettled(w) PROVE RowInv'
  <2>1. /\ sweep[w].at = "apply" /\ UNCHANGED <<run, recorded, fire>>
        /\ edits = {}
    BY <1>9 DEF LoadSettled, files, Load, QueueFree
  <2>2. CASE StillRuns(sweep[w].run)
    <3>1. PICK e : /\ e = [by |-> w, run |-> sweep[w].run,
                           rows |-> Marked(sweep[w].run, sweep[w].new)]
                   /\ edits' = {e}
      BY <1>9, <2>1, <2>2 DEF LoadSettled, Load
    <3>2. /\ e.by = w /\ e.run = sweep[w].run
          /\ e.rows = Marked(sweep[w].run, sweep[w].new)
      BY <3>1
    <3>3. /\ sweep'[w].at = "save" /\ sweep'[w].run = sweep[w].run
          /\ sweep'[w].new = sweep[w].new
          /\ \A v \in Sweeps : v # w => sweep'[v] = sweep[v]
      BY <1>9, <2>2 DEF LoadSettled, TypeOK
    <3>4. e.run \in Running /\ e.run \in Runs
      BY <2>2, <3>2 DEF StillRuns, Running
    <3>5. EditOK(e)'
      BY <1>0, <2>1, <3>2, <3>3, <3>4 DEF EditOK, Running, Marked
    <3> QED BY <1>2, <2>1, <3>1, <3>3, <3>5
  <2>3. CASE ~ StillRuns(sweep[w].run)
    <3>1. edits' = edits /\ \A v \in Sweeps : sweep'[v] = IF v = w THEN Idle ELSE sweep[v]
      BY <1>9, <2>3 DEF LoadSettled, TypeOK
    <3>2. Idle.at = "idle" /\ sweep[w].at # "save"
      BY <2>1 DEF Idle
    <3>3. \A v \in Sweeps : SweepMoves(v)
      BY <3>1, <3>2 DEF SweepMoves
    <3> QED BY <1>1, <2>1, <3>1, <3>3
  <2> QED BY <2>2, <2>3
<1>10. ASSUME NEW e \in edits, Record(e) PROVE RowInv'
  <2>1. /\ e.run = recorded + 1 /\ recorded' = recorded + 1
        /\ e.run \in Runs /\ Running' = {e.run} /\ edits' = {}
        /\ \A r \in Runs : r > recorded + 1 => run'[r] = run[r]
    BY <1>10, RecordedIs
  <2>2. \A r \in Runs : r > recorded + 1 => fire'[r] = fire[r]
    BY <1>0, <1>10, <2>1 DEF Record, TypeOK
  <2>3. Unrecorded'
    BY <1>0, <2>1, <2>2 DEF Unrecorded, RowInv
  <2>4. SweepInv'
    BY <1>0, <1>10, <2>1 DEF Record, SweepInv, RowInv
  <2> QED BY <2>1, <2>3, <2>4 DEF RowInv, EditsInv, OneRunning
<1>11. ASSUME NEW e \in edits, MarkErrored(e) \/ Settle(e) \/ CancelRow(e)
       PROVE  RowInv'
  <2>1. e.by # "fire" /\ Save(e) /\ recorded' = recorded
    BY <1>0, <1>11 DEF MarkErrored, Settle, CancelRow
  <2>2. /\ e.run \in Running /\ Running' = {} /\ edits' = {}
        /\ \A r \in Runs : r # e.run => run'[r] = run[r]
    BY <2>1, SavedIs
  <2>3. e.run <= recorded /\ e.run \in Runs
    BY <1>0, <2>2 DEF RowInv, OneRunning, Running
  <2>4. \A r \in Runs : r # e.run => fire'[r] = fire[r]
    BY <1>11 DEF MarkErrored, Settle, CancelRow, TypeOK
  <2>5. Unrecorded'
    BY <1>0, <2>1, <2>2, <2>3, <2>4 DEF Unrecorded, RowInv
  <2>6. \A w \in Sweeps : sweep'[w] = sweep[w] \/ sweep'[w] = Idle
    BY <1>11 DEF MarkErrored, Settle, CancelRow, TypeOK
  <2>7. SweepInv'
    BY <2>1, <2>6 DEF SweepInv, RowInv, Idle
  <2> QED BY <2>2, <2>5, <2>7 DEF RowInv, EditsInv, OneRunning
<1>12. ASSUME NEW e \in edits, SaveFails(e) PROVE RowInv'
  <2>1. /\ edits' = {} /\ UNCHANGED <<run, recorded>>
    BY <1>12 DEF SaveFails, files, RowInv, EditsInv
  <2>2. Running' = Running
    BY <2>1 DEF Running
  <2>3. e.by = "failure" => e.run <= recorded
    BY <1>0 DEF RowInv, EditsInv, EditOK, OneRunning
  <2>4. \A r \in Runs : fire'[r] = fire[r] \/ (e.by = "failure" /\ r = e.run)
    BY <1>12 DEF SaveFails, TypeOK
  <2>5. Unrecorded'
    BY <1>0, <2>1, <2>3, <2>4 DEF Unrecorded, RowInv
  <2>6. \A w \in Sweeps : sweep'[w] = sweep[w] \/ sweep'[w] = Idle
    BY <1>12 DEF SaveFails, TypeOK
  <2>7. SweepInv'
    BY <2>1, <2>6 DEF SweepInv, RowInv, Idle
  <2> QED BY <2>1, <2>2, <2>5, <2>7 DEF RowInv, EditsInv, OneRunning
<1>13. CASE Age \/ TurnEnds \/ UserPosts \/ Compacts \/ RewriteRoutines
            \/ UNCHANGED vars
  <2>1. UNCHANGED <<run, recorded, edits, fire, sweep>>
    BY <1>13 DEF Age, TurnEnds, UserPosts, Compacts, RewriteRoutines, vars, files
  <2>2. \A w \in Sweeps : SweepMoves(w)
    BY <2>1 DEF SweepMoves
  <2> QED BY <1>1, <2>1, <2>2
<1>14. CASE Restart
  <2>1. /\ edits' = {} /\ UNCHANGED <<run, recorded>>
        /\ \A w \in Sweeps : sweep'[w] = Idle
        /\ \A r \in Runs : fire[r] = "none" => fire'[r] = "none"
    BY <1>14 DEF Restart, files
  <2>2. Running' = Running
    BY <2>1 DEF Running
  <2> QED BY <2>1, <2>2 DEF RowInv, EditsInv, OneRunning, Unrecorded, SweepInv, Idle
<1> QED BY <1>3, <1>4, <1>5, <1>6, <1>7, <1>8, <1>9, <1>10, <1>11, <1>12, <1>13,
           <1>14 DEF Next, Write

LEMMA RowInit == Init => TypeOK /\ RowInv
<1> SUFFICES ASSUME Init PROVE TypeOK /\ RowInv
  OBVIOUS
<1>1. TypeOK
  <2>1. run \in Rows
    BY DEF Init, Rows, Statuses
  <2>2. turns \in Seq(0..MaxRuns) /\ last \in 0..MaxRuns /\ replied \subseteq Runs
    BY RunsAre DEF Init
  <2>3. recorded \in 0..MaxRuns /\ crashes \in 0..MaxEvents /\ others \in 0..MaxEvents
    BY RunsAre, RoutineAssumption DEF Init
  <2>4. sweep \in [Sweeps -> [at : {"idle", "apply", "save"}, run : 0..MaxRuns,
                              new : {"none", "done", "error"}, own : BOOLEAN]]
    BY RunsAre DEF Init, Idle
  <2>5. fire \in [Runs -> {"none", "posting", "failed", "marking", "done"}]
    BY DEF Init
  <2> QED BY <2>1, <2>2, <2>3, <2>4, <2>5 DEF Init, TypeOK
<1>2. RowInv
  BY DEF Init, RowInv, EditsInv, SweepInv, Unrecorded, OneRunning, Running, Idle
<1> QED BY <1>1, <1>2

LEMMA RowInvariant == Spec => [](TypeOK /\ RowInv)
<1>1. TypeOK /\ RowInv /\ [Next]_vars => (TypeOK /\ RowInv)'
  BY TypeStep, RowStep
<1> QED BY <1>1, RowInit, PTL DEF Spec

\* Every variable of the runs stays within its type, for any number of sweeps,
\* runs, restarts and rewrites of routines.json.
THEOREM TypeCorrect == Spec => []TypeOK
BY RowInvariant, PTL

-----------------------------------------------------------------------------
(* A run stays in the file until it ends, and its end is final.            *)

LEMMA KeptStep ==
  TypeOK /\ RowInv /\ [Next]_vars =>
    \A r \in Running : run'[r] \notin {"none", "pruned"}
<1> SUFFICES ASSUME TypeOK, RowInv, [Next]_vars, NEW r \in Running
             PROVE  run'[r] \notin {"none", "pruned"}
  OBVIOUS
<1>1. run[r] = "running" /\ r \in Runs
  BY DEF Running
<1>2. ASSUME NEW e \in edits, Record(e) PROVE FALSE
  BY <1>2, RecordedIs
<1>3. ASSUME NEW e \in edits, MarkErrored(e) \/ Settle(e) \/ CancelRow(e)
      PROVE  run'[r] \notin {"none", "pruned"}
  <2>1. e.by # "fire" /\ Save(e)
    BY <1>3, RoutineAssumption DEF MarkErrored, Settle, CancelRow
  <2> QED BY <1>1, <2>1, SavedIs
<1>4. CASE ~ \E e \in edits : Write(e)
  BY <1>1, <1>4, OtherSteps
<1> QED BY <1>2, <1>3, <1>4 DEF Write

\* runs-lock.ts:4-9 and run.ts:50: no edit of the file, and no cap on the
\* history, loses the run in flight.
THEOREM NoneForgotten == Spec => NoRunIsForgotten
<1>1. TypeOK /\ RowInv /\ [Next]_vars =>
        [\A r \in Running : run'[r] \notin {"none", "pruned"}]_vars
  BY KeptStep
<1> QED BY <1>1, RowInvariant, PTL DEF Spec, NoRunIsForgotten

LEMMA EndStep ==
  TypeOK /\ RowInv /\ [Next]_vars =>
    \A r \in Runs :
      run[r] \in {"done", "error", "cancelled"} => run'[r] \in {run[r], "pruned"}
<1> SUFFICES ASSUME TypeOK, RowInv, [Next]_vars, NEW r \in Runs,
                    run[r] \in {"done", "error", "cancelled"}
             PROVE  run'[r] \in {run[r], "pruned"}
  OBVIOUS
<1>1. r \notin Running
  BY DEF Running
<1>2. ASSUME NEW e \in edits, Record(e) PROVE run'[r] \in {run[r], "pruned"}
  <2>1. /\ e.run = recorded + 1 /\ recorded \in Nat
        /\ \A q \in Runs : q # e.run => run'[q] \in {run[q], "pruned"}
    BY <1>2, RecordedIs
  <2>2. r # recorded + 1
    BY <2>1 DEF RowInv, Unrecorded
  <2> QED BY <2>1, <2>2
<1>3. ASSUME NEW e \in edits, MarkErrored(e) \/ Settle(e) \/ CancelRow(e)
      PROVE  run'[r] \in {run[r], "pruned"}
  <2>1. e.by # "fire" /\ Save(e)
    BY <1>3, RoutineAssumption DEF MarkErrored, Settle, CancelRow
  <2> QED BY <1>1, <2>1, SavedIs
<1>4. CASE ~ \E e \in edits : Write(e)
  BY <1>4, OtherSteps
<1> QED BY <1>2, <1>3, <1>4 DEF Write

\* reconcile.ts:82-87: a run that was cancelled, failed or settled stays so,
\* whatever a sweep concluded from what it had read.
THEOREM EndsAreFinal == Spec => EndsOnce
<1>1. TypeOK /\ RowInv /\ [Next]_vars =>
        [\A r \in Runs :
           run[r] \in {"done", "error", "cancelled"}
           => run'[r] \in {run[r], "pruned"}]_vars
  BY EndStep
<1> QED BY <1>1, RowInvariant, PTL DEF Spec, EndsOnce

-----------------------------------------------------------------------------
(* A run is settled by the reply to its own turn.  As long as nothing is   *)
(* derailed, and the routine has the conversation to itself, the turn of   *)
(* the run in flight is not yet there, is the only one, or was just        *)
(* answered; without a run in flight there is none.                        *)

Answered(r) == turns = <<>> /\ r \in replied /\ last = r

Unanswered(r) == turns = <<>> /\ r \notin replied

TurnInv ==
  /\ aborts = {}
  /\ Running = {} => turns = <<>>
  /\ \A r \in Running :
       \/ Unanswered(r)
       \/ turns = <<r>> /\ r \notin replied
       \/ Answered(r)
  /\ \A r \in Runs : fire[r] \in {"posting", "failed", "marking"}
                       => r \in Running /\ Unanswered(r)
  /\ \A e \in edits : e.by = "fire" => e.run \notin replied
  /\ \A w \in Sweeps :
       /\ sweep[w].own
       /\ sweep[w].at # "idle" /\ sweep[w].new = "done" /\ sweep[w].run \in Running
            => Answered(sweep[w].run)
  /\ ~ mistaken

Calm == ~ derailed /\ others = 0
CalmInv == Calm => TurnInv

\* Calm does not come back.
LEMMA CalmBefore == ASSUME TypeOK, [Next]_vars, Calm' PROVE Calm
<1>1. derailed => derailed'
  BY DEF Next, vars, LoadFire, FireStep, Accept, Refuse, LoseAnswer, LoadFailure,
         LoadCancel, Abort, Judge, LoadSettled, Write, Record, MarkErrored, Settle,
         CancelRow, SaveFails, Age, TurnEnds, UserPosts, Compacts, RewriteRoutines,
         Restart, history
<1>2. others' = others \/ others' = others + 1
  BY DEF Next, vars, LoadFire, FireStep, Accept, Refuse, LoseAnswer, LoadFailure,
         LoadCancel, Abort, Judge, LoadSettled, Write, Record, MarkErrored, Settle,
         CancelRow, SaveFails, Age, TurnEnds, UserPosts, Compacts, RewriteRoutines,
         Restart, runtime
<1>3. others \in Nat
  BY DEF TypeOK
<1> QED BY <1>1, <1>2, <1>3 DEF Calm

\* A sweep stays where it is, gives up, or has seen the answer of its run.
SweepKnows(w) ==
  \/ sweep'[w] = sweep[w]
  \/ sweep'[w].own /\ sweep'[w].at = "idle"
  \/ /\ sweep'[w].own
     /\ sweep'[w].new = "done" /\ sweep'[w].run \in Running
          => Answered(sweep'[w].run)

LEMMA CalmStep == TypeOK /\ RowInv /\ CalmInv /\ [Next]_vars => CalmInv'
<1> SUFFICES ASSUME TypeOK, RowInv, CalmInv, [Next]_vars, Calm' PROVE TurnInv'
  BY DEF CalmInv
<1>0. /\ Calm /\ TurnInv /\ others \in Nat
      /\ \A r \in Running : r = recorded /\ r \in Runs
      /\ \A e \in edits : e.run \in Runs /\ e.by \in By
  BY CalmBefore DEF CalmInv, RowInv, OneRunning, Running, TypeOK, By
<1>1. ASSUME UNCHANGED <<aborts, turns, run, mistaken>>,
             \A r \in Runs : r \in replied' <=> r \in replied, last' = last,
             edits' \subseteq edits,
             \A r \in Runs : fire'[r] \in {"posting", "failed", "marking"}
                               => r \in Running /\ Unanswered(r),
             \A w \in Sweeps : SweepKnows(w)
      PROVE  TurnInv'
  <2>1. Running' = Running
    BY <1>1 DEF Running
  <2>2. \A r \in Runs : (Answered(r)' <=> Answered(r)) /\ (Unanswered(r)' <=> Unanswered(r))
    BY <1>1 DEF Answered, Unanswered
  <2>3. Running \subseteq Runs
    BY DEF Running
  <2>4. \A r \in Running : \/ Unanswered(r)'
                           \/ turns' = <<r>> /\ r \notin replied'
                           \/ Answered(r)'
    BY <1>0, <1>1, <2>2, <2>3 DEF TurnInv
  <2>5. \A e \in edits' : e.by = "fire" => e.run \notin replied'
    BY <1>0, <1>1 DEF TurnInv
  <2>6. ASSUME NEW w \in Sweeps
        PROVE  /\ sweep'[w].own
               /\ sweep'[w].at # "idle" /\ sweep'[w].new = "done"
                    /\ sweep'[w].run \in Running
                  => turns = <<>> /\ sweep'[w].run \in replied /\ last = sweep'[w].run
    <3>1. CASE sweep'[w] = sweep[w]
      BY <1>0, <3>1 DEF TurnInv, Answered
    <3>2. CASE sweep'[w].own /\ sweep'[w].at = "idle"
      BY <3>2
    <3>3. CASE /\ sweep'[w].own
               /\ sweep'[w].new = "done" /\ sweep'[w].run \in Running
                    => Answered(sweep'[w].run)
      BY <3>3 DEF Answered
    <3> QED BY <1>1, <3>1, <3>2, <3>3 DEF SweepKnows
  <2>7. ASSUME NEW w \in Sweeps
        PROVE  /\ sweep'[w].own
               /\ sweep'[w].at # "idle" /\ sweep'[w].new = "done"
                    /\ sweep'[w].run \in Running'
                  => Answered(sweep[w].run)'
    BY <1>1, <2>1, <2>3, <2>6 DEF Answered
  <2> QED BY <1>0, <1>1, <2>1, <2>2, <2>3, <2>4, <2>5, <2>7 DEF TurnInv
<1>2. CASE LoadFire
  <2>1. /\ Running = {} /\ Running' = {} /\ turns = <<>>
        /\ replied' = replied \ {recorded + 1}
        /\ UNCHANGED <<turns, last, fire, sweep, aborts, mistaken>>
    BY <1>0, <1>2 DEF LoadFire, GateFree, Running, TurnInv, files, history
  <2>2. \A e \in edits' : e.by = "fire" => e.run \notin replied'
    <3>1. edits' = {[by |-> "fire", run |-> recorded + 1, rows |-> Fired]}
      BY <1>2 DEF LoadFire, Load, QueueFree, Fired
    <3> QED BY <2>1, <3>1
  <2> QED BY <1>0, <2>1, <2>2 DEF TurnInv
<1>3. ASSUME NEW r \in Runs, Accept(r) PROVE TurnInv'
  <2>1. r \in Running /\ Unanswered(r) /\ \A q \in Running : q = r
    BY <1>0, <1>3 DEF Accept, TurnInv
  <2>2. turns' = <<r>> /\ r \notin replied'
    BY <1>3, <2>1 DEF Accept, Unanswered
  <2>3. Running' = Running
    BY <1>3 DEF Accept, files, Running
  <2>4. \A q \in Runs : fire'[q] \notin {"posting", "failed", "marking"}
    BY <1>0, <1>3, <2>1 DEF Accept, TurnInv, TypeOK
  <2>5. \A w \in Sweeps :
          ~ (sweep[w].at # "idle" /\ sweep[w].new = "done" /\ sweep[w].run \in Running)
    BY <1>0, <2>1 DEF TurnInv, Answered, Unanswered
  <2>6. UNCHANGED <<edits, sweep, aborts, replied, mistaken>>
    BY <1>3 DEF Accept, history
  <2> QED BY <1>0, <2>1, <2>2, <2>3, <2>4, <2>5, <2>6 DEF TurnInv
<1>4. ASSUME NEW r \in Runs, Refuse(r) PROVE TurnInv'
  <2>1. /\ UNCHANGED <<aborts, turns, run, mistaken, replied, last, edits, sweep>>
        /\ \A q \in Runs : fire'[q] \in {"posting", "failed", "marking"}
             => fire[q] \in {"posting", "failed", "marking"}
    BY <1>4 DEF Refuse, files, runtime, history, TypeOK
  <2> QED BY <1>0, <1>1, <2>1 DEF TurnInv, SweepKnows
<1>5. ASSUME NEW r \in Runs, LoseAnswer(r) PROVE FALSE
  BY <1>5 DEF LoseAnswer, Calm
<1>6. ASSUME NEW r \in Runs, LoadFailure(r) PROVE TurnInv'
  <2>1. r \in Running /\ Unanswered(r)
    BY <1>0, <1>6 DEF LoadFailure, TurnInv
  <2>2. /\ edits' = {[by |-> "failure", run |-> r, rows |-> Marked(r, "error")]}
        /\ fire' = [fire EXCEPT ![r] = "marking"]
        /\ UNCHANGED <<aborts, turns, run, mistaken, replied, last, sweep>>
    BY <1>6, <2>1 DEF LoadFailure, StillRuns, Load, QueueFree, files, runtime, history
  <2>3. \A q \in Runs : fire'[q] \in {"posting", "failed", "marking"}
             => q \in Running /\ Unanswered(q)
    BY <1>0, <2>1, <2>2 DEF TurnInv, TypeOK
  <2>4. \A e \in edits' : e.by # "fire"
    BY <2>2
  <2>5. Running' = Running
    BY <2>2 DEF Running
  <2> QED BY <1>0, <2>2, <2>3, <2>4, <2>5 DEF TurnInv, Answered, Unanswered
<1>7. ASSUME NEW r \in Runs, LoadCancel(r) PROVE TurnInv'
  <2>1. /\ edits' = {[by |-> "user", run |-> r, rows |-> Marked(r, "cancelled")]}
        /\ UNCHANGED <<aborts, turns, run, mistaken, replied, last, sweep, fire>>
    BY <1>7 DEF LoadCancel, Load, QueueFree, files, runtime, history
  <2>2. \A e \in edits' : e.by # "fire"
    BY <2>1
  <2>3. Running' = Running
    BY <2>1 DEF Running
  <2> QED BY <1>0, <2>1, <2>2, <2>3 DEF TurnInv, Answered, Unanswered
<1>8. ASSUME NEW r \in Runs, Abort(r) PROVE FALSE
  BY <1>0, <1>8 DEF Abort, TurnInv
<1>9. ASSUME NEW w \in Sweeps, Judge(w) PROVE TurnInv'
  <2>1. PICK r \in Running :
          sweep' = [sweep EXCEPT ![w] =
                      [at |-> "apply", run |-> r,
                       new |-> IF Replied(r) THEN "done" ELSE "error",
                       own |-> Replied(r) => last = r]]
    BY <1>9 DEF Judge
  <2>2. Replied(r) => Answered(r) /\ last = r
    BY <1>0 DEF Replied, TurnInv, Unanswered, Answered
  <2>3. PICK s : /\ s = [at |-> "apply", run |-> r,
                         new |-> IF Replied(r) THEN "done" ELSE "error",
                         own |-> Replied(r) => last = r]
                 /\ sweep' = [sweep EXCEPT ![w] = s]
    BY <2>1
  <2>4. s.run = r /\ (s.new = "done" => Replied(r)) /\ s.own = (Replied(r) => last = r)
    BY <2>3
  <2>5. s.own
    BY <2>2, <2>4
  <2>6. \A v \in Sweeps : sweep'[v] = IF v = w THEN s ELSE sweep[v]
    BY <2>3 DEF TypeOK
  <2>7. UNCHANGED <<aborts, turns, run, mistaken, replied, last, edits, fire>>
    BY <1>9 DEF Judge, files, runtime, history
  <2>8. \A q \in Runs : fire'[q] \in {"posting", "failed", "marking"}
             => q \in Running /\ Unanswered(q)
    BY <1>0, <2>7 DEF TurnInv
  <2>9. \A v \in Sweeps : SweepKnows(v)
    BY <2>2, <2>4, <2>5, <2>6 DEF SweepKnows
  <2> QED BY <1>1, <2>7, <2>8, <2>9
<1>10. ASSUME NEW w \in Sweeps, LoadSettled(w) PROVE TurnInv'
  <2>1. UNCHANGED <<aborts, turns, run, mistaken, replied, last, fire>>
    BY <1>10 DEF LoadSettled, files, runtime, history
  <2>2. \A e \in edits' : e.by = "fire" => e \in edits
    BY <1>10, RoutineAssumption DEF LoadSettled, Load
  <2>3. \A v \in Sweeps :
          \/ sweep'[v] = sweep[v]
          \/ sweep'[v] = Idle
          \/ /\ v = w /\ sweep'[v].own = sweep[v].own /\ sweep'[v].run = sweep[v].run
             /\ sweep'[v].new = sweep[v].new /\ sweep[v].at # "idle"
    <3>1. sweep[w].at = "apply" /\ (\/ sweep' = [sweep EXCEPT ![w].at = "save"]
                                    \/ sweep' = [sweep EXCEPT ![w] = Idle])
      BY <1>10 DEF LoadSettled
    <3>2. CASE sweep' = [sweep EXCEPT ![w].at = "save"]
      BY <3>1, <3>2 DEF TypeOK
    <3>3. CASE sweep' = [sweep EXCEPT ![w] = Idle]
      BY <3>3 DEF TypeOK
    <3> QED BY <3>1, <3>2, <3>3
  <2>4. Running' = Running
    BY <2>1 DEF Running
  <2>5. Idle.own /\ Idle.at = "idle"
    BY DEF Idle
  <2>6. ASSUME NEW v \in Sweeps
        PROVE  /\ sweep'[v].own
               /\ sweep'[v].at # "idle" /\ sweep'[v].new = "done"
                    /\ sweep'[v].run \in Running
                  => Answered(sweep'[v].run)
    <3>1. /\ sweep[v].own
          /\ sweep[v].at # "idle" /\ sweep[v].new = "done" /\ sweep[v].run \in Running
               => Answered(sweep[v].run)
      BY <1>0 DEF TurnInv
    <3> QED BY <2>3, <2>5, <3>1
  <2> QED BY <1>0, <2>1, <2>2, <2>4, <2>6 DEF TurnInv, Answered, Unanswered
<1>11. ASSUME NEW e \in edits, Record(e) PROVE TurnInv'
  <2>1. /\ e.run = recorded + 1 /\ recorded \in Nat /\ e.run \in Runs
        /\ Running = {} /\ Running' = {e.run} /\ edits' = {}
    BY <1>11, RecordedIs
  <2>2. /\ UNCHANGED <<aborts, turns, mistaken, replied, last, sweep>>
        /\ e.by = "fire"
    BY <1>11 DEF Record, runtime, history
  <2>3. turns = <<>> /\ e.run \notin replied
    BY <1>0, <2>1, <2>2 DEF TurnInv
  <2>4. \A r \in Runs : fire'[r] \in {"posting", "failed", "marking"} => r = e.run
    BY <1>0, <1>11, <2>1 DEF Record, TurnInv, TypeOK
  <2>5. \A w \in Sweeps : sweep[w].at # "idle" => sweep[w].run # e.run
    BY <2>1 DEF RowInv, SweepInv
  <2>6. Unanswered(e.run)'
    BY <2>2, <2>3 DEF Unanswered
  <2> QED BY <1>0, <2>1, <2>2, <2>4, <2>5, <2>6 DEF TurnInv
<1>12. ASSUME NEW e \in edits, MarkErrored(e) PROVE TurnInv'
  <2>1. /\ Running = {e.run} /\ Running' = {} /\ edits' = {}
    BY <1>12, SavedIs DEF MarkErrored
  <2>2. fire[e.run] = "marking"
    BY <1>12 DEF MarkErrored, RowInv, EditsInv, EditOK
  <2>3. turns = <<>>
    BY <1>0, <2>2 DEF TurnInv, Unanswered
  <2>4. UNCHANGED <<aborts, turns, mistaken, replied, last, sweep>>
    BY <1>12 DEF MarkErrored, runtime, history
  <2>5. \A r \in Runs : fire'[r] \notin {"posting", "failed", "marking"}
    BY <1>0, <1>12, <2>1 DEF MarkErrored, TurnInv, TypeOK
  <2> QED BY <1>0, <2>1, <2>3, <2>4, <2>5 DEF TurnInv
<1>13. ASSUME NEW e \in edits, Settle(e) PROVE TurnInv'
  <2>1. /\ e.by # "fire" /\ e.by \in Sweeps /\ Save(e)
    BY <1>13, RoutineAssumption DEF Settle
  <2>2. /\ Running = {e.run} /\ Running' = {} /\ edits' = {} /\ e.run \in Running
    BY <2>1, SavedIs
  <2>3. sweep[e.by].at = "save" /\ sweep[e.by].run = e.run
    BY <2>1 DEF RowInv, EditsInv, EditOK
  <2>4. sweep[e.by].new = "done"
    <3>1. sweep[e.by].new \in {"done", "error"}
      BY <2>1, <2>3 DEF RowInv, SweepInv
    <3>2. sweep[e.by].new # "error"
      BY <1>13 DEF Settle, Calm
    <3> QED BY <3>1, <3>2
  <2>5. Answered(e.run) /\ sweep[e.by].own
    BY <1>0, <2>1, <2>2, <2>3, <2>4 DEF TurnInv
  <2>6. /\ UNCHANGED <<aborts, turns, replied, last, fire>>
        /\ \A w \in Sweeps : sweep'[w] = sweep[w] \/ sweep'[w] = Idle
    BY <1>13 DEF Settle, runtime, TypeOK
  <2>7. ~ mistaken'
    <3>1. mistaken' = (mistaken \/ ~ sweep[e.by].own)
      BY <1>13 DEF Settle
    <3> QED BY <1>0, <2>5, <3>1 DEF TurnInv
  <2>8. \A r \in Runs : fire[r] \notin {"posting", "failed", "marking"}
    BY <1>0, <2>2, <2>5 DEF TurnInv, Answered, Unanswered
  <2>9. \A w \in Sweeps : sweep'[w].own
    <3>1. Idle.own
      BY DEF Idle
    <3>2. \A w \in Sweeps : sweep[w].own
      BY <1>0 DEF TurnInv
    <3> QED BY <2>6, <3>1, <3>2
  <2>10. turns' = <<>>
    BY <2>5, <2>6 DEF Answered
  <2> QED BY <1>0, <2>2, <2>6, <2>7, <2>8, <2>9, <2>10 DEF TurnInv
<1>14. ASSUME NEW e \in edits, CancelRow(e) PROVE FALSE
  BY <1>14 DEF CancelRow, Calm
<1>15. ASSUME NEW e \in edits, SaveFails(e) PROVE TurnInv'
  <2>1. /\ UNCHANGED <<aborts, turns, run, mistaken, replied, last>>
        /\ edits' \subseteq edits
    BY <1>15 DEF SaveFails, files, runtime, history
  <2>2. \A r \in Runs : fire'[r] \in {"posting", "failed", "marking"}
             => r \in Running /\ Unanswered(r)
    BY <1>0, <1>15 DEF SaveFails, TurnInv, TypeOK
  <2>3. \A w \in Sweeps : sweep'[w] = sweep[w] \/ sweep'[w] = Idle
    BY <1>15 DEF SaveFails, TypeOK
  <2>4. Idle.own /\ Idle.at = "idle"
    BY DEF Idle
  <2>5. \A w \in Sweeps : SweepKnows(w)
    BY <2>3, <2>4 DEF SweepKnows
  <2> QED BY <1>1, <2>1, <2>2, <2>5
<1>16. CASE Age \/ RewriteRoutines \/ UNCHANGED vars
  <2>1. UNCHANGED <<aborts, turns, run, mistaken, replied, last, edits, fire, sweep>>
    BY <1>16 DEF Age, RewriteRoutines, vars, files, runtime, history
  <2> QED BY <1>0, <1>1, <2>1 DEF TurnInv, SweepKnows
<1>17. CASE TurnEnds
  <2>1. PICK r \in Running : turns = <<r>> /\ r \notin replied
    BY <1>0, <1>17 DEF TurnEnds, Answers, TurnInv, Unanswered, Answered
  <2>2. /\ turns' = <<>> /\ last' = r /\ replied' = Runs
        /\ UNCHANGED <<run, aborts, mistaken, edits, fire, sweep>>
    BY <1>17, <2>1 DEF TurnEnds, Answers, Writes, files, history
  <2>3. Running' = Running /\ \A q \in Running : q = r /\ q \in Runs
    BY <1>0, <2>1, <2>2 DEF Running
  <2>4. Answered(r)'
    BY <2>2, <2>3 DEF Answered
  <2>5. \A q \in Runs : fire[q] \notin {"posting", "failed", "marking"}
    BY <1>0, <2>1 DEF TurnInv, Unanswered
  <2>6. \A e \in edits : e.by # "fire"
    BY <2>1 DEF RowInv, EditsInv, EditOK
  <2> QED BY <1>0, <2>1, <2>2, <2>3, <2>4, <2>5, <2>6 DEF TurnInv
<1>18. CASE UserPosts \/ Compacts
  <2>1. others' = others + 1
    BY <1>18 DEF UserPosts, Compacts
  <2> QED BY <1>0, <2>1 DEF Calm
<1>19. CASE Restart
  <2>1. /\ turns' = <<>> /\ aborts' = {} /\ run' = run /\ edits' = {}
        /\ mistaken' = mistaken
        /\ \A w \in Sweeps : sweep'[w] = Idle
        /\ \A r \in Runs : fire'[r] \notin {"posting", "failed", "marking"}
    BY <1>19 DEF Restart, files, history
  <2>2. Running' = Running
    BY <2>1 DEF Running
  <2>3. ASSUME NEW r \in Running PROVE Unanswered(r)' \/ Answered(r)'
    <3>1. CASE turns = <<r>>
      BY <1>0, <1>19, <2>1, <3>1 DEF Restart, Writes, Answered
    <3>2. CASE turns = <<>>
      <4>1. UNCHANGED <<last, replied>>
        BY <1>19, <3>2 DEF Restart
      <4> QED BY <1>0, <2>1, <3>2, <4>1 DEF TurnInv, Answered, Unanswered
    <3> QED BY <1>0, <3>1, <3>2 DEF TurnInv, Answered, Unanswered
  <2>4. Idle.own /\ Idle.at = "idle"
    BY DEF Idle
  <2> QED BY <1>0, <2>1, <2>2, <2>3, <2>4 DEF TurnInv
<1> QED BY <1>2, <1>3, <1>4, <1>5, <1>6, <1>7, <1>8, <1>9, <1>10, <1>11, <1>12,
           <1>13, <1>14, <1>15, <1>16, <1>17, <1>18, <1>19 DEF Next, FireStep, Write

\* reconcile.ts:37-48: "any assistant message since the run started" is the
\* reply to the run's own turn as long as every earlier run ended with its turn,
\* and nobody else has a message written in the conversation.
THEOREM RepliesAreOwn == Spec => []OneTurnAtATime
<1>1. Init => CalmInv
  BY DEF Init, CalmInv, TurnInv, Running, Idle
<1>2. TypeOK /\ RowInv /\ CalmInv => OneTurnAtATime
  <2> SUFFICES ASSUME TypeOK, TurnInv PROVE Len(turns) <= 1 /\ ~ mistaken
    BY DEF CalmInv, OneTurnAtATime, Calm
  <2>1. turns = <<>> \/ \E r \in Running : turns = <<r>>
    BY DEF TurnInv, Answered, Unanswered
  <2>2. Len(turns) <= 1
    BY <2>1
  <2> QED BY <2>2 DEF TurnInv
<1> QED BY <1>1, <1>2, RowInvariant, CalmStep, PTL DEF Spec

-----------------------------------------------------------------------------
(* RoutineClock: first, what its operators on times return.                *)

\* A set of times that is not empty has a first one.
LEMMA MinIsFirst ==
  ASSUME NEW S \in SUBSET Nat, S # {}
  PROVE  Min(S) \in S /\ \A t \in S : Min(S) <= t
<1> DEFINE Less == OpToRel(<, Nat)
<1>1. \A x, y \in Nat : y < x => <<y, x>> \in Less
  BY DEF OpToRel
<1>2. PICK x \in S : \A y \in S : <<y, x>> \notin Less
  <2> HIDE DEF Less
  <2>1. IsWellFoundedOn(Less, Nat)
    BY NatLessThanWellFounded DEF Less
  <2> QED BY <2>1, WFMin
<1> HIDE DEF Less
<1>3. ASSUME NEW y \in S PROVE x <= y
  <2>1. x \in Nat /\ y \in Nat
    OBVIOUS
  <2>2. ~ (y < x)
    BY <1>1, <1>2, <2>1
  <2> QED BY <2>1, <2>2
<1> QED BY <1>3 DEF Min

\* The later of two times.
LEMMA MaxIs ==
  ASSUME NEW a \in Int, NEW b \in Int
  PROVE  /\ Max({a, b}) \in {a, b}
         /\ a <= Max({a, b}) /\ b <= Max({a, b})
<1>1. \E x \in {a, b} : \A y \in {a, b} : x >= y
  OBVIOUS
<1> QED BY <1>1 DEF Max

LEMMA ClockTypes ==
  /\ Grace \in Nat /\ MaxNow \in Nat /\ MaxRestarts \in Nat /\ MaxFires \in Nat
  /\ Instants \in SUBSET Nat /\ Instants \subseteq 1..MaxNow
  /\ Route \notin Scans
  /\ Ttl \in Nat \ {0}
BY ClockAssumption DEF Route

-----------------------------------------------------------------------------
(* The invariant.                                                          *)

\* A scan looks at times of this process only, and at none to come; so does a
\* sweep that fires.
Bounds ==
  /\ startedAt <= lastTick /\ lastTick <= now
  /\ \A f \in Firers : firer[f].at = "scan" =>
       startedAt <= firer[f].since /\ firer[f].until <= now
  /\ \A w \in Scans : firer[w].at = "fire" => startedAt < firer[w].instant

\* Whoever fires took the lock of its instant, and so did what this process
\* fired: every burn of it is over before the lock runs out, and any two are a
\* TTL apart.  What an earlier process fired was due before this one started.
FireInv ==
  /\ \A f \in Firers : firer[f].at = "fire" =>
       /\ firer[f].instant \in Instants /\ firer[f].instant <= now
       /\ firer[f].burnt + Ttl <= expiry[firer[f].instant]
  /\ \A f, g \in Firers :
       firer[f].at = "fire" /\ firer[g].at = "fire" /\ f # g
         /\ firer[f].instant = firer[g].instant
         => Apart(firer[f].burnt, firer[g].burnt)
  /\ \A i \in DOMAIN fired :
       /\ fired[i].boot <= restarts /\ fired[i].instant <= now
       /\ fired[i].boot = restarts =>
            /\ fired[i].burnt + Ttl <= expiry[fired[i].instant]
            /\ \A f \in Firers :
                 firer[f].at = "fire" /\ firer[f].instant = fired[i].instant
                   => Apart(fired[i].burnt, firer[f].burnt)
       /\ fired[i].boot # restarts => fired[i].instant <= startedAt
  /\ \A i, j \in DOMAIN fired :
       i < j /\ fired[i].instant = fired[j].instant =>
         IF fired[i].boot = fired[j].boot
           THEN Apart(fired[i].burnt, fired[j].burnt)
           ELSE fired[j].by = Route

\* The instants that a sweep looks at, or fires.
Claims(w) ==
  IF firer[w].at = "scan" THEN DueIn(firer[w].since, firer[w].until)
  ELSE IF firer[w].at = "fire" THEN {firer[w].instant} ELSE {}

\* The sweeps share the past among them: no two claim an instant, and what one of
\* this process fired no sweep claims again.
ClaimInv ==
  /\ \A w \in Scans : \A t \in Claims(w) : t \in Instants /\ t <= lastTick - Grace
  /\ \A v, w \in Scans : v # w => Claims(v) \cap Claims(w) = {}
  /\ \A i \in DOMAIN fired :
       fired[i].by \in Scans /\ fired[i].boot = restarts =>
         /\ fired[i].instant <= lastTick - Grace
         /\ \A w \in Scans : fired[i].instant \notin Claims(w)
  /\ \A i, j \in DOMAIN fired :
       i < j /\ fired[i].instant = fired[j].instant /\ fired[i].boot = fired[j].boot
         => Route \in {fired[i].by, fired[j].by}

ClockInv == ClockTypeOK /\ Bounds /\ FireInv /\ ClaimInv /\ NoInstantSkipped

FireType == [instant : Instants, by : Firers, boot : 0..MaxRestarts,
             burnt : 0..MaxNow]

\* A recorded fire is of a time of the schedule, and of a process.
LEMMA FiredTypes ==
  ASSUME ClockTypeOK, NEW i \in DOMAIN fired
  PROVE  /\ fired[i].instant \in Nat /\ fired[i].boot \in Nat
         /\ fired[i].instant \in Instants /\ fired[i].by \in Firers
         /\ fired[i].burnt \in Nat
<1>1. fired \in Seq(FireType)
  BY DEF ClockTypeOK, FireType
<1>2. fired[i] \in FireType
  BY <1>1
<1>3. /\ fired[i].instant \in Instants /\ fired[i].boot \in 0..MaxRestarts
      /\ fired[i].by \in Firers /\ fired[i].burnt \in 0..MaxNow
  BY <1>2 DEF FireType
<1>4. \A x : x \in Instants \cup 0..MaxRestarts \cup 0..MaxNow => x \in Nat
  BY ClockTypes
<1> QED BY <1>3, <1>4

\* Fire appends one.
LEMMA FireAppends ==
  ASSUME ClockTypeOK, NEW r \in FireType, fired' = Append(fired, r)
  PROVE  /\ DOMAIN fired = 1..Len(fired) /\ Len(fired) \in Nat
         /\ DOMAIN fired' = 1..(Len(fired) + 1)
         /\ \A i \in DOMAIN fired : fired'[i] = fired[i]
         /\ fired'[Len(fired) + 1] = r
         /\ \A i \in DOMAIN fired' : i \in DOMAIN fired \/ i = Len(fired) + 1
<1>1. fired \in Seq(FireType)
  BY DEF ClockTypeOK, FireType
<1> QED BY <1>1

-----------------------------------------------------------------------------
(* The steps.                                                              *)

\* What a tick starts to look at.
LEMMA EvalSinceIs ==
  ASSUME ClockTypeOK, Bounds
  PROVE  /\ EvalSince(lastTick) \in 0..MaxNow
         /\ startedAt <= EvalSince(lastTick)
         /\ lastTick - Grace <= EvalSince(lastTick)
         /\ \A t \in Nat : startedAt < t /\ lastTick - Grace < t
                             => EvalSince(lastTick) < t
<1>1. lastTick \in 0..MaxNow /\ startedAt \in 0..MaxNow
  BY DEF ClockTypeOK
<1>2. CASE Grace = 0
  BY <1>1, <1>2, ClockTypes DEF EvalSince, Bounds
<1>3. CASE Grace # 0
  <2>1. /\ Max({lastTick - Grace, startedAt}) \in {lastTick - Grace, startedAt}
        /\ startedAt <= Max({lastTick - Grace, startedAt})
        /\ lastTick - Grace <= Max({lastTick - Grace, startedAt})
    <3>1. lastTick - Grace \in Int /\ startedAt \in Int
      BY <1>1, ClockTypes
    <3> QED BY <3>1, MaxIs
  <2>2. EvalSince(lastTick) = Max({lastTick - Grace, startedAt})
    BY <1>3 DEF EvalSince
  <2> QED BY <1>1, <2>1, <2>2, ClockTypes
<1> QED BY <1>2, <1>3

\* What a scan that finds something burns.
LEMMA DueIs ==
  ASSUME ClockTypeOK, Bounds, NEW w \in Scans, firer[w].at = "scan",
         NEW t, t = Min(DueIn(firer[w].since, firer[w].until)),
         DueIn(firer[w].since, firer[w].until) # {}
  PROVE  t \in Instants /\ startedAt < t /\ t <= now
<1>1. DueIn(firer[w].since, firer[w].until) \in SUBSET Nat
  BY ClockTypes DEF DueIn
<1>2. t \in DueIn(firer[w].since, firer[w].until)
  BY <1>1, MinIsFirst
<1>3. /\ w \in Firers /\ startedAt \in Nat /\ now \in Nat /\ t \in Nat
      /\ firer[w].since \in Nat /\ firer[w].until \in Int
  BY <1>1, <1>2, ClockTypes DEF ClockTypeOK, Firers
<1>4. startedAt <= firer[w].since /\ firer[w].until <= now /\ startedAt \in Nat
  BY <1>3 DEF Bounds, ClockTypeOK
<1>5. t \in Instants /\ firer[w].since < t /\ t <= firer[w].until
  BY <1>2 DEF DueIn
<1> QED BY <1>3, <1>4, <1>5

LEMMA ClockTypeStep ==
  ClockTypeOK /\ Bounds /\ FireInv /\ [ClockNext]_clockVars => ClockTypeOK'
<1> SUFFICES ASSUME ClockTypeOK, Bounds, FireInv, [ClockNext]_clockVars
             PROVE  ClockTypeOK'
  OBVIOUS
<1> DEFINE FirerType == [at : {"idle", "scan", "fire"}, since : 0..MaxNow,
                         until : (0 - Grace)..MaxNow, instant : Instants \cup {0},
                         burnt : 0..MaxNow]
             LockType == [Instants -> 0..(MaxNow + Ttl)]
<1>0. /\ Scans \subseteq Firers /\ Route \in Firers
      /\ {now, startedAt, lastTick} \subseteq 0..MaxNow
  BY DEF Firers, ClockTypeOK
<1>1. AtRest \in FirerType
  BY ClockTypes DEF AtRest
<1>2. ASSUME NEW f \in Firers, NEW t \in Instants, Burn(f, t)
      PROVE  expiry' \in LockType /\ firer' \in [Firers -> FirerType]
  <2>1. now + Ttl \in 0..(MaxNow + Ttl)
    BY <1>0, ClockTypes
  <2>2. CASE Held(t)
    BY <1>1, <1>2, <2>2 DEF Burn, ClockTypeOK
  <2>3. CASE ~ Held(t)
    <3>1. [AtRest EXCEPT !.at = "fire", !.instant = t, !.burnt = now] \in FirerType
      BY <1>0, <1>1 DEF AtRest
    <3> QED BY <1>2, <2>1, <2>3, <3>1 DEF Burn, ClockTypeOK
  <2> QED BY <2>2, <2>3
<1>3. ASSUME NEW w \in Scans, Tick(w) PROVE ClockTypeOK'
  <2>1. now - Grace \in (0 - Grace)..MaxNow
    BY <1>0, ClockTypes
  <2>2. firer' \in [Firers -> FirerType]
    BY <1>0, <1>1, <1>3, <2>1, EvalSinceIs DEF Tick, ClockTypeOK, AtRest
  <2> QED BY <1>0, <1>3, <2>2 DEF Tick, ClockTypeOK
<1>4. ASSUME NEW w \in Scans, ScanFails(w) PROVE ClockTypeOK'
  BY <1>0, <1>1, <1>4 DEF ScanFails, DueIn, ClockTypeOK
<1>5. ASSUME NEW w \in Scans, ScanDue(w) PROVE ClockTypeOK'
  <2>1. PICK t : /\ t = Min(DueIn(firer[w].since, firer[w].until))
                 /\ DueIn(firer[w].since, firer[w].until) # {}
                 /\ firer[w].at = "scan"
                 /\ Burn(w, t)
                 /\ missed' = missed
                      \cup (DueIn(firer[w].since, firer[w].until) \ {t})
    BY <1>5 DEF ScanDue
  <2>2. t \in Instants
    BY <2>1, DueIs
  <2>3. expiry' \in LockType /\ firer' \in [Firers -> FirerType]
    BY <1>0, <1>2, <2>1, <2>2
  <2>4. missed' \subseteq Instants
    BY <2>1 DEF DueIn, ClockTypeOK
  <2> QED BY <1>0, <1>5, <2>3, <2>4 DEF ScanDue, ClockTypeOK
<1>6. ASSUME NEW t \in Instants, Deliver(t) PROVE ClockTypeOK'
  BY <1>0, <1>2, <1>6 DEF Deliver, ClockTypeOK
<1>7. ASSUME NEW f \in Firers, Fire(f) PROVE ClockTypeOK'
  <2> DEFINE r == [instant |-> firer[f].instant, by |-> f, boot |-> restarts,
                   burnt |-> firer[f].burnt]
  <2>1. r \in FireType
    BY <1>7 DEF Fire, FireInv, ClockTypeOK, FireType
  <2>2. fired \in Seq(FireType)
    BY DEF ClockTypeOK, FireType
  <2>3. fired' = fired \/ fired' = Append(fired, r)
    BY <1>7 DEF Fire
  <2> HIDE DEF r
  <2>4. fired' \in Seq(FireType)
    BY <2>1, <2>2, <2>3
  <2> QED BY <1>0, <1>1, <1>7, <2>4 DEF Fire, ClockTypeOK, FireType
<1>8. CASE Elapse
  BY <1>8, ClockTypes DEF Elapse, ClockTypeOK
<1>9. CASE Reboot
  <2>1. expiry' \in LockType
    BY <1>9, ClockTypes DEF Reboot
  <2> QED BY <1>1, <1>9, <2>1, ClockTypes DEF Reboot, ClockTypeOK
<1>10. CASE UNCHANGED clockVars
  BY <1>10 DEF clockVars, ClockTypeOK
<1> QED BY <1>0, <1>3, <1>4, <1>5, <1>6, <1>7, <1>8, <1>9, <1>10 DEF ClockNext

\* Who burns is at rest, or fires that instant.
LEMMA BurnFirer ==
  ASSUME ClockTypeOK, NEW f \in Firers, NEW t, Burn(f, t)
  PROVE  /\ \A g \in Firers : g # f => firer'[g] = firer[g]
         /\ firer'[f].at # "scan"
         /\ firer'[f].at = "fire" => firer'[f].instant = t
<1>1. PICK a : a = [AtRest EXCEPT !.at = "fire", !.instant = t, !.burnt = now]
  OBVIOUS
<1>2. a.at = "fire" /\ a.instant = t /\ AtRest.at = "idle"
  BY <1>1 DEF AtRest
<1>3. firer' = [firer EXCEPT ![f] = AtRest] \/ firer' = [firer EXCEPT ![f] = a]
  BY <1>1 DEF Burn
<1> QED BY <1>2, <1>3 DEF ClockTypeOK

LEMMA BoundsStep == ClockTypeOK /\ Bounds /\ [ClockNext]_clockVars => Bounds'
<1> SUFFICES ASSUME ClockTypeOK, Bounds, [ClockNext]_clockVars PROVE Bounds'
  OBVIOUS
<1>0. /\ Scans \subseteq Firers /\ Route \in Firers
      /\ now \in Nat /\ startedAt \in Nat /\ lastTick \in Nat
  BY ClockTypes DEF Firers, ClockTypeOK
<1>1. ASSUME NEW w \in Scans, Tick(w) PROVE Bounds'
  <2>1. \A f \in Firers : f # w => firer'[f] = firer[f]
    BY <1>1 DEF Tick, ClockTypeOK
  <2>2. /\ firer'[w].at = "scan" /\ firer'[w].until = now - Grace
        /\ firer'[w].since = EvalSince(lastTick)
        /\ lastTick' = now /\ UNCHANGED <<startedAt, now>>
    BY <1>0, <1>1 DEF Tick, ClockTypeOK, AtRest
  <2>3. now - Grace <= now
    BY <1>0, ClockTypes
  <2> QED BY <1>0, <2>1, <2>2, <2>3, EvalSinceIs DEF Bounds
<1>2. ASSUME NEW f \in Firers, NEW t, Burn(f, t), UNCHANGED <<startedAt, lastTick, now>>,
             f \in Scans => startedAt < t
      PROVE  Bounds'
  <2>1. \A g \in Firers : g # f => firer'[g] = firer[g]
    BY <1>2, BurnFirer
  <2>2. /\ firer'[f].at # "scan"
        /\ firer'[f].at = "fire" => firer'[f].instant = t
    BY <1>2, BurnFirer
  <2> QED BY <1>0, <1>2, <2>1, <2>2 DEF Bounds
<1>3. ASSUME NEW f \in Firers, firer' = [firer EXCEPT ![f] = AtRest],
             UNCHANGED <<startedAt, lastTick, now>>
      PROVE  Bounds'
  <2>1. \A g \in Firers : firer'[g] = firer[g] \/ firer'[g].at = "idle"
    BY <1>3 DEF AtRest, ClockTypeOK
  <2> QED BY <1>0, <1>3, <2>1 DEF Bounds
<1>4. ASSUME NEW w \in Scans, ScanDue(w) PROVE Bounds'
  <2>1. PICK t : /\ t = Min(DueIn(firer[w].since, firer[w].until))
                 /\ DueIn(firer[w].since, firer[w].until) # {}
                 /\ firer[w].at = "scan"
                 /\ Burn(w, t)
    BY <1>4 DEF ScanDue
  <2>2. startedAt < t
    BY <2>1, DueIs
  <2> QED BY <1>0, <1>2, <1>4, <2>1, <2>2 DEF ScanDue
<1>5. ASSUME NEW t \in Instants, Deliver(t) PROVE Bounds'
  BY <1>0, <1>2, <1>5, ClockTypes DEF Deliver
<1>6. ASSUME NEW f \in Firers, Fire(f) PROVE Bounds'
  BY <1>3, <1>6 DEF Fire
<1>7. ASSUME NEW w \in Scans, ScanFails(w) PROVE Bounds'
  BY <1>0, <1>3, <1>7 DEF ScanFails
<1>8. CASE Elapse
  <2>1. now' = now + 1 /\ UNCHANGED <<startedAt, lastTick, firer>>
    BY <1>8 DEF Elapse
  <2>2. \A f \in Firers : firer[f].until \in Int
    BY ClockTypes DEF ClockTypeOK
  <2> QED BY <1>0, <2>1, <2>2 DEF Bounds
<1>9. CASE Reboot
  <2>1. /\ startedAt' = now /\ lastTick' = now /\ now' = now
        /\ \A f \in Firers : firer'[f].at = "idle"
    BY <1>9 DEF Reboot, AtRest
  <2> QED BY <1>0, <2>1 DEF Bounds
<1>10. CASE UNCHANGED clockVars
  BY <1>10 DEF clockVars, Bounds
<1> QED BY <1>0, <1>1, <1>4, <1>5, <1>6, <1>7, <1>8, <1>9, <1>10 DEF ClockNext

\* The instants whose lock this process has taken.
Burnt == {t \in Instants : expiry[t] # 0}

\* What becomes of the lock, and of the firers, when one of them burns.
LEMMA BurnIs ==
  ASSUME ClockTypeOK, NEW f \in Firers, NEW t \in Instants, Burn(f, t)
  PROVE  /\ \A g \in Firers : g # f => firer'[g] = firer[g]
         /\ \/ /\ firer'[f].at = "idle" /\ expiry' = expiry
            \/ /\ expiry[t] <= now
               /\ firer'[f].at = "fire" /\ firer'[f].instant = t
               /\ firer'[f].burnt = now
               /\ \A u \in Instants :
                    expiry'[u] = IF u = t THEN now + Ttl ELSE expiry[u]
         /\ Burnt' = Burnt \cup {t}
<1>1. now \in Nat /\ Ttl \in Nat \ {0} /\ expiry \in [Instants -> Nat]
  BY ClockTypes DEF ClockTypeOK
<1>2. CASE Held(t)
  <2>1. firer' = [firer EXCEPT ![f] = AtRest] /\ expiry' = expiry
    BY <1>2 DEF Burn
  <2>2. t \in Burnt
    BY <1>1, <1>2 DEF Held, Burnt
  <2> QED BY <2>1, <2>2 DEF AtRest, ClockTypeOK, Burnt
<1>3. CASE ~ Held(t)
  <2>1. /\ firer' = [firer EXCEPT ![f] =
             [AtRest EXCEPT !.at = "fire", !.instant = t, !.burnt = now]]
        /\ expiry' = [expiry EXCEPT ![t] = now + Ttl]
    BY <1>3 DEF Burn
  <2>2. expiry[t] <= now
    BY <1>1, <1>3 DEF Held
  <2>3. now + Ttl # 0
    BY <1>1
  <2>4. \A u \in Instants : expiry'[u] = IF u = t THEN now + Ttl ELSE expiry[u]
    BY <1>1, <2>1
  <2>5. Burnt' = Burnt \cup {t}
    BY <2>3, <2>4 DEF Burnt
  <2>6. /\ firer'[f].at = "fire" /\ firer'[f].instant = t /\ firer'[f].burnt = now
        /\ \A g \in Firers : g # f => firer'[g] = firer[g]
    BY <2>1 DEF AtRest, ClockTypeOK
  <2> QED BY <2>2, <2>4, <2>5, <2>6
<1> QED BY <1>2, <1>3

\* A lock is free again only once every burn of it is a TTL old.
LEMMA BurnStep ==
  ASSUME ClockTypeOK, Bounds, FireInv, NEW f \in Firers, NEW t \in Instants, t <= now,
         Burn(f, t), UNCHANGED <<now, startedAt, restarts, fired>>
  PROVE  FireInv'
<1>0. /\ now \in Nat /\ Ttl \in Nat \ {0} /\ expiry \in [Instants -> Nat]
      /\ \A g \in Firers : firer[g].burnt \in Nat
  BY ClockTypes DEF ClockTypeOK
<1>1. \A g \in Firers : g # f => firer'[g] = firer[g]
  BY BurnIs
<1>2. CASE firer'[f].at = "idle" /\ expiry' = expiry
  BY <1>1, <1>2 DEF FireInv, Apart
<1>3. CASE /\ expiry[t] <= now
           /\ firer'[f].at = "fire" /\ firer'[f].instant = t /\ firer'[f].burnt = now
           /\ \A u \in Instants :
                expiry'[u] = IF u = t THEN now + Ttl ELSE expiry[u]
  <2>1. \A u \in Instants : expiry[u] <= expiry'[u]
    BY <1>0, <1>3
  <2>2. ASSUME NEW g \in Firers, firer'[g].at = "fire"
        PROVE  /\ firer'[g].instant \in Instants /\ firer'[g].instant <= now
               /\ firer'[g].burnt + Ttl <= expiry'[firer'[g].instant]
    <3>1. CASE g = f
      BY <1>0, <1>3, <3>1
    <3>2. CASE g # f
      <4>1. /\ firer[g].instant \in Instants /\ firer[g].instant <= now
            /\ firer[g].burnt + Ttl <= expiry[firer[g].instant]
        BY <1>1, <2>2, <3>2 DEF FireInv
      <4> QED BY <1>0, <1>1, <2>1, <3>2, <4>1, <1>3
    <3> QED BY <3>1, <3>2
  <2>3. ASSUME NEW g \in Firers, g # f, firer[g].at = "fire", firer[g].instant = t
        PROVE  firer[g].burnt + Ttl <= now
    <3>1. firer[g].burnt + Ttl <= expiry[t]
      BY <2>3 DEF FireInv
    <3> QED BY <1>0, <1>3, <3>1
  <2>4. \A g, h \in Firers :
          firer'[g].at = "fire" /\ firer'[h].at = "fire" /\ g # h
            /\ firer'[g].instant = firer'[h].instant
          => Apart(firer'[g].burnt, firer'[h].burnt)
    BY <1>1, <1>3, <2>3 DEF FireInv, Apart
  <2>5. ASSUME NEW i \in DOMAIN fired, fired[i].boot = restarts
        PROVE  /\ fired[i].burnt + Ttl <= expiry'[fired[i].instant]
               /\ \A g \in Firers :
                    firer'[g].at = "fire" /\ firer'[g].instant = fired[i].instant
                      => Apart(fired[i].burnt, firer'[g].burnt)
    <3>1. /\ fired[i].burnt + Ttl <= expiry[fired[i].instant]
          /\ fired[i].instant \in Instants /\ fired[i].burnt \in Nat
      BY <2>5, FiredTypes DEF FireInv
    <3>2. fired[i].burnt + Ttl <= expiry'[fired[i].instant]
      BY <1>0, <1>3, <3>1
    <3>3. ASSUME NEW g \in Firers, firer'[g].at = "fire",
                 firer'[g].instant = fired[i].instant
          PROVE  Apart(fired[i].burnt, firer'[g].burnt)
      <4>1. CASE g = f
        BY <1>0, <1>3, <3>1, <3>3, <4>1 DEF Apart
      <4>2. CASE g # f
        BY <1>1, <2>5, <3>3, <4>2 DEF FireInv
      <4> QED BY <4>1, <4>2
    <3> QED BY <3>2, <3>3
  <2> QED BY <2>2, <2>4, <2>5 DEF FireInv, Apart
<1> QED BY <1>2, <1>3, BurnIs

\* Between the burn and the record a fire stays a TTL from every other.
LEMMA FireStepFires ==
  ASSUME ClockTypeOK, Bounds, FireInv, NEW f \in Firers, Fire(f)
  PROVE  FireInv'
<1> DEFINE r == [instant |-> firer[f].instant, by |-> f, boot |-> restarts,
                 burnt |-> firer[f].burnt]
<1>0. restarts \in Nat /\ startedAt \in Nat
  BY ClockTypes DEF ClockTypeOK
<1>1. /\ UNCHANGED <<now, startedAt, restarts, expiry>>
      /\ firer[f].at = "fire"
      /\ fired' = fired \/ fired' = Append(fired, r)
  BY DEF Fire
<1>2. /\ \A g \in Firers : g # f => firer'[g] = firer[g]
      /\ firer'[f].at = "idle"
  BY DEF Fire, AtRest, ClockTypeOK
<1>3. CASE fired' = fired
  BY <1>1, <1>2, <1>3 DEF FireInv, Apart
<1>4. CASE fired' = Append(fired, r)
  <2>1. /\ r.instant = firer[f].instant /\ r.by = f /\ r.boot = restarts
        /\ r.burnt = firer[f].burnt /\ r \in FireType
    BY <1>1 DEF FireInv, ClockTypeOK, FireType
  <2> HIDE DEF r
  <2> DEFINE n == Len(fired) + 1
  <2>2. /\ \A i \in DOMAIN fired : fired'[i] = fired[i] /\ i < n
        /\ fired'[n] = r
        /\ \A i \in DOMAIN fired' : i \in DOMAIN fired \/ i = n
    BY <1>4, <2>1, FireAppends
  <2> HIDE DEF n
  <2>3. \A g \in Firers : firer'[g].at = "fire" => g # f /\ firer'[g] = firer[g]
    BY <1>2
  <2>4. /\ r.instant \in Instants /\ r.instant <= now
        /\ r.burnt + Ttl <= expiry[r.instant]
    BY <1>1, <2>1 DEF FireInv
  <2>5. \A g \in Firers : firer'[g].at = "fire" /\ firer'[g].instant = r.instant
                            => Apart(r.burnt, firer'[g].burnt)
    BY <1>1, <2>1, <2>3 DEF FireInv
  <2>6. ASSUME NEW i \in DOMAIN fired'
        PROVE  /\ fired'[i].boot <= restarts /\ fired'[i].instant <= now
               /\ fired'[i].boot = restarts =>
                    /\ fired'[i].burnt + Ttl <= expiry[fired'[i].instant]
                    /\ \A g \in Firers :
                         firer'[g].at = "fire" /\ firer'[g].instant = fired'[i].instant
                           => Apart(fired'[i].burnt, firer'[g].burnt)
               /\ fired'[i].boot # restarts => fired'[i].instant <= startedAt
    <3>1. CASE i \in DOMAIN fired
      <4>1. fired'[i] = fired[i]
        BY <2>2, <3>1
      <4>2. /\ fired[i].boot <= restarts /\ fired[i].instant <= now
            /\ fired[i].boot = restarts =>
                 /\ fired[i].burnt + Ttl <= expiry[fired[i].instant]
                 /\ \A g \in Firers :
                      firer'[g].at = "fire" /\ firer'[g].instant = fired[i].instant
                        => Apart(fired[i].burnt, firer'[g].burnt)
            /\ fired[i].boot # restarts => fired[i].instant <= startedAt
        BY <2>3, <3>1 DEF FireInv
      <4> QED BY <4>1, <4>2
    <3>2. CASE i = n
      BY <1>0, <2>1, <2>2, <2>4, <2>5, <3>2
    <3> QED BY <2>2, <3>1, <3>2
  <2>7. ASSUME NEW i \in DOMAIN fired', NEW j \in DOMAIN fired', i < j,
               fired'[i].instant = fired'[j].instant
        PROVE  IF fired'[i].boot = fired'[j].boot
                 THEN Apart(fired'[i].burnt, fired'[j].burnt)
                 ELSE fired'[j].by = Route
    <3>1. i \in DOMAIN fired
      <4>1. \A k \in DOMAIN fired : ~ (n < k)
        <5>1. n \in Nat /\ DOMAIN fired \subseteq Nat
          BY FireAppends, <1>4, <2>1 DEF n
        <5> QED BY <2>2, <5>1
      <4>2. n \in Nat
        BY FireAppends, <1>4, <2>1 DEF n
      <4> QED BY <2>2, <2>7, <4>1, <4>2
    <3>2. CASE j \in DOMAIN fired
      <4>1. fired'[i] = fired[i] /\ fired'[j] = fired[j]
        BY <2>2, <3>1, <3>2
      <4>2. IF fired[i].boot = fired[j].boot
              THEN Apart(fired[i].burnt, fired[j].burnt)
              ELSE fired[j].by = Route
        BY <2>7, <3>1, <3>2, <4>1 DEF FireInv
      <4> QED BY <4>1, <4>2
    <3>3. CASE j = n
      <4>1. fired'[i] = fired[i] /\ fired'[j] = r /\ fired[i].instant = firer[f].instant
        BY <2>1, <2>2, <2>7, <3>1, <3>3
      <4>2. CASE fired[i].boot = restarts
        <5>1. Apart(fired[i].burnt, firer[f].burnt)
          BY <1>1, <3>1, <4>1, <4>2 DEF FireInv
        <5> QED BY <2>1, <4>1, <4>2, <5>1
      <4>3. CASE fired[i].boot # restarts
        <5>1. fired[i].instant <= startedAt /\ firer[f].instant \in Nat
          BY <1>1, <3>1, <4>3, ClockTypes DEF FireInv
        <5>2. f \in Scans => startedAt < firer[f].instant
          BY <1>1 DEF Bounds
        <5>3. f \notin Scans
          BY <1>0, <4>1, <5>1, <5>2
        <5> QED BY <2>1, <4>1, <4>3, <5>3 DEF Firers
      <4> QED BY <4>2, <4>3
    <3> QED BY <2>2, <3>2, <3>3
  <2>8. \A g \in Firers : firer'[g].at = "fire" =>
          /\ firer'[g].instant \in Instants /\ firer'[g].instant <= now
          /\ firer'[g].burnt + Ttl <= expiry[firer'[g].instant]
    BY <2>3 DEF FireInv
  <2>9. \A g, h \in Firers :
          firer'[g].at = "fire" /\ firer'[h].at = "fire" /\ g # h
            /\ firer'[g].instant = firer'[h].instant
          => Apart(firer'[g].burnt, firer'[h].burnt)
    BY <2>3 DEF FireInv
  <2> QED BY <1>1, <2>6, <2>7, <2>8, <2>9 DEF FireInv, Apart
<1> QED BY <1>1, <1>3, <1>4

LEMMA FireInvStep ==
  ClockTypeOK /\ Bounds /\ FireInv /\ [ClockNext]_clockVars => FireInv'
<1> SUFFICES ASSUME ClockTypeOK, Bounds, FireInv, [ClockNext]_clockVars PROVE FireInv'
  OBVIOUS
<1>0. /\ Scans \subseteq Firers /\ Route \in Firers
      /\ now \in Nat /\ startedAt \in Nat /\ restarts \in Nat
  BY ClockTypes DEF Firers, ClockTypeOK
<1>1. ASSUME UNCHANGED <<now, startedAt, restarts, expiry, fired>>,
             \A f \in Firers : firer'[f] = firer[f] \/ firer'[f].at # "fire"
      PROVE  FireInv'
  BY <1>1 DEF FireInv, Apart
<1>2. ASSUME NEW w \in Scans, Tick(w) \/ ScanFails(w) PROVE FireInv'
  <2>1. PICK a : /\ a.at # "fire" /\ firer' = [firer EXCEPT ![w] = a]
                 /\ UNCHANGED <<now, startedAt, restarts, expiry, fired>>
    <3> DEFINE scan == [AtRest EXCEPT !.at = "scan", !.since = EvalSince(lastTick),
                                      !.until = now - Grace]
    <3>1. scan.at = "scan" /\ AtRest.at = "idle"
      BY DEF AtRest
    <3>2. \/ firer' = [firer EXCEPT ![w] = scan]
          \/ firer' = [firer EXCEPT ![w] = AtRest]
      BY <1>2 DEF Tick, ScanFails
    <3>3. UNCHANGED <<now, startedAt, restarts, expiry, fired>>
      BY <1>2 DEF Tick, ScanFails
    <3> QED BY <3>1, <3>2, <3>3
  <2>2. \A f \in Firers : firer'[f] = firer[f] \/ firer'[f].at # "fire"
    BY <1>0, <2>1 DEF ClockTypeOK
  <2> QED BY <1>1, <2>1, <2>2
<1>3. ASSUME NEW w \in Scans, ScanDue(w) PROVE FireInv'
  <2>1. PICK t : /\ t = Min(DueIn(firer[w].since, firer[w].until))
                 /\ DueIn(firer[w].since, firer[w].until) # {}
                 /\ firer[w].at = "scan"
                 /\ Burn(w, t)
    BY <1>3 DEF ScanDue
  <2>2. t \in Instants /\ t <= now
    BY <2>1, DueIs
  <2> QED BY <1>0, <1>3, <2>1, <2>2, BurnStep DEF ScanDue
<1>4. ASSUME NEW t \in Instants, Deliver(t) PROVE FireInv'
  BY <1>0, <1>4, BurnStep DEF Deliver
<1>5. ASSUME NEW f \in Firers, Fire(f) PROVE FireInv'
  BY <1>5, FireStepFires
<1>6. CASE Elapse
  <2>1. now' = now + 1 /\ UNCHANGED <<startedAt, restarts, expiry, firer, fired>>
    BY <1>6 DEF Elapse
  <2>2. ASSUME NEW f \in Firers, firer[f].at = "fire"
        PROVE  firer[f].instant <= now'
    <3>1. firer[f].instant \in Instants /\ firer[f].instant <= now
      BY <2>2 DEF FireInv
    <3>2. firer[f].instant \in Nat
      BY <3>1, ClockTypes
    <3> QED BY <1>0, <2>1, <3>1, <3>2
  <2>3. ASSUME NEW i \in DOMAIN fired PROVE fired[i].instant <= now'
    <3>1. fired[i].instant \in Nat
      BY FiredTypes
    <3>2. fired[i].instant <= now
      BY DEF FireInv
    <3> QED BY <1>0, <2>1, <3>1, <3>2
  <2> QED BY <2>1, <2>2, <2>3 DEF FireInv, Apart
<1>7. CASE Reboot
  <2>1. /\ restarts' = restarts + 1 /\ startedAt' = now
        /\ UNCHANGED <<now, fired>>
        /\ \A f \in Firers : firer'[f].at = "idle"
    BY <1>7 DEF Reboot, AtRest
  <2>2. ASSUME NEW i \in DOMAIN fired
        PROVE  /\ fired[i].boot <= restarts' /\ fired[i].boot # restarts'
               /\ fired[i].instant <= startedAt'
    <3>1. fired[i].boot \in Nat
      BY FiredTypes
    <3>2. fired[i].boot <= restarts /\ fired[i].instant <= now
      BY DEF FireInv
    <3> QED BY <1>0, <2>1, <3>1, <3>2
  <2> QED BY <2>1, <2>2 DEF FireInv, Apart
<1>8. CASE UNCHANGED clockVars
  BY <1>1, <1>8 DEF clockVars
<1> QED BY <1>0, <1>2, <1>3, <1>4, <1>5, <1>6, <1>7, <1>8 DEF ClockNext

\* A sweep claims what no sweep has looked at, and then only gives up claims.
LEMMA ClaimInvStep ==
  ClockTypeOK /\ Bounds /\ FireInv /\ ClaimInv /\ [ClockNext]_clockVars => ClaimInv'
<1> SUFFICES ASSUME ClockTypeOK, Bounds, FireInv, ClaimInv, [ClockNext]_clockVars
             PROVE  ClaimInv'
  OBVIOUS
<1>0. /\ Scans \subseteq Firers /\ Route \in Firers /\ Route \notin Scans
      /\ now \in Nat /\ lastTick \in Nat /\ restarts \in Nat /\ Grace \in Nat
  BY ClockTypes DEF Firers, ClockTypeOK
<1>1. ASSUME UNCHANGED <<lastTick, restarts, fired>>,
             \A w \in Scans : Claims(w)' \subseteq Claims(w)
      PROVE  ClaimInv'
  BY <1>1 DEF ClaimInv
<1>2. ASSUME NEW w \in Scans, firer' = [firer EXCEPT ![w] = AtRest]
      PROVE  /\ Claims(w)' = {}
             /\ \A v \in Scans : v # w => Claims(v)' = Claims(v)
  BY <1>0, <1>2 DEF Claims, AtRest, ClockTypeOK, DueIn
<1>3. ASSUME NEW w \in Scans, Tick(w) PROVE ClaimInv'
  <2>1. /\ firer'[w].at = "scan" /\ firer'[w].until = now - Grace
        /\ firer'[w].since = EvalSince(lastTick)
        /\ lastTick' = now /\ UNCHANGED <<restarts, fired>>
        /\ \A g \in Firers : g # w => firer'[g] = firer[g]
    BY <1>0, <1>3 DEF Tick, ClockTypeOK, AtRest
  <2>2. \A v \in Scans : v # w => Claims(v)' = Claims(v)
    BY <1>0, <2>1 DEF Claims, DueIn
  <2>3. ASSUME NEW t \in Claims(w)'
        PROVE  t \in Instants /\ t \in Nat /\ lastTick - Grace < t /\ t <= now - Grace
    <3>1. t \in Instants /\ EvalSince(lastTick) < t /\ t <= now - Grace
      BY <2>1 DEF Claims, DueIn
    <3>2. t \in Nat
      BY <3>1, ClockTypes
    <3>3. EvalSince(lastTick) \in Nat /\ lastTick - Grace <= EvalSince(lastTick)
      BY EvalSinceIs
    <3> QED BY <1>0, <3>1, <3>2, <3>3
  <2>4. lastTick - Grace <= now - Grace
    BY <1>0 DEF Bounds
  <2>5. ASSUME NEW v \in Scans, NEW t \in Claims(v)
        PROVE  t \in Nat /\ t \in Instants /\ t <= lastTick - Grace
    BY ClockTypes DEF ClaimInv
  <2>6. ASSUME NEW v \in Scans, NEW t \in Claims(v)'
        PROVE  t \in Instants /\ t <= now - Grace
    <3>1. CASE v = w
      BY <2>3, <3>1
    <3>2. CASE v # w
      <4>1. t \in Nat /\ t \in Instants /\ t <= lastTick - Grace
        BY <2>2, <2>5, <3>2
      <4> QED BY <1>0, <2>4, <4>1
    <3> QED BY <3>1, <3>2
  <2>7. \A v \in Scans : v # w => Claims(v)' \cap Claims(w)' = {}
    <3> SUFFICES ASSUME NEW v \in Scans, v # w, NEW t \in Claims(v),
                        t \in Claims(w)'
                 PROVE  FALSE
      BY <2>2
    <3>1. t \in Nat /\ t <= lastTick - Grace /\ lastTick - Grace < t
      BY <2>3, <2>5
    <3> QED BY <1>0, <3>1
  <2>8. \A u, v \in Scans : u # v => Claims(u)' \cap Claims(v)' = {}
    BY <2>2, <2>7 DEF ClaimInv
  <2>9. ASSUME NEW i \in DOMAIN fired, fired[i].by \in Scans, fired[i].boot = restarts
        PROVE  /\ fired[i].instant <= now - Grace
               /\ \A v \in Scans : fired[i].instant \notin Claims(v)'
    <3>1. /\ fired[i].instant <= lastTick - Grace /\ fired[i].instant \in Nat
          /\ \A v \in Scans : fired[i].instant \notin Claims(v)
      BY <2>9, FiredTypes DEF ClaimInv
    <3>2. fired[i].instant \notin Claims(w)'
      BY <1>0, <2>3, <3>1
    <3> QED BY <1>0, <2>2, <2>4, <3>1, <3>2
  <2> QED BY <2>1, <2>6, <2>8, <2>9 DEF ClaimInv
<1>4. ASSUME NEW w \in Scans, ScanFails(w) PROVE ClaimInv'
  BY <1>1, <1>2, <1>4 DEF ScanFails
<1>5. ASSUME NEW w \in Scans, ScanDue(w) PROVE ClaimInv'
  <2> DEFINE due == DueIn(firer[w].since, firer[w].until)
  <2>1. /\ due # {} /\ firer[w].at = "scan" /\ Burn(w, Min(due))
        /\ UNCHANGED <<lastTick, restarts, fired>>
    BY <1>5 DEF ScanDue
  <2>2. Min(due) \in due /\ Min(due) \in Instants
    <3>1. due \in SUBSET Nat /\ due \subseteq Instants
      BY ClockTypes DEF DueIn
    <3> QED BY <2>1, <3>1, MinIsFirst
  <2>3. /\ \A g \in Firers : g # w => firer'[g] = firer[g]
        /\ \/ firer'[w].at = "idle"
           \/ firer'[w].at = "fire" /\ firer'[w].instant = Min(due)
    BY <1>0, <2>1, <2>2, BurnIs
  <2>4. Claims(w) = due
    BY <2>1 DEF Claims
  <2> HIDE DEF due
  <2>5. Claims(w)' \subseteq Claims(w)
    BY <2>2, <2>3, <2>4 DEF Claims
  <2>6. \A v \in Scans : v # w => Claims(v)' = Claims(v)
    BY <1>0, <2>3 DEF Claims, DueIn
  <2> QED BY <1>1, <2>1, <2>5, <2>6
<1>6. ASSUME NEW t \in Instants, Deliver(t) PROVE ClaimInv'
  <2>1. /\ Burn(Route, t) /\ UNCHANGED <<lastTick, restarts, fired>>
    BY <1>6 DEF Deliver
  <2>2. \A w \in Scans : firer'[w] = firer[w]
    BY <1>0, <2>1, BurnIs
  <2> QED BY <1>1, <2>1, <2>2 DEF Claims, DueIn
<1>7. ASSUME NEW f \in Firers, Fire(f) PROVE ClaimInv'
  <2> DEFINE r == [instant |-> firer[f].instant, by |-> f, boot |-> restarts,
                   burnt |-> firer[f].burnt]
  <2>1. /\ UNCHANGED <<lastTick, restarts>>
        /\ firer' = [firer EXCEPT ![f] = AtRest] /\ firer[f].at = "fire"
        /\ fired' = fired \/ fired' = Append(fired, r)
    BY <1>7 DEF Fire
  <2>2. \A w \in Scans : Claims(w)' = IF w = f THEN {} ELSE Claims(w)
    <3>1. CASE f \in Scans
      BY <1>2, <2>1, <3>1
    <3>2. CASE f \notin Scans
      <4>1. \A w \in Scans : firer'[w] = firer[w]
        BY <1>0, <2>1, <3>2 DEF ClockTypeOK
      <4> QED BY <3>2, <4>1 DEF Claims, DueIn
    <3> QED BY <3>1, <3>2
  <2>3. CASE fired' = fired
    BY <1>1, <2>1, <2>2, <2>3
  <2>4. CASE fired' = Append(fired, r)
    <3>1. /\ r.instant = firer[f].instant /\ r.by = f /\ r.boot = restarts
          /\ r \in FireType
      BY <2>1 DEF FireInv, ClockTypeOK, FireType
    <3> HIDE DEF r
    <3> DEFINE n == Len(fired) + 1
    <3>2. /\ \A i \in DOMAIN fired : fired'[i] = fired[i] /\ i < n
          /\ fired'[n] = r /\ n \in Nat /\ DOMAIN fired \subseteq Nat
          /\ \A i \in DOMAIN fired' : i \in DOMAIN fired \/ i = n
      BY <2>4, <3>1, FireAppends
    <3> HIDE DEF n
    <3>3. f \in Scans => /\ r.instant \in Claims(f)
                         /\ r.instant <= lastTick - Grace
                         /\ \A w \in Scans : w # f => r.instant \notin Claims(w)
      <4> SUFFICES ASSUME f \in Scans
                   PROVE  /\ r.instant \in Claims(f)
                          /\ r.instant <= lastTick - Grace
                          /\ \A w \in Scans : w # f => r.instant \notin Claims(w)
        OBVIOUS
      <4>1. r.instant \in Claims(f)
        BY <2>1, <3>1 DEF Claims
      <4> QED BY <4>1 DEF ClaimInv
    <3>4. ASSUME NEW i \in DOMAIN fired', fired'[i].by \in Scans, fired'[i].boot = restarts
          PROVE  /\ fired'[i].instant <= lastTick - Grace
                 /\ \A w \in Scans : fired'[i].instant \notin Claims(w)'
      <4>1. CASE i \in DOMAIN fired
        <5>1. fired'[i] = fired[i]
          BY <3>2, <4>1
        <5> QED BY <2>2, <3>4, <4>1, <5>1 DEF ClaimInv
      <4>2. CASE i = n
        BY <2>2, <3>1, <3>2, <3>3, <3>4, <4>2
      <4> QED BY <3>2, <4>1, <4>2
    <3>5. ASSUME NEW i \in DOMAIN fired', NEW j \in DOMAIN fired', i < j,
                 fired'[i].instant = fired'[j].instant, fired'[i].boot = fired'[j].boot
          PROVE  Route \in {fired'[i].by, fired'[j].by}
      <4>1. i \in DOMAIN fired /\ fired'[i] = fired[i]
        <5>1. \A k \in DOMAIN fired : ~ (n < k)
          BY <3>2
        <5> QED BY <3>2, <3>5, <5>1
      <4>2. CASE j \in DOMAIN fired
        <5>1. fired'[j] = fired[j]
          BY <3>2, <4>2
        <5> QED BY <3>5, <4>1, <4>2, <5>1 DEF ClaimInv
      <4>3. CASE j = n
        <5>1. fired'[j] = r
          BY <3>2, <4>3
        <5>2. fired[i].by \in Scans => f \notin Scans
          <6> SUFFICES ASSUME fired[i].by \in Scans, f \in Scans PROVE FALSE
            OBVIOUS
          <6>1. r.instant \in Claims(f) /\ fired[i].instant = r.instant
                /\ fired[i].boot = restarts
            BY <3>1, <3>3, <3>5, <4>1, <5>1
          <6> QED BY <4>1, <6>1 DEF ClaimInv
        <5>3. fired[i].by \in Firers
          BY <4>1, FiredTypes
        <5> QED BY <3>1, <4>1, <5>1, <5>2, <5>3 DEF Firers
      <4> QED BY <3>2, <4>2, <4>3
    <3>6. /\ \A w \in Scans : \A t \in Claims(w)' : t \in Instants /\ t <= lastTick - Grace
          /\ \A v, w \in Scans : v # w => Claims(v)' \cap Claims(w)' = {}
      BY <2>2 DEF ClaimInv
    <3> QED BY <2>1, <3>4, <3>5, <3>6 DEF ClaimInv
  <2> QED BY <2>1, <2>3, <2>4
<1>8. CASE Elapse \/ UNCHANGED clockVars
  BY <1>1, <1>8 DEF Elapse, clockVars, Claims, DueIn
<1>9. CASE Reboot
  <2>1. /\ restarts' = restarts + 1 /\ fired' = fired
        /\ \A w \in Scans : firer'[w].at = "idle"
    BY <1>0, <1>9 DEF Reboot, AtRest
  <2>2. \A w \in Scans : Claims(w)' = {}
    BY <2>1 DEF Claims
  <2>3. ASSUME NEW i \in DOMAIN fired PROVE fired[i].boot # restarts'
    <3>1. fired[i].boot \in Nat /\ fired[i].boot <= restarts
      BY FiredTypes DEF FireInv
    <3> QED BY <1>0, <2>1, <3>1
  <2> QED BY <2>1, <2>2, <2>3 DEF ClaimInv
<1> QED BY <1>0, <1>3, <1>4, <1>5, <1>6, <1>7, <1>8, <1>9 DEF ClockNext

\* The instant has been dealt with, or a sweep is looking for it.
Covered(t) ==
  \/ t \in Burnt \cup missed
  \/ \E w \in Scans : /\ firer[w].at = "scan"
                       /\ t \in DueIn(firer[w].since, firer[w].until)

LEMMA TileStep ==
  ClockTypeOK /\ Bounds /\ NoInstantSkipped /\ [ClockNext]_clockVars => NoInstantSkipped'
<1> SUFFICES ASSUME ClockTypeOK, Bounds, NoInstantSkipped, [ClockNext]_clockVars,
                    NEW t \in Instants, startedAt' < t, t <= lastTick' - Grace
             PROVE  Covered(t)'
  BY DEF NoInstantSkipped, DueIn, Covered, Burnt
<1>0. /\ Scans \subseteq Firers /\ Route \in Firers /\ Route \notin Scans
      /\ now \in Nat /\ startedAt \in Nat /\ lastTick \in Nat /\ t \in Nat
      /\ Grace \in Nat
  BY ClockTypes DEF Firers, ClockTypeOK
<1>1. startedAt' = startedAt /\ t <= lastTick - Grace => Covered(t)
  BY DEF NoInstantSkipped, Covered, Burnt
<1>2. ASSUME Covered(t), Burnt \subseteq Burnt', missed \subseteq missed',
             NEW f \in Firers, \A g \in Firers : g # f => firer'[g] = firer[g],
             f \in Scans /\ firer[f].at = "scan"
               => DueIn(firer[f].since, firer[f].until) \subseteq Burnt' \cup missed'
      PROVE  Covered(t)'
  BY <1>0, <1>2 DEF Covered, DueIn
<1>3. ASSUME NEW w \in Scans, Tick(w) PROVE Covered(t)'
  <2>1. /\ firer'[w].at = "scan" /\ firer'[w].until = now - Grace
        /\ firer'[w].since = EvalSince(lastTick)
        /\ lastTick' = now /\ UNCHANGED <<startedAt, now, Burnt, missed>>
        /\ firer[w].at = "idle"
        /\ \A g \in Firers : g # w => firer'[g] = firer[g]
    BY <1>0, <1>3 DEF Tick, ClockTypeOK, AtRest, Burnt
  <2>2. CASE t <= lastTick - Grace
    BY <1>0, <1>1, <1>2, <2>1, <2>2
  <2>3. CASE lastTick - Grace < t
    <3>1. EvalSince(lastTick) < t /\ t <= now - Grace
      BY <1>0, <2>1, <2>3, EvalSinceIs
    <3>2. t \in DueIn(firer'[w].since, firer'[w].until)
      BY <2>1, <3>1 DEF DueIn
    <3> QED BY <2>1, <3>2 DEF Covered, DueIn
  <2> QED BY <1>0, <2>2, <2>3
<1>4. ASSUME NEW w \in Scans, ScanFails(w) PROVE Covered(t)'
  <2>1. /\ UNCHANGED <<startedAt, lastTick, Burnt>>
        /\ missed' = missed \cup DueIn(firer[w].since, firer[w].until)
        /\ \A g \in Firers : g # w => firer'[g] = firer[g]
    BY <1>0, <1>4 DEF ScanFails, ClockTypeOK, Burnt
  <2> QED BY <1>0, <1>1, <1>2, <2>1
<1>5. ASSUME NEW w \in Scans, ScanDue(w) PROVE Covered(t)'
  <2>1. PICK m : /\ m = Min(DueIn(firer[w].since, firer[w].until))
                 /\ DueIn(firer[w].since, firer[w].until) # {}
                 /\ firer[w].at = "scan" /\ Burn(w, m)
                 /\ missed' = missed
                      \cup (DueIn(firer[w].since, firer[w].until) \ {m})
    BY <1>5 DEF ScanDue
  <2>2. /\ UNCHANGED <<startedAt, lastTick>> /\ Burnt' = Burnt \cup {m}
        /\ \A g \in Firers : g # w => firer'[g] = firer[g]
    <3>1. m \in Instants
      BY <2>1, DueIs
    <3> QED BY <1>0, <1>5, <2>1, <3>1, BurnIs DEF ScanDue
  <2> QED BY <1>0, <1>1, <1>2, <2>1, <2>2
<1>6. ASSUME NEW i \in Instants, Deliver(i) PROVE Covered(t)'
  <2>1. /\ UNCHANGED <<startedAt, lastTick, missed>> /\ Burnt \subseteq Burnt'
        /\ \A g \in Firers : g # Route => firer'[g] = firer[g]
    BY <1>0, <1>6, BurnIs DEF Deliver
  <2> QED BY <1>0, <1>1, <1>2, <2>1
<1>7. ASSUME NEW f \in Firers, Fire(f) PROVE Covered(t)'
  <2>1. /\ UNCHANGED <<startedAt, lastTick, Burnt, missed>>
        /\ firer[f].at = "fire"
        /\ \A g \in Firers : g # f => firer'[g] = firer[g]
    BY <1>7 DEF Fire, ClockTypeOK, Burnt
  <2> QED BY <1>0, <1>1, <1>2, <2>1
<1>8. CASE Elapse \/ UNCHANGED clockVars
  <2>1. UNCHANGED <<startedAt, lastTick, Burnt, missed, firer>>
    BY <1>8 DEF Elapse, clockVars, Burnt
  <2> QED BY <1>1, <2>1 DEF Covered, DueIn
<1>9. CASE Reboot
  BY <1>0, <1>9 DEF Reboot
<1> QED BY <1>0, <1>3, <1>4, <1>5, <1>6, <1>7, <1>8, <1>9 DEF ClockNext

-----------------------------------------------------------------------------
(* The theorems.                                                           *)

\* Every reachable state of the scheduler satisfies the invariant.
THEOREM ClockInvariant == ClockSpec => []ClockInv
<1>1. ClockInit => ClockInv
  <2> SUFFICES ASSUME ClockInit PROVE ClockInv
    OBVIOUS
  <2>1. ClockTypeOK
    BY ClockTypes DEF ClockInit, ClockTypeOK, AtRest
  <2>2. Bounds /\ FireInv /\ ClaimInv
    BY DEF ClockInit, Bounds, FireInv, ClaimInv, Claims, AtRest, Firers
  <2>3. NoInstantSkipped
    BY ClockTypes DEF ClockInit, NoInstantSkipped
  <2> QED BY <2>1, <2>2, <2>3 DEF ClockInv
<1>2. ClockInv /\ [ClockNext]_clockVars => ClockInv'
  BY ClockTypeStep, BoundsStep, FireInvStep, ClaimInvStep, TileStep DEF ClockInv
<1> QED BY <1>1, <1>2, PTL DEF ClockSpec

\* Every variable stays within its type, for any schedule and any grace.
THEOREM ClockTypeCorrect == ClockSpec => []ClockTypeOK
BY ClockInvariant, PTL DEF ClockInv

\* A due instant is fired once by any number of overlapping sweeps and the
\* control plane's delivery together (scheduler.ts:76-83, fire-lock.ts); only a
\* delivery made again after a restart, or once its lock's TTL is over (turn/
\* bus.ts:48-55), repeats one.
THEOREM NeverTwice == ClockSpec => []FiresOnce
<1>1. ClockInv => FiresOnce
  BY DEF ClockInv, FireInv, ClaimInv, FiresOnce
<1> QED BY <1>1, ClockInvariant, PTL

\* No instant that came due while the process ran is passed over.
THEOREM NothingSkipped == ClockSpec => []NoInstantSkipped
BY ClockInvariant, PTL DEF ClockInv
=============================================================================
