------------------------------ MODULE RoutineRuns ------------------------------
(***************************************************************************)
(* The runs of one routine: packages/host/src/schedule (run, cancel,       *)
(* reconcile, runs-lock).  RoutineClock models when a due instant is       *)
(* handed to fireRoutineRun; here that may happen at any time.             *)
(*                                                                         *)
(* Every writer of routine_runs.json loads the whole file, and saves the   *)
(* whole of it later: an edit under way holds what it is about to save.    *)
(* The queue of the agent lets one edit at a time load, in the order they  *)
(* came.  Ticks overlap: a sweep that is slow is still under way when the  *)
(* timer starts the next.  All runs of the routine share one conversation, *)
(* whose turns the runtime (external) takes one by one; the user may write *)
(* there too, and a turn that compacts leaves a checkpoint in it.          *)
(***************************************************************************)
EXTENDS Naturals, Sequences

CONSTANTS
  Sweeps,      \* ticks of the scheduler that may be under way at once
  MaxKept,     \* MAX_RUNS_PER_ROUTINE
  MaxRuns,     \* bound: runs recorded
  MaxEvents    \* bound: restarts, turns of the user and checkpoints, together

Runs == 1..MaxRuns

ASSUME RoutineAssumption ==
  /\ MaxKept \in Nat \ {0}
  /\ MaxRuns \in Nat /\ MaxEvents \in Nat
  /\ {"fire", "failure", "user"} \cap Sweeps = {}

VARIABLES
  routine,    \* routines.json: "listed" there, "deleted", or "unreadable"
  recorded,   \* runs recorded so far
  run,        \* routine_runs.json: the status of each run
  edits,      \* loads of it to be saved: [by, run, rows]
  fire,       \* each run's fire: none, posting, failed, marking, done
  sweep,      \* the sweeps' reconcile: [at, run, new, own]
  aborts,     \* cancelled runs whose live turn is still to be aborted
  old,        \* is the run that is running older than RUN_TIMEOUT_MS?
  turns,      \* the conversation's unfinished turns: the run, 0 for the user's
  last,       \* its last assistant message: the run it answers, or 0
  replied,    \* runs with an assistant message since their started_at
  crashes,    \* restarts so far
  others,     \* history: turns of the user, and checkpoints, so far
  mistaken,   \* history: has a run been settled by what was no reply to it?
  derailed    \* history: has a run ended with its turn still unfinished?

files == <<recorded, run>>
runtime == <<turns, last, replied, others>>
history == <<mistaken, derailed>>
vars == <<routine, files, edits, fire, sweep, aborts, old, runtime,
          crashes, history>>

Idle == [at |-> "idle", run |-> 0, new |-> "none", own |-> TRUE]

Init ==
  /\ routine = "listed"
  /\ recorded = 0
  /\ run = [r \in Runs |-> "none"]
  /\ edits = {}
  /\ fire = [r \in Runs |-> "none"]
  /\ sweep = [w \in Sweeps |-> Idle]
  /\ aborts = {} /\ old = FALSE
  /\ turns = <<>> /\ last = 0 /\ replied = {}
  /\ crashes = 0 /\ others = 0
  /\ mistaken = FALSE /\ derailed = FALSE

Running == {r \in Runs : run[r] = "running"}

-----------------------------------------------------------------------------
(* withRunsFile.                                                           *)

\* Mutant: edits do not wait for each other.
NoQueue == TRUE

QueueFree == edits = {}

\* An edit loads the file: it will save `rows`.
Load(by, r, rows) ==
  /\ QueueFree
  /\ edits' = edits \cup {[by |-> by, run |-> r, rows |-> rows]}

\* It saves them, whatever the file is by now.  No run is left running, or a
\* new one.
Save(e) ==
  /\ edits' = edits \ {e}
  /\ run' = e.rows
  /\ old' = FALSE

\* Mutant: the row is marked whatever the user set.
AnyRow(r) == TRUE

\* A row that is no longer `running` is left as it is.
StillRuns(r) == r \in Running

Marked(r, status) == [run EXCEPT ![r] = status]

-----------------------------------------------------------------------------
(* fireRoutineRun.                                                         *)

\* The busy gate.
GateFree == Running = {}

\* The oldest past the cap are pruned.
Prunes(r) == r + MaxKept <= recorded + 1

\* A due instant, a delivery or the user's "run now": the gate and the new row,
\* newest first.  A busy routine is left alone.
LoadFire ==
  /\ routine = "listed"
  /\ GateFree
  /\ recorded < MaxRuns
  /\ Load("fire", recorded + 1,
          [r \in Runs |->
             IF r = recorded + 1 THEN "running"
             ELSE IF r <= recorded /\ Prunes(r) THEN "pruned" ELSE run[r]])
  /\ replied' = replied \ {recorded + 1}
  /\ UNCHANGED <<routine, files, fire, sweep, aborts, old, turns, last,
                 others, crashes, history>>

Record(e) ==
  /\ e.by = "fire"
  /\ Save(e)
  /\ recorded' = e.run
  /\ fire' = [fire EXCEPT ![e.run] = "posting"]
  /\ UNCHANGED <<routine, sweep, aborts, runtime, crashes, history>>

\* The turn is posted to the runtime, outside the queue: accepted, refused, or
\* accepted and the answer lost.
Accept(r) ==
  /\ fire[r] = "posting"
  /\ turns' = Append(turns, r)
  /\ fire' = [fire EXCEPT ![r] = "done"]
  /\ UNCHANGED <<routine, files, edits, sweep, aborts, old, last,
                 replied, others, crashes, history>>

Refuse(r) ==
  /\ fire[r] = "posting"
  /\ fire' = [fire EXCEPT ![r] = "failed"]
  /\ UNCHANGED <<routine, files, edits, sweep, aborts, old, runtime,
                 crashes, history>>

LoseAnswer(r) ==
  /\ fire[r] = "posting"
  /\ turns' = Append(turns, r)
  /\ fire' = [fire EXCEPT ![r] = "failed"]
  /\ derailed' = TRUE
  /\ UNCHANGED <<routine, files, edits, sweep, aborts, old, last,
                 replied, others, crashes, mistaken>>

LoadFailure(r) ==
  /\ fire[r] = "failed"
  /\ IF StillRuns(r)
       THEN /\ Load("failure", r, Marked(r, "error"))
            /\ fire' = [fire EXCEPT ![r] = "marking"]
       ELSE /\ QueueFree
            /\ fire' = [fire EXCEPT ![r] = "done"]
            /\ UNCHANGED edits
  /\ UNCHANGED <<routine, files, sweep, aborts, old, runtime, crashes,
                 history>>

MarkErrored(e) ==
  /\ e.by = "failure"
  /\ Save(e)
  /\ fire' = [fire EXCEPT ![e.run] = "done"]
  /\ UNCHANGED <<routine, recorded, sweep, aborts, runtime, crashes,
                 history>>

-----------------------------------------------------------------------------
(* reconcileAgentRuns.                                                     *)

\* Mutant: any assistant message of the conversation will do.
AnyReply(r) == replied # {}

\* replyAfter: is there an assistant message since the run's started_at?
Replied(r) == r \in replied

\* Mutant: only a reply settles a run.
RepliedOnly(r) == Replied(r)

\* It was answered, or it has timed out.
Settles(r) == Replied(r) \/ old

\* The run that is running is judged by what the conversation says now: the
\* last assistant message since it started, whoever had it written.  Where its
\* routine is not listed the sweep passes it over; where routines.json cannot be
\* read it ends with an error.  The lock it takes lasts 120 s, and a sweep may be
\* slower: it keeps no other out for good, and is left out.
Judge(w) ==
  /\ sweep[w].at = "idle"
  /\ routine = "listed"
  /\ \E r \in Running :
       /\ Settles(r)
       /\ sweep' = [sweep EXCEPT ![w] =
                      [at |-> "apply", run |-> r,
                       new |-> IF Replied(r) THEN "done" ELSE "error",
                       own |-> Replied(r) => last = r]]
  /\ UNCHANGED <<routine, files, edits, fire, aborts, old, runtime, crashes, history>>

\* The row is read again, in the queue, and settled if it still runs.
LoadSettled(w) ==
  /\ sweep[w].at = "apply"
  /\ IF StillRuns(sweep[w].run)
       THEN /\ Load(w, sweep[w].run, Marked(sweep[w].run, sweep[w].new))
            /\ sweep' = [sweep EXCEPT ![w].at = "save"]
       ELSE /\ QueueFree
            /\ sweep' = [sweep EXCEPT ![w] = Idle]
            /\ UNCHANGED edits
  /\ UNCHANGED <<routine, files, fire, aborts, old, runtime, crashes,
                 history>>

Settle(e) ==
  /\ e.by \in Sweeps
  /\ Save(e)
  /\ mistaken' = (mistaken \/ ~ sweep[e.by].own)
  /\ derailed' = (derailed \/ sweep[e.by].new = "error")
  /\ sweep' = [sweep EXCEPT ![e.by] = Idle]
  /\ UNCHANGED <<routine, recorded, fire, aborts, runtime, crashes>>

-----------------------------------------------------------------------------
(* cancelRoutineRun.                                                       *)

LoadCancel(r) ==
  /\ r \in Running
  /\ Load("user", r, Marked(r, "cancelled"))
  /\ UNCHANGED <<routine, files, fire, sweep, aborts, old, runtime,
                 crashes, history>>

CancelRow(e) ==
  /\ e.by = "user"
  /\ Save(e)
  /\ aborts' = aborts \cup {e.run}
  /\ derailed' = TRUE
  /\ UNCHANGED <<routine, recorded, fire, sweep, runtime, crashes,
                 mistaken>>

\* An assistant message is written.
Writes(r) == last' = r /\ replied' = Runs

\* The live turn ends and is answered.
Answers ==
  /\ turns # <<>>
  /\ turns' = Tail(turns)
  /\ Writes(Head(turns))

\* cancelTurn names the conversation: its live turn ends, and says so.
Abort(r) ==
  /\ r \in aborts
  /\ aborts' = aborts \ {r}
  /\ UNCHANGED <<turns, last, replied>> \/ Answers
  /\ UNCHANGED <<routine, files, edits, fire, sweep, old, others, crashes,
                 history>>

\* An edit, or the activities a sweep saves ahead of its own, cannot be saved:
\* the caller gives up.
SaveFails(e) ==
  /\ edits' = edits \ {e}
  /\ fire' = IF e.by = "failure" THEN [fire EXCEPT ![e.run] = "done"] ELSE fire
  /\ sweep' = IF e.by \in Sweeps THEN [sweep EXCEPT ![e.by] = Idle] ELSE sweep
  /\ UNCHANGED <<routine, files, aborts, old, runtime, crashes, history>>

-----------------------------------------------------------------------------
(* Time, the runtime, the user, the agent, and restarts.                   *)

Age ==
  /\ Running # {} /\ ~ old
  /\ old' = TRUE
  /\ UNCHANGED <<routine, files, edits, fire, sweep, aborts, runtime,
                 crashes, history>>

TurnEnds ==
  /\ Answers
  /\ UNCHANGED <<routine, files, edits, fire, sweep, aborts, old, others,
                 crashes, history>>

Eventful == crashes + others < MaxEvents

\* The user writes in the routine's conversation.
UserPosts ==
  /\ Eventful
  /\ others' = others + 1
  /\ turns' = Append(turns, 0)
  /\ UNCHANGED <<routine, files, edits, fire, sweep, aborts, old, last,
                 replied, crashes, history>>

\* The turn at work compacts: its checkpoint is an assistant message.
Compacts ==
  /\ turns # <<>>
  /\ Eventful
  /\ others' = others + 1
  /\ Writes(0)
  /\ UNCHANGED <<routine, files, edits, fire, sweep, aborts, old, turns,
                 crashes, history>>

\* The user deletes the routine, or the agent rewrites the file: badly, or well
\* again.  A deleted routine does not come back.
RewriteRoutines ==
  /\ routine # "deleted"
  /\ routine' \in {"listed", "deleted", "unreadable"} \ {routine}
  /\ UNCHANGED <<files, edits, fire, sweep, aborts, old, runtime, crashes, history>>

\* The queue and the sweeps are the process's; the live turn is
\* answered as interrupted when its runtime comes back, the queued ones are
\* gone.
Restart ==
  /\ Eventful
  /\ crashes' = crashes + 1
  /\ edits' = {}
  /\ sweep' = [w \in Sweeps |-> Idle]
  /\ fire' = [r \in Runs |-> IF fire[r] = "none" THEN "none" ELSE "done"]
  /\ aborts' = {}
  /\ turns' = <<>>
  /\ IF turns = <<>> THEN UNCHANGED <<last, replied>> ELSE Writes(Head(turns))
  /\ UNCHANGED <<routine, files, old, others, history>>

-----------------------------------------------------------------------------
FireStep(r) == Accept(r) \/ Refuse(r) \/ LoseAnswer(r)
Write(e) == Record(e) \/ MarkErrored(e) \/ Settle(e) \/ CancelRow(e)

Next ==
  \/ LoadFire
  \/ \E r \in Runs : \/ FireStep(r) \/ LoadFailure(r) \/ LoadCancel(r)
                      \/ Abort(r)
  \/ \E w \in Sweeps : Judge(w) \/ LoadSettled(w)
  \/ \E e \in edits : Write(e) \/ SaveFails(e)
  \/ Age \/ TurnEnds \/ UserPosts \/ Compacts
  \/ RewriteRoutines \/ Restart

Spec == Init /\ [][Next]_vars

\* The timer starts sweeps and they go on, and time passes; an edit is saved or
\* fails, the queue is in order, and a file that cannot be saved now can be some
\* time later.
FairSpec ==
  /\ Spec
  /\ WF_vars(\E w \in Sweeps : Judge(w)) /\ SF_vars(\E w \in Sweeps : LoadSettled(w))
  /\ WF_vars(\E e \in edits : Write(e) \/ SaveFails(e))
  /\ SF_vars(\E e \in edits : Settle(e))
  /\ WF_vars(Age)

-----------------------------------------------------------------------------
(* Properties.                                                             *)

Statuses == {"none", "running", "done", "error", "cancelled", "pruned"}
Rows == [Runs -> Statuses]

\* Every variable stays within its type.
TypeOK ==
  /\ routine \in {"listed", "deleted", "unreadable"}
  /\ recorded \in 0..MaxRuns
  /\ run \in Rows
  /\ edits \subseteq [by : Sweeps \cup {"fire", "failure", "user"}, run : Runs,
                     rows : Rows]
  /\ fire \in [Runs -> {"none", "posting", "failed", "marking", "done"}]
  /\ sweep \in [Sweeps -> [at : {"idle", "apply", "save"}, run : 0..MaxRuns,
                           new : {"none", "done", "error"}, own : BOOLEAN]]
  /\ aborts \subseteq Runs
  /\ old \in BOOLEAN
  /\ turns \in Seq(0..MaxRuns)
  /\ last \in 0..MaxRuns
  /\ replied \subseteq Runs
  /\ crashes \in 0..MaxEvents
  /\ others \in 0..MaxEvents
  /\ mistaken \in BOOLEAN /\ derailed \in BOOLEAN

\* However ticks, deliveries, "run now", failures and cancels interleave, a run
\* in flight stays in the file until it has ended: no edit saves a copy of the
\* file without it (runs-lock.ts:4-9), and the cap on the history, which keeps
\* the newest, drops none that still runs.
NoRunIsForgotten ==
  [][\A r \in Running : run'[r] \notin {"none", "pruned"}]_vars

\* A run that ended stays as it ended: neither a sweep's stale snapshot nor a
\* late fire failure changes what the user or another sweep set (reconcile.ts:
\* 82-87); pruning may drop it.
EndsOnce ==
  [][\A r \in Runs :
       run[r] \in {"done", "error", "cancelled"}
       => run'[r] \in {run[r], "pruned"}]_vars

\* As long as the routine has the conversation to itself - no turn of the user,
\* no checkpoint - and no run ended with its turn unfinished - cancelled, timed
\* out, or accepted though the post failed - the conversation has one turn at a
\* time and a run is settled by the reply to it, not by one to another run.
OneTurnAtATime ==
  (~ derailed /\ others = 0) => Len(turns) <= 1 /\ ~ mistaken

\* A run never stays `running` for ever (run.ts:49-51): again and again none is
\* in flight, unless the routine is deleted, or routines.json cannot be read
\* again and again.
EveryRunEnds ==
  <>[](routine # "unreadable") => []<>(Running = {} \/ routine = "deleted")

\* What reconcile.ts:78-79 says without the exceptions: it is never stuck.
NeverStuckRunning == []<>(Running = {})

\* A run is settled by the agent's reply for it (reconcile.ts:31).
SettledByItsReply == ~ mistaken

\* Runs settle even when routines.json is unreadable (agent-scan.ts:101-102).
SettlesAnyway == []<>(Running = {} \/ routine = "deleted")
=============================================================================
