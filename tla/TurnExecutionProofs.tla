-------------------------- MODULE TurnExecutionProofs -------------------------
(***************************************************************************)
(* Proofs about TurnExecution, for any number of turns, conversations,     *)
(* stops and crashes.  Part 1, who may proceed: the types, that one turn   *)
(* or command at a time works in the shared directory, and that turns and  *)
(* commands of a conversation exclude each other.  Part 2, what is told of *)
(* a turn, live and on disk: one verdict, a stamp that agrees with the     *)
(* Stop the user saw, and one `interrupted` reply at most.                 *)
(***************************************************************************)
EXTENDS TurnExecution, FiniteSetTheorems, TLAPS

-----------------------------------------------------------------------------
(* Part 1: who may proceed.                                                *)

TurnType == [phase : Phases, kind : Kinds \cup {Null}, conv : Convs \cup {Null},
             aborting : BOOLEAN, stalled : BOOLEAN, failed : BOOLEAN]
CurrentType == [turnId : Turns \cup {Null}, stopped : Turns \cup {Null}]
DiskType == [asked : SUBSET Turns, replies : [Turns -> Seq(ReplyKinds)],
             marker : [Convs -> Turns \cup {Null}]]

\* What ties the variables together: a turn that has begun is the first of its
\* conversation's queue, one that executes is the first of the lock's chain,
\* and conv.turnId names a turn that has begun.
Structure ==
  /\ \A t \in Turns : turn[t].phase # "new" =>
       turn[t].conv \in Convs /\ turn[t].kind \in Kinds
  /\ \A t \in Turns : turn[t].phase \in Begun => FirstInQueue(t)
  /\ \A t \in Turns : turn[t].phase \in Executing => HoldsLock(t)
  /\ \A c \in Convs : \A t \in Turns : current[c].turnId = t =>
       turn[t].phase \in Begun /\ turn[t].conv = c /\ turn[t].kind = "message"

\* The inductive invariant, over the variables that decide who may proceed.
Core ==
  /\ turn \in [Turns -> TurnType]
  /\ queue \in [Convs -> Seq(Turns)]
  /\ lock \in Seq(Turns)
  /\ current \in [Convs -> CurrentType]
  /\ \A c \in Convs : current[c].stopped \in {Null, current[c].turnId}
  /\ Structure

\* The types of the others.
Rest ==
  /\ cached \subseteq Convs
  /\ running \in [Convs -> BOOLEAN]
  /\ disk \in DiskType
  /\ proc \in {"up", "draining", "booting"}
  /\ sent \in [Turns -> SUBSET TerminalKinds]
  /\ stops \in 0 .. MaxStops
  /\ crashes \in 0 .. MaxCrashes

-----------------------------------------------------------------------------
(* Core.  Every action moves turns along in one of five ways.              *)

\* The queue, the lock and the turns stay.
LEMMA CoreStays ==
  ASSUME Core, UNCHANGED <<turn, queue, lock, current>>
  PROVE  Core'
BY DEF Core, Structure, FirstInQueue, HoldsLock

\* A turn that has not begun changes and still has not; it may join a queue.
LEMMA CoreEnters ==
  ASSUME Core, NEW t \in Turns, NEW x \in TurnType, x.phase # "new",
         x.conv \in Convs, x.kind \in Kinds,
         turn[t].phase \notin Begun, x.phase \notin Begun,
         turn' = [turn EXCEPT ![t] = x],
         \/ queue' = queue
         \/ queue' = [queue EXCEPT ![x.conv] = Append(@, t)],
         UNCHANGED <<lock, current>>
  PROVE  Core'
<1>1. turn' \in [Turns -> TurnType] /\ turn'[t] = x
      /\ \A u \in Turns \ {t} : turn'[u] = turn[u]
  BY DEF Core
<1>2. queue' \in [Convs -> Seq(Turns)]
  <2>1. queue[x.conv] \in Seq(Turns)
    BY DEF Core
  <2>2. Append(queue[x.conv], t) \in Seq(Turns)
    BY <2>1
  <2> QED BY <2>2 DEF Core
<1>3. \A c \in Convs : queue[c] # <<>> =>
        queue'[c] # <<>> /\ Head(queue'[c]) = Head(queue[c])
  <2>1. \A s \in Seq(Turns) : s # <<>> =>
          Append(s, t) # <<>> /\ Head(Append(s, t)) = Head(s)
    OBVIOUS
  <2> QED BY <2>1 DEF Core
<1>4. \A u \in Turns : turn'[u].phase \in Begun =>
        u # t /\ turn[u].phase \in Begun
  BY <1>1
<1>5. \A u \in Turns : turn'[u].phase \in Begun => FirstInQueue(u)'
  <2> SUFFICES ASSUME NEW u \in Turns, turn'[u].phase \in Begun
               PROVE  FirstInQueue(u)'
    OBVIOUS
  <2>1. u # t /\ turn[u].phase \in Begun /\ turn'[u] = turn[u]
    BY <1>1, <1>4
  <2>2. FirstInQueue(u) /\ turn[u].conv \in Convs
    BY <2>1 DEF Core, Structure, Begun, Executing
  <2> QED BY <1>3, <2>1, <2>2 DEF FirstInQueue
<1>6. \A u \in Turns : turn'[u].phase \in Executing => HoldsLock(u)'
  BY <1>1, <1>4 DEF Core, Structure, HoldsLock, Begun
<1>7. \A c \in Convs : \A u \in Turns : current'[c].turnId = u =>
        turn'[u].phase \in Begun /\ turn'[u].conv = c /\ turn'[u].kind = "message"
  BY <1>1 DEF Core, Structure
<1>8. \A u \in Turns : turn'[u].phase # "new" =>
        turn'[u].conv \in Convs /\ turn'[u].kind \in Kinds
  BY <1>1 DEF Core, Structure
<1> QED BY <1>1, <1>2, <1>5, <1>6, <1>7, <1>8 DEF Core, Structure

\* Of the turns of a conversation only the first in the queue has begun.
LEMMA OneBegun ==
  ASSUME Core, NEW t \in Turns, NEW u \in Turns, turn[t].conv = turn[u].conv,
         turn[u].phase \in Begun, FirstInQueue(t)
  PROVE  u = t
BY DEF Core, Structure, FirstInQueue

\* The first of a queue begins: recordUserTurn and the command's own record.
LEMMA CoreBegins ==
  ASSUME Core, NEW t \in Turns, RecordUserTurn(t) \/ RecordCommand(t)
  PROVE  Core'
<1> DEFINE c == turn[t].conv
           x == [turn[t] EXCEPT !.phase = "recorded"]
<1>1. turn[t] \in TurnType /\ turn[t].phase = "queued" /\ FirstInQueue(t)
      /\ c \in Convs /\ turn[t].kind \in Kinds
  BY DEF RecordUserTurn, RecordCommand, Core, Structure
<1>2. x \in TurnType /\ x.phase = "recorded" /\ x.conv = c
      /\ x.kind = turn[t].kind
  BY <1>1 DEF TurnType, Phases, Holding
<1>3. turn' = [turn EXCEPT ![t] = x] /\ queue' = queue /\ lock' = Append(lock, t)
  BY DEF RecordUserTurn, RecordCommand, Move
<1>4. \A u \in Turns : turn[u].phase \in Begun => turn[u].conv # c
  BY <1>1, OneBegun DEF Begun, Executing
<1>5. current[c].turnId = Null /\ current[c].stopped = Null
  <2>1. current[c].turnId \in Turns \cup {Null}
    BY <1>1 DEF Core, CurrentType
  <2>2. current[c].turnId \notin Turns
    BY <1>1, <1>4 DEF Core, Structure
  <2> QED BY <1>1, <2>1, <2>2 DEF Core
<1>6. IF turn[t].kind = "message"
      THEN current' = [current EXCEPT ![c] = [turnId |-> t, stopped |-> Null]]
      ELSE current' = current
  BY <1>1, <1>5 DEF RecordUserTurn, RecordCommand, IsCommand, Core, CurrentType
<1> HIDE DEF x
<1>7. turn' \in [Turns -> TurnType] /\ turn'[t] = x
      /\ \A u \in Turns \ {t} : turn'[u] = turn[u]
  BY <1>2, <1>3 DEF Core
<1>8. /\ current' \in [Convs -> CurrentType]
      /\ \A d \in Convs : current'[d].stopped \in {Null, current'[d].turnId}
  <2>1. [turnId |-> t, stopped |-> Null] \in CurrentType
    BY DEF CurrentType
  <2>2. \A d \in Convs : \/ current'[d] = current[d]
                        \/ current'[d] = [turnId |-> t, stopped |-> Null]
    BY <1>6 DEF Core
  <2>3. current' \in [Convs -> CurrentType]
    BY <1>6, <2>1 DEF Core
  <2> QED BY <2>2, <2>3 DEF Core
<1>9. lock' \in Seq(Turns) /\ lock' # <<>>
      /\ (lock # <<>> => Head(lock') = Head(lock))
  BY <1>3 DEF Core
<1>10. \A u \in Turns : turn'[u].phase \in Begun => FirstInQueue(u)'
  BY <1>1, <1>2, <1>3, <1>7 DEF Core, Structure, FirstInQueue
<1>11. \A u \in Turns : turn'[u].phase \in Executing => HoldsLock(u)'
  BY <1>2, <1>7, <1>9 DEF Core, Structure, HoldsLock, Executing
<1>12. \A d \in Convs : \A u \in Turns : current'[d].turnId = u =>
        turn'[u].phase \in Begun /\ turn'[u].conv = d /\ turn'[u].kind = "message"
  <2> SUFFICES ASSUME NEW d \in Convs, NEW u \in Turns, current'[d].turnId = u
               PROVE  /\ turn'[u].phase \in Begun
                      /\ turn'[u].conv = d /\ turn'[u].kind = "message"
    OBVIOUS
  <2>1. CASE current'[d] = current[d]
    <3>1. turn[u].phase \in Begun /\ turn[u].conv = d /\ turn[u].kind = "message"
      BY <2>1 DEF Core, Structure
    <3>2. u # t
      BY <1>1, <3>1 DEF Begun, Executing
    <3> QED BY <1>7, <3>1, <3>2
  <2>2. CASE current'[d] # current[d]
    <3>1. d = c /\ u = t /\ turn[t].kind = "message"
      BY <1>6, <2>2 DEF Core
    <3> QED BY <1>2, <1>7, <3>1 DEF Begun
  <2> QED BY <2>1, <2>2
<1>13. \A u \in Turns : turn'[u].phase # "new" =>
        turn'[u].conv \in Convs /\ turn'[u].kind \in Kinds
  BY <1>1, <1>2, <1>7 DEF Core, Structure
<1> QED BY <1>3, <1>7, <1>8, <1>9, <1>10, <1>11, <1>12, <1>13 DEF Core, Structure

\* A turn that has begun goes on, with the lock if it executes.
LEMMA CoreGoesOn ==
  ASSUME Core, NEW t \in Turns, NEW x \in TurnType,
         turn[t].phase \in Begun, x.phase \in Begun,
         x.phase \in Executing => HoldsLock(t),
         x.conv = turn[t].conv, x.kind = turn[t].kind,
         turn' = [turn EXCEPT ![t] = x],
         UNCHANGED <<queue, lock, current>>
  PROVE  Core'
<1>1. turn' \in [Turns -> TurnType] /\ turn'[t] = x
      /\ \A u \in Turns \ {t} : turn'[u] = turn[u]
  BY DEF Core
<1>2. \A u \in Turns : turn'[u].phase \in Begun => FirstInQueue(u)'
  BY <1>1 DEF Core, Structure, FirstInQueue
<1>3. \A u \in Turns : turn'[u].phase \in Executing => HoldsLock(u)'
  BY <1>1 DEF Core, Structure, HoldsLock
<1>4. \A c \in Convs : \A u \in Turns : current'[c].turnId = u =>
        turn'[u].phase \in Begun /\ turn'[u].conv = c /\ turn'[u].kind = "message"
  BY <1>1 DEF Core, Structure
<1>5. \A u \in Turns : turn'[u].phase # "new" =>
        turn'[u].conv \in Convs /\ turn'[u].kind \in Kinds
  BY <1>1 DEF Core, Structure, Begun, Executing
<1> QED BY <1>1, <1>2, <1>3, <1>4, <1>5 DEF Core, Structure

\* The executing turn or command ends: it leaves the queue and the lock, and
\* conv.turnId if that was its own.
LEMMA CoreLeaves ==
  ASSUME Core, NEW t \in Turns, turn[t].phase \in Executing,
         NEW idle \in CurrentType, idle.turnId = Null, idle.stopped = Null,
         Move(t, "ended"),
         queue' = [queue EXCEPT ![turn[t].conv] = Tail(@)],
         lock' = Tail(lock),
         \/ current' = [current EXCEPT ![turn[t].conv] = idle]
         \/ IsCommand(t) /\ current' = current
  PROVE  Core'
<1> DEFINE c == turn[t].conv
<1>1. /\ turn[t] \in TurnType /\ c \in Convs /\ turn[t].kind \in Kinds
      /\ FirstInQueue(t) /\ HoldsLock(t) /\ turn[t].phase \in Begun
  BY DEF Core, Structure, Begun, Executing
<1>2. turn' \in [Turns -> TurnType] /\ turn'[t].phase = "ended"
      /\ turn'[t].conv = c /\ turn'[t].kind = turn[t].kind
      /\ \A u \in Turns \ {t} : turn'[u] = turn[u]
  BY <1>1 DEF Move, Core, TurnType, Phases
<1>3. lock' \in Seq(Turns)
  BY <1>1 DEF Core, HoldsLock
<1>4. queue' \in [Convs -> Seq(Turns)]
      /\ \A d \in Convs \ {c} : queue'[d] = queue[d]
  BY <1>1 DEF Core, FirstInQueue
<1>5. \A u \in Turns : turn'[u].phase \in Begun =>
        u # t /\ turn[u].phase \in Begun /\ turn[u].conv # c
  BY <1>1, <1>2, OneBegun DEF Begun, Executing
<1>6. \A u \in Turns : turn'[u].phase \in Begun => FirstInQueue(u)'
  <2> SUFFICES ASSUME NEW u \in Turns, turn'[u].phase \in Begun
               PROVE  FirstInQueue(u)'
    OBVIOUS
  <2>1. u # t /\ turn[u].phase \in Begun /\ turn[u].conv # c
    BY <1>5
  <2>2. turn'[u] = turn[u] /\ turn[u].conv \in Convs /\ FirstInQueue(u)
    BY <1>2, <2>1 DEF Core, Structure, Begun, Executing
  <2> QED BY <1>4, <2>1, <2>2 DEF FirstInQueue
<1>7. \A u \in Turns : turn'[u].phase \notin Executing
  BY <1>1, <1>2 DEF Core, Structure, HoldsLock, Executing
<1>8. /\ current' \in [Convs -> CurrentType]
      /\ \A d \in Convs : current'[d].stopped \in {Null, current'[d].turnId}
  <2>1. current' \in [Convs -> CurrentType]
    BY DEF Core
  <2>2. \A d \in Convs : current'[d] = current[d] \/ current'[d] = idle
    BY DEF Core
  <2> QED BY <2>1, <2>2 DEF Core
<1>9. \A d \in Convs : \A u \in Turns : current'[d].turnId = u =>
        turn'[u].phase \in Begun /\ turn'[u].conv = d /\ turn'[u].kind = "message"
  <2> SUFFICES ASSUME NEW d \in Convs, NEW u \in Turns, current'[d].turnId = u
               PROVE  /\ turn'[u].phase \in Begun
                      /\ turn'[u].conv = d /\ turn'[u].kind = "message"
    OBVIOUS
  <2>1. current'[d] = current[d] /\ (d = c => IsCommand(t))
    BY <1>1, NullAssumption DEF Core
  <2>2. turn[u].phase \in Begun /\ turn[u].conv = d /\ turn[u].kind = "message"
    BY <2>1 DEF Core, Structure
  <2>3. u # t
    BY <2>1, <2>2 DEF IsCommand
  <2> QED BY <1>2, <2>2, <2>3
<1>10. \A u \in Turns : turn'[u].phase # "new" =>
        turn'[u].conv \in Convs /\ turn'[u].kind \in Kinds
  BY <1>1, <1>2 DEF Core, Structure
<1> QED BY <1>2, <1>3, <1>4, <1>6, <1>7, <1>8, <1>9, <1>10 DEF Core, Structure

\* The process dies.
LEMMA CoreDies ==
  ASSUME Core, NEW d, DieWith(d)
  PROVE  Core'
<1>1. turn' \in [Turns -> TurnType]
      /\ \A t \in Turns : /\ turn'[t].phase \in {"new", "ended", "lost"}
                          /\ turn'[t].phase # "new" => turn[t].phase # "new"
                          /\ turn'[t].conv = turn[t].conv
                          /\ turn'[t].kind = turn[t].kind
  BY DEF DieWith, Core, TurnType, Phases, Holding
<1>2. /\ queue' \in [Convs -> Seq(Turns)]
      /\ lock' \in Seq(Turns)
      /\ current' \in [Convs -> CurrentType]
      /\ \A c \in Convs : current'[c] = Idle
  BY DEF DieWith, CurrentType, Idle
<1>3. \A c \in Convs : current'[c].turnId = Null /\ current'[c].stopped = Null
  BY <1>2 DEF Idle
<1>4. \A t \in Turns : turn'[t].phase \notin Begun /\ turn'[t].phase \notin Executing
  BY <1>1 DEF Begun, Executing
<1>5. \A t \in Turns : turn'[t].phase # "new" =>
        turn'[t].conv \in Convs /\ turn'[t].kind \in Kinds
  BY <1>1 DEF Core, Structure
<1>6. \A c \in Convs : \A t \in Turns : current'[c].turnId # t
  BY <1>3, NullAssumption
<1>7. Structure'
  BY <1>4, <1>5, <1>6 DEF Structure
<1> QED BY <1>1, <1>2, <1>3, <1>7 DEF Core

\* The process starts in Core.
LEMMA CoreInit == Init => Core
<1> SUFFICES ASSUME Init PROVE Core
  OBVIOUS
<1>1. turn \in [Turns -> TurnType] /\ \A t \in Turns : turn[t].phase = "new"
  BY DEF Init, Fresh, TurnType, Phases
<1>2. /\ queue \in [Convs -> Seq(Turns)]
      /\ lock \in Seq(Turns)
      /\ current \in [Convs -> CurrentType]
  BY DEF Init, Idle, CurrentType
<1>3. \A c \in Convs : current[c].turnId = Null /\ current[c].stopped = Null
  BY DEF Init, Idle
<1> QED BY <1>1, <1>2, <1>3, NullAssumption DEF Core, Structure, Begun, Executing

\* Every step keeps Core.
LEMMA CoreStep == Core /\ [Next]_vars => Core'
<1> SUFFICES ASSUME Core, [Next]_vars PROVE Core'
  OBVIOUS
<1>1. ASSUME NEW t \in Turns, NEW c \in Convs, AcceptMessage(t, c) PROVE Core'
  <2> DEFINE x == [Fresh EXCEPT !.phase = "accepted", !.kind = "message",
                                !.conv = c]
  <2>1. /\ x \in TurnType /\ x.phase = "accepted" /\ x.conv = c
        /\ x.kind = "message"
    BY <1>1 DEF AcceptMessage, Fresh, TurnType, Phases, Holding
  <2>2. turn' = [turn EXCEPT ![t] = x]
    BY <1>1 DEF AcceptMessage
  <2> HIDE DEF x
  <2> QED BY <1>1, <2>1, <2>2, CoreEnters DEF AcceptMessage, Begun, Executing
<1>2. ASSUME NEW t \in Turns, NEW c \in Convs, NEW kind \in Kinds,
             AcceptCommand(t, c, kind)
      PROVE  Core'
  <2> DEFINE x == [Fresh EXCEPT !.phase = "queued", !.kind = kind, !.conv = c]
  <2>1. x \in TurnType /\ x.phase = "queued" /\ x.conv = c /\ x.kind = kind
    BY DEF Fresh, TurnType, Phases, Holding
  <2>2. turn' = [turn EXCEPT ![t] = x]
    BY <1>2 DEF AcceptCommand
  <2> HIDE DEF x
  <2> QED BY <1>2, <2>1, <2>2, CoreEnters DEF AcceptCommand, Begun, Executing
<1>3. ASSUME NEW t \in Turns, RefuseUnrecorded(t) \/ RefuseRecorded(t) \/ Join(t)
      PROVE  Core'
  <2> DEFINE x(phase) == [turn[t] EXCEPT !.phase = phase]
  <2>1. /\ turn[t] \in TurnType /\ turn[t].phase = "accepted"
        /\ turn[t].conv \in Convs /\ turn[t].kind \in Kinds
    BY <1>3 DEF RefuseUnrecorded, RefuseRecorded, Join, Core, Structure
  <2>2. ASSUME NEW phase \in {"queued", "ended"}
        PROVE  /\ x(phase) \in TurnType /\ x(phase).phase = phase
               /\ x(phase).conv = turn[t].conv /\ x(phase).kind = turn[t].kind
    BY <2>1 DEF TurnType, Phases, Holding
  <2>3. \/ turn' = [turn EXCEPT ![t] = x("ended")] /\ queue' = queue
        \/ /\ turn' = [turn EXCEPT ![t] = x("queued")]
           /\ queue' = [queue EXCEPT ![turn[t].conv] = Append(@, t)]
    BY <1>3 DEF RefuseUnrecorded, RefuseRecorded, Join, Move
  <2>4. UNCHANGED <<lock, current>>
    BY <1>3 DEF RefuseUnrecorded, RefuseRecorded, Join
  <2> HIDE DEF x
  <2>5. CASE turn' = [turn EXCEPT ![t] = x("ended")] /\ queue' = queue
    BY <2>1, <2>2, <2>4, <2>5, CoreEnters DEF Begun, Executing
  <2>6. CASE /\ turn' = [turn EXCEPT ![t] = x("queued")]
             /\ queue' = [queue EXCEPT ![turn[t].conv] = Append(@, t)]
    BY <2>1, <2>2, <2>4, <2>6, CoreEnters DEF Begun, Executing
  <2> QED BY <2>3, <2>5, <2>6
<1>4. ASSUME NEW t \in Turns, RecordUserTurn(t) \/ RecordCommand(t) PROVE Core'
  BY <1>4, CoreBegins
<1>5. ASSUME NEW t \in Turns, AcquireLock(t) \/ BeginPrompt(t) PROVE Core'
  <2> DEFINE x(phase) == [turn[t] EXCEPT !.phase = phase]
  <2>1. turn[t] \in TurnType /\ turn[t].phase \in Begun /\ HoldsLock(t)
    BY <1>5 DEF AcquireLock, BeginPrompt, Core, Structure, Begun, Executing
  <2>2. ASSUME NEW phase \in Executing
        PROVE  /\ x(phase) \in TurnType /\ x(phase).phase = phase
               /\ x(phase).conv = turn[t].conv /\ x(phase).kind = turn[t].kind
    BY <2>1 DEF TurnType, Phases, Holding, Executing
  <2>3. \E phase \in Executing : turn' = [turn EXCEPT ![t] = x(phase)]
    BY <1>5 DEF AcquireLock, BeginPrompt, Move, Executing
  <2>4. UNCHANGED <<queue, lock, current>>
    BY <1>5 DEF AcquireLock, BeginPrompt
  <2> HIDE DEF x
  <2> QED BY <2>1, <2>2, <2>3, <2>4, CoreGoesOn DEF Begun
<1>6. ASSUME NEW t \in Turns, ProviderError(t) \/ Stall(t) PROVE Core'
  <2>1. turn[t] \in TurnType /\ turn[t].phase = "prompting" /\ HoldsLock(t)
    BY <1>6 DEF ProviderError, Stall, Core, Structure, Executing
  <2>2. PICK x \in TurnType : /\ turn' = [turn EXCEPT ![t] = x]
                              /\ x.phase = "prompting"
                              /\ x.conv = turn[t].conv /\ x.kind = turn[t].kind
    <3> DEFINE y == [turn[t] EXCEPT !.failed = TRUE]
               z == Stalled(turn[t])
    <3>1. /\ y \in TurnType /\ y.phase = "prompting"
          /\ y.conv = turn[t].conv /\ y.kind = turn[t].kind
      BY <2>1 DEF TurnType
    <3>2. /\ z \in TurnType /\ z.phase = "prompting"
          /\ z.conv = turn[t].conv /\ z.kind = turn[t].kind
      BY <2>1 DEF TurnType, Stalled
    <3>3. turn' = [turn EXCEPT ![t] = y] \/ turn' = [turn EXCEPT ![t] = z]
      BY <1>6 DEF ProviderError, Stall
    <3> HIDE DEF y, z
    <3> QED BY <3>1, <3>2, <3>3
  <2>3. UNCHANGED <<queue, lock, current>>
    BY <1>6 DEF ProviderError, Stall
  <2> QED BY <2>1, <2>2, <2>3, CoreGoesOn DEF Begun, Executing
<1>7. ASSUME NEW t \in Turns, Settle(t) \/ Throw(t) PROVE Core'
  <2>1. turn[t].phase \in Executing
    BY <1>7 DEF Settle, Throw, Executing
  <2>2. /\ Move(t, "ended")
        /\ queue' = [queue EXCEPT ![turn[t].conv] = Tail(@)]
        /\ lock' = Tail(lock)
        /\ current' = [current EXCEPT ![turn[t].conv] = Cleared(turn[t].conv)]
    BY <1>7 DEF Settle, Throw, Leave
  <2> DEFINE idle == Cleared(turn[t].conv)
  <2>3. current[turn[t].conv] \in CurrentType
    BY <2>1 DEF Core, Structure, Executing
  <2>4. idle \in CurrentType /\ idle.turnId = Null /\ idle.stopped = Null
    BY <2>3 DEF Cleared, CurrentType
  <2>5. current' = [current EXCEPT ![turn[t].conv] = idle]
    BY <2>2
  <2> HIDE DEF idle
  <2> QED BY <2>1, <2>2, <2>4, <2>5, CoreLeaves
<1>8. ASSUME NEW t \in Turns, FinishCommand(t) \/ FailCommand(t) PROVE Core'
  <2>1. turn[t].phase \in Executing /\ IsCommand(t) /\ current' = current
    BY <1>8 DEF FinishCommand, FailCommand, Executing
  <2>2. /\ Move(t, "ended")
        /\ queue' = [queue EXCEPT ![turn[t].conv] = Tail(@)]
        /\ lock' = Tail(lock)
    BY <1>8 DEF FinishCommand, FailCommand
  <2>3. Idle \in CurrentType /\ Idle.turnId = Null /\ Idle.stopped = Null
    BY DEF Idle, CurrentType
  <2> QED BY <2>1, <2>2, <2>3, CoreLeaves
<1>9. ASSUME NEW c \in Convs, CancelTurn(c) PROVE Core'
  <2> DEFINE t == current[c].turnId
  <2>1. /\ current' = MarkStopped(c)
        /\ UNCHANGED <<queue, lock>>
        /\ turn' = IF t # Null /\ turn[t].phase = "prompting"
                     THEN [turn EXCEPT ![t].aborting = TRUE] ELSE turn
    BY <1>9 DEF CancelTurn
  <2>2. current[c] \in CurrentType /\ t \in Turns \cup {Null}
    BY DEF Core, CurrentType
  <2>3. /\ turn' \in [Turns -> TurnType]
        /\ \A u \in Turns : /\ turn'[u].phase = turn[u].phase
                            /\ turn'[u].conv = turn[u].conv
                            /\ turn'[u].kind = turn[u].kind
    <3>1. CASE t # Null /\ turn[t].phase = "prompting"
      <4>1. t \in Turns /\ turn[t] \in TurnType
        BY <2>2, <3>1 DEF Core
      <4> DEFINE x == [turn[t] EXCEPT !.aborting = TRUE]
      <4>2. /\ x \in TurnType /\ x.phase = turn[t].phase
            /\ x.conv = turn[t].conv /\ x.kind = turn[t].kind
        BY <4>1 DEF TurnType
      <4>3. turn' = [turn EXCEPT ![t] = x]
        BY <2>1, <3>1
      <4> HIDE DEF x, t
      <4> QED BY <4>1, <4>2, <4>3 DEF Core
    <3>2. CASE ~ (t # Null /\ turn[t].phase = "prompting")
      BY <2>1, <3>2 DEF Core
    <3> QED BY <3>1, <3>2
  <2>4. /\ current' \in [Convs -> CurrentType]
        /\ \A d \in Convs : /\ current'[d].turnId = current[d].turnId
                            /\ current'[d].stopped \in {Null, current[d].turnId}
    <3> DEFINE x == [current[c] EXCEPT !.stopped = IF t # Null THEN t ELSE @]
    <3>1. /\ x \in CurrentType /\ x.turnId = t
          /\ x.stopped \in {Null, t}
      BY <2>2 DEF CurrentType, Core
    <3>2. current' = [current EXCEPT ![c] = x]
      BY <2>1 DEF MarkStopped
    <3> HIDE DEF x
    <3> QED BY <3>1, <3>2 DEF Core
  <2>5. Structure'
    <3>1. \A u \in Turns : turn'[u].phase \in Begun => FirstInQueue(u)'
      BY <2>1, <2>3 DEF Core, Structure, FirstInQueue
    <3>2. \A u \in Turns : turn'[u].phase \in Executing => HoldsLock(u)'
      BY <2>1, <2>3 DEF Core, Structure, HoldsLock
    <3>3. \A u \in Turns : turn'[u].phase # "new" =>
            turn'[u].conv \in Convs /\ turn'[u].kind \in Kinds
      BY <2>3 DEF Core, Structure
    <3>4. \A d \in Convs : \A u \in Turns : current'[d].turnId = u =>
            /\ turn'[u].phase \in Begun
            /\ turn'[u].conv = d /\ turn'[u].kind = "message"
      <4> SUFFICES ASSUME NEW d \in Convs, NEW u \in Turns,
                          current'[d].turnId = u
                   PROVE  /\ turn'[u].phase \in Begun
                          /\ turn'[u].conv = d /\ turn'[u].kind = "message"
        OBVIOUS
      <4>1. current[d].turnId = u
        BY <2>4
      <4>2. turn[u].phase \in Begun /\ turn[u].conv = d
              /\ turn[u].kind = "message"
        BY <4>1 DEF Core, Structure
      <4> QED BY <2>3, <4>2
    <3> QED BY <3>1, <3>2, <3>3, <3>4 DEF Structure
  <2> QED BY <2>1, <2>3, <2>4, <2>5 DEF Core
<1>10. ASSUME NEW d, DieWith(d) PROVE Core'
  BY <1>10, CoreDies
<1>11. ASSUME UNCHANGED <<turn, queue, lock, current>> PROVE Core'
  BY <1>11, CoreStays
<1> QED
  <2>1. ASSUME NEW t \in Turns,
               Stream(t) \/ Redeliver(t)
        PROVE  UNCHANGED <<turn, queue, lock, current>>
    BY <2>1 DEF Stream, Redeliver
  <2>2. ASSUME NEW c \in Convs,
               SettleInterrupted(c) \/ RestartBeforeMarkerIsGone(c)
        PROVE  UNCHANGED <<turn, queue, lock, current>>
    BY <2>2 DEF SettleInterrupted, RestartBeforeMarkerIsGone
  <2>3. ASSUME BeginDrain \/ Listen \/ UNCHANGED vars
        PROVE  UNCHANGED <<turn, queue, lock, current>>
    BY <2>3 DEF BeginDrain, Listen, vars
  <2>4. ASSUME Crash \/ ExitDrained
               \/ \E t \in Turns : CrashAfterMessage(t) \/ CrashAfterReply(t)
        PROVE  \E d : DieWith(d)
    BY <2>4 DEF Crash, ExitDrained, CrashAfterMessage, CrashAfterReply
  <2> QED BY <2>1, <2>2, <2>3, <2>4, <1>1, <1>2, <1>3, <1>4, <1>5, <1>6, <1>7,
             <1>8, <1>9, <1>10, <1>11 DEF Next

-----------------------------------------------------------------------------
(* The types of what is published, stored and counted.                     *)

\* A message goes on disk.
LEMMA AskType ==
  ASSUME NEW d \in DiskType, NEW t \in Turns
  PROVE  Ask(d, t) \in DiskType
BY DEF Ask, DiskType

\* A reply goes on disk.
LEMMA ReplyType ==
  ASSUME NEW d \in DiskType, NEW t \in Turns, NEW kind \in ReplyKinds
  PROVE  Reply(d, t, kind) \in DiskType
<1>1. Append(d.replies[t], kind) \in Seq(ReplyKinds)
  BY DEF DiskType
<1> QED BY <1>1 DEF Reply, DiskType

\* A terminal frame keeps the types.
LEMMA TerminateType ==
  ASSUME Rest, NEW t \in Turns, NEW type \in TerminalKinds, Terminate(t, type)
  PROVE  running' \in [Convs -> BOOLEAN] /\ sent' \in [Turns -> SUBSET TerminalKinds]
BY DEF Rest, Terminate

\* The end of a turn writes a well-typed disk.
LEMMA LeaveType ==
  ASSUME Core, NEW t \in Turns, turn[t].phase \in Executing,
         NEW d \in DiskType, Leave(t, d)
  PROVE  disk' \in DiskType
<1>1. turn[t].conv \in Convs
  BY DEF Core, Structure, Executing
<1>2. disk' = [d EXCEPT !.marker[turn[t].conv] = Null]
  BY DEF Leave
<1> QED BY <1>1, <1>2 DEF DiskType

\* Death leaves well-typed variables, if what it leaves on disk is.
LEMMA RestDies ==
  ASSUME Rest, NEW d \in DiskType, DieWith(d)
  PROVE  Rest'
BY BoundsAssumption DEF Rest, DieWith

\* The stamp of a reply is one of the kinds.
LEMMA ReplyKindType ==
  ASSUME NEW t \in Turns
  PROVE  ReplyKind(t) \in ReplyKinds
BY DEF ReplyKind, ReplyKinds

\* The process starts well typed.
LEMMA RestInit == Init => Rest
<1> SUFFICES ASSUME Init PROVE Rest
  OBVIOUS
<1>1. disk \in DiskType
  BY DEF Init, DiskType
<1> QED BY <1>1, BoundsAssumption DEF Init, Rest

\* Every step keeps the types of the others.
LEMMA RestStep == Core /\ Rest /\ [Next]_vars => Rest'
<1> SUFFICES ASSUME Core, Rest, [Next]_vars PROVE Rest'
  OBVIOUS
<1>1. ASSUME NEW t \in Turns, NEW c \in Convs, AcceptMessage(t, c) PROVE Rest'
  BY <1>1 DEF AcceptMessage, Rest
<1>2. ASSUME NEW t \in Turns, NEW c \in Convs, NEW kind \in Kinds,
             AcceptCommand(t, c, kind)
      PROVE  Rest'
  BY <1>2 DEF AcceptCommand, Rest
<1>3. ASSUME NEW t \in Turns, RefuseUnrecorded(t) PROVE Rest'
  BY <1>3, TerminateType DEF RefuseUnrecorded, Rest, TerminalKinds
<1>4. ASSUME NEW t \in Turns, RefuseRecorded(t) PROVE Rest'
  <2>1. Ask(disk, t) \in DiskType
    BY AskType DEF Rest
  <2>2. disk' \in DiskType
    BY <1>4, <2>1, ReplyType DEF RefuseRecorded, ReplyKinds
  <2> QED BY <1>4, <2>2, TerminateType DEF RefuseRecorded, Rest, TerminalKinds
<1>5. ASSUME NEW t \in Turns, Join(t) PROVE Rest'
  <2>1. turn[t].conv \in Convs
    BY <1>5 DEF Join, Core, Structure
  <2> QED BY <1>5, <2>1 DEF Join, Rest
<1>6. ASSUME NEW t \in Turns, RecordUserTurn(t) PROVE Rest'
  <2>1. turn[t].conv \in Convs
    BY <1>6 DEF RecordUserTurn, Core, Structure
  <2>2. RecordOnDisk(disk, t) \in DiskType
    BY <2>1 DEF RecordOnDisk, Ask, Rest, DiskType
  <2> QED BY <1>6, <2>2 DEF RecordUserTurn, Rest
<1>7. ASSUME NEW t \in Turns, RecordCommand(t) PROVE Rest'
  <2>1. Ask(disk, t) \in DiskType
    BY AskType DEF Rest
  <2> QED BY <1>7, <2>1 DEF RecordCommand, Rest
<1>8. ASSUME NEW t \in Turns, AcquireLock(t) \/ BeginPrompt(t) \/ Stall(t)
      PROVE  Rest'
  BY <1>8 DEF AcquireLock, BeginPrompt, Stall, Rest
<1>9. ASSUME NEW t \in Turns, Stream(t) PROVE Rest'
  BY <1>9 DEF Stream, Rest
<1>10. ASSUME NEW t \in Turns, ProviderError(t) PROVE Rest'
  BY <1>10, TerminateType DEF ProviderError, Rest, TerminalKinds
<1>11. ASSUME NEW t \in Turns, Settle(t) PROVE Rest'
  <2>1. Reply(disk, t, ReplyKind(t)) \in DiskType
    BY ReplyKindType, ReplyType DEF Rest
  <2>2. disk' \in DiskType
    BY <1>11, <2>1, LeaveType DEF Settle, Executing
  <2>3. /\ running' \in [Convs -> BOOLEAN]
        /\ sent' \in [Turns -> SUBSET TerminalKinds]
    <3>1. \/ \E type \in {"done", "provider_error"} : Terminate(t, type)
          \/ /\ \E changed \in BOOLEAN :
                  running' = [running EXCEPT ![turn[t].conv] = @ \/ changed]
             /\ UNCHANGED sent
      BY <1>11 DEF Settle
    <3>2. ASSUME NEW changed \in BOOLEAN
          PROVE  [running EXCEPT ![turn[t].conv] = @ \/ changed] \in [Convs -> BOOLEAN]
      BY DEF Rest
    <3> QED BY <3>1, <3>2, TerminateType DEF Rest, TerminalKinds
  <2> QED BY <1>11, <2>2, <2>3 DEF Settle, Rest
<1>12. ASSUME NEW t \in Turns, Throw(t) PROVE Rest'
  <2>1. Reply(disk, t, "error") \in DiskType
    BY ReplyType DEF Rest, ReplyKinds
  <2>2. disk' \in DiskType
    BY <1>12, <2>1, LeaveType DEF Throw
  <2> QED BY <1>12, <2>2, TerminateType DEF Throw, Rest, TerminalKinds
<1>13. ASSUME NEW t \in Turns, FinishCommand(t) PROVE Rest'
  <2>1. turn[t].conv \in Convs
    BY <1>13 DEF FinishCommand, Core, Structure
  <2>2. Reply(disk, t, "boundary") \in DiskType
    BY ReplyType DEF Rest, ReplyKinds
  <2> QED BY <1>13, <2>1, <2>2, TerminateType DEF FinishCommand, Rest, TerminalKinds
<1>14. ASSUME NEW t \in Turns, FailCommand(t) PROVE Rest'
  BY <1>14, TerminateType DEF FailCommand, Rest, TerminalKinds
<1>15. ASSUME NEW c \in Convs, CancelTurn(c) PROVE Rest'
  <2>1. sent' \in [Turns -> SUBSET TerminalKinds]
    BY <1>15 DEF CancelTurn, Rest, TerminalKinds
  <2>2. stops' \in 0 .. MaxStops
    BY <1>15, BoundsAssumption DEF CancelTurn, Rest
  <2> QED BY <1>15, <2>1, <2>2 DEF CancelTurn, Rest
<1>16. ASSUME Crash \/ ExitDrained PROVE Rest'
  BY <1>16, RestDies DEF Crash, ExitDrained, Rest
<1>17. ASSUME BeginDrain PROVE Rest'
  BY <1>17 DEF BeginDrain, Rest
<1>18. ASSUME NEW t \in Turns, CrashAfterMessage(t) PROVE Rest'
  <2>1. Ask(disk, t) \in DiskType
    BY AskType DEF Rest
  <2> QED BY <1>18, <2>1, RestDies DEF CrashAfterMessage
<1>19. ASSUME NEW t \in Turns, CrashAfterReply(t) PROVE Rest'
  <2>1. PICK kind \in ReplyKinds : DieWith(Reply(disk, t, kind))
    BY <1>19, ReplyKindType DEF CrashAfterReply, ReplyKinds
  <2>2. Reply(disk, t, kind) \in DiskType
    BY ReplyType DEF Rest
  <2> QED BY <2>1, <2>2, RestDies
<1>20. ASSUME NEW c \in Convs, SettleInterrupted(c) PROVE Rest'
  <2> DEFINE t == disk.marker[c]
             d == IF AlreadySettled(t) THEN disk ELSE Reply(disk, t, "interrupted")
  <2>1. t \in Turns
    BY <1>20 DEF SettleInterrupted, Rest, DiskType
  <2>2. d \in DiskType
    BY <2>1, ReplyType DEF Rest, ReplyKinds
  <2>3. disk' = [d EXCEPT !.marker[c] = Null]
    BY <1>20 DEF SettleInterrupted
  <2> HIDE DEF d, t
  <2>4. disk' \in DiskType
    BY <2>2, <2>3 DEF DiskType
  <2> QED BY <1>20, <2>4 DEF SettleInterrupted, Rest
<1>21. ASSUME NEW c \in Convs, RestartBeforeMarkerIsGone(c) PROVE Rest'
  <2>1. disk.marker[c] \in Turns
    BY <1>21 DEF RestartBeforeMarkerIsGone, Rest, DiskType
  <2>2. Reply(disk, disk.marker[c], "interrupted") \in DiskType
    BY <2>1, ReplyType DEF Rest, ReplyKinds
  <2>3. crashes' \in 0 .. MaxCrashes
    BY <1>21, BoundsAssumption DEF RestartBeforeMarkerIsGone, Rest
  <2> QED BY <1>21, <2>2, <2>3 DEF RestartBeforeMarkerIsGone, Rest
<1>22. ASSUME NEW t \in Turns, Redeliver(t) PROVE Rest'
  <2>1. disk' \in DiskType
    BY <1>22 DEF Redeliver, Rest, DiskType
  <2>2. crashes' \in 0 .. MaxCrashes
    BY <1>22, BoundsAssumption DEF Redeliver, Rest
  <2> QED BY <1>22, <2>1, <2>2 DEF Redeliver, Rest
<1>23. ASSUME Listen PROVE Rest'
  BY <1>23 DEF Listen, Rest
<1>24. CASE UNCHANGED vars
  BY <1>24 DEF vars, Rest
<1> QED
  BY <1>1, <1>2, <1>3, <1>4, <1>5, <1>6, <1>7, <1>8, <1>9, <1>10, <1>11, <1>12,
     <1>13, <1>14, <1>15, <1>16, <1>17, <1>18, <1>19, <1>20, <1>21, <1>22,
     <1>23, <1>24 DEF Next

\* Core and the types hold in every reachable state.
LEMMA Invariant == Spec => [](Core /\ Rest)
<1>1. Init => Core /\ Rest
  BY CoreInit, RestInit
<1>2. Core /\ Rest /\ [Next]_vars => Core' /\ Rest'
  BY CoreStep, RestStep
<1> QED BY <1>1, <1>2, PTL DEF Spec

\* Every variable holds what its code counterpart can, and a stop mark names
\* the turn in flight: it never bleeds into the next (exec-turn.ts:881-883).
THEOREM TypeCorrect == Spec => []TypeOK
<1>1. Core /\ Rest => TypeOK
  BY DEF Core, Rest, TypeOK, TurnType, CurrentType, DiskType
<1> QED BY <1>1, Invariant, PTL

-----------------------------------------------------------------------------
(* The work directory.                                                     *)

\* turn-start.ts:119-128: of however many turns and commands, in however many
\* conversations, one at a time works on the files of the shared directory -
\* whatever is stopped, stalled, thrown or killed.
THEOREM OneWriterAlways == Spec => []OneWriter
<1>1. Core => OneWriter
  BY DEF Core, Structure, HoldsLock, OneWriter
<1> QED BY <1>1, Invariant, PTL

-----------------------------------------------------------------------------
(* The gate.                                                               *)

\* Nobody new is held, and who is stays what it was.
Shrinks ==
  \A t \in Turns : turn'[t].phase \in Holding =>
    /\ turn[t].phase \in Holding
    /\ turn'[t].conv = turn[t].conv
    /\ turn'[t].kind = turn[t].kind

\* Fewer held turns exclude each other still.
LEMMA ExclusionShrinks ==
  TurnsAndCommandsExclude /\ Shrinks => TurnsAndCommandsExclude'
BY DEF TurnsAndCommandsExclude, Shrinks, Held, IsCommand

\* One turn takes a further step of its way, or ends.
LEMMA OneMoves ==
  ASSUME Core, NEW t \in Turns, turn[t].phase \in Holding, NEW x,
         x.conv = turn[t].conv, x.kind = turn[t].kind,
         turn' = [turn EXCEPT ![t] = x]
  PROVE  Shrinks
BY DEF Core, Shrinks

\* A phase changes: what Move does to a turn that is held.
LEMMA MoveShrinks ==
  ASSUME Core, NEW t \in Turns, turn[t].phase \in Holding, NEW phase,
         Move(t, phase)
  PROVE  Shrinks
<1> DEFINE x == [turn[t] EXCEPT !.phase = phase]
<1>1. turn' = [turn EXCEPT ![t] = x]
  BY DEF Move
<1>2. x.conv = turn[t].conv /\ x.kind = turn[t].kind
  BY DEF Core, TurnType
<1> HIDE DEF x
<1> QED BY <1>1, <1>2, OneMoves

\* Everything but an acceptance shrinks the set of the held.
LEMMA StepShrinks ==
  ASSUME Core, [Next]_vars,
         ~ \E t \in Turns, c \in Convs : AcceptMessage(t, c),
         ~ \E t \in Turns, c \in Convs, kind \in Kinds \ {"message"} :
             AcceptCommand(t, c, kind)
  PROVE  Shrinks
<1>1. ASSUME NEW t \in Turns,
             RefuseUnrecorded(t) \/ RefuseRecorded(t) \/ Join(t)
      PROVE  Shrinks
  BY <1>1, MoveShrinks DEF RefuseUnrecorded, RefuseRecorded, Join, Holding
<1>2. ASSUME NEW t \in Turns, RecordUserTurn(t) \/ RecordCommand(t)
      PROVE  Shrinks
  BY <1>2, MoveShrinks DEF RecordUserTurn, RecordCommand, Holding
<1>3. ASSUME NEW t \in Turns, AcquireLock(t) \/ BeginPrompt(t) PROVE Shrinks
  BY <1>3, MoveShrinks DEF AcquireLock, BeginPrompt, Holding
<1>4. ASSUME NEW t \in Turns, ProviderError(t) PROVE Shrinks
  <2> DEFINE x == [turn[t] EXCEPT !.failed = TRUE]
  <2>1. turn' = [turn EXCEPT ![t] = x] /\ turn[t].phase \in Holding
    BY <1>4 DEF ProviderError, Holding
  <2>2. x.conv = turn[t].conv /\ x.kind = turn[t].kind
    BY DEF Core, TurnType
  <2> HIDE DEF x
  <2> QED BY <2>1, <2>2, OneMoves
<1>5. ASSUME NEW t \in Turns, Stall(t) PROVE Shrinks
  <2> DEFINE x == Stalled(turn[t])
  <2>1. turn' = [turn EXCEPT ![t] = x] /\ turn[t].phase \in Holding
    BY <1>5 DEF Stall, Holding
  <2>2. x.conv = turn[t].conv /\ x.kind = turn[t].kind
    BY DEF Core, TurnType, Stalled
  <2> HIDE DEF x
  <2> QED BY <2>1, <2>2, OneMoves
<1>6. ASSUME NEW t \in Turns, Settle(t) \/ Throw(t) PROVE Shrinks
  BY <1>6, MoveShrinks DEF Settle, Throw, Leave, Executing, Holding
<1>7. ASSUME NEW t \in Turns, FinishCommand(t) \/ FailCommand(t) PROVE Shrinks
  BY <1>7, MoveShrinks DEF FinishCommand, FailCommand, Holding
<1>8. ASSUME NEW c \in Convs, CancelTurn(c) PROVE Shrinks
  <2> DEFINE t == current[c].turnId
             x == [turn[t] EXCEPT !.aborting = TRUE]
  <2>1. CASE t # Null /\ turn[t].phase = "prompting"
    <3>1. t \in Turns /\ turn[t].phase \in Holding
      BY <2>1 DEF Core, CurrentType, Holding
    <3>2. turn' = [turn EXCEPT ![t] = x]
      BY <1>8, <2>1 DEF CancelTurn
    <3>3. x.conv = turn[t].conv /\ x.kind = turn[t].kind
      BY <3>1 DEF Core, TurnType
    <3> HIDE DEF x, t
    <3> QED BY <3>1, <3>2, <3>3, OneMoves
  <2>2. CASE ~ (t # Null /\ turn[t].phase = "prompting")
    BY <1>8, <2>2 DEF CancelTurn, Shrinks
  <2> QED BY <2>1, <2>2
<1>9. ASSUME NEW d, DieWith(d) PROVE Shrinks
  BY <1>9 DEF DieWith, Shrinks, Core, TurnType, Holding
<1>10. ASSUME UNCHANGED turn PROVE Shrinks
  BY <1>10 DEF Shrinks
<1> QED
  <2>1. ASSUME NEW t \in Turns, Stream(t) \/ Redeliver(t) PROVE UNCHANGED turn
    BY <2>1 DEF Stream, Redeliver
  <2>2. ASSUME NEW c \in Convs,
               SettleInterrupted(c) \/ RestartBeforeMarkerIsGone(c)
        PROVE  UNCHANGED turn
    BY <2>2 DEF SettleInterrupted, RestartBeforeMarkerIsGone
  <2>3. ASSUME BeginDrain \/ Listen \/ UNCHANGED vars PROVE UNCHANGED turn
    BY <2>3 DEF BeginDrain, Listen, vars
  <2>4. ASSUME Crash \/ ExitDrained
               \/ \E t \in Turns : CrashAfterMessage(t) \/ CrashAfterReply(t)
        PROVE  \E d : DieWith(d)
    BY <2>4 DEF Crash, ExitDrained, CrashAfterMessage, CrashAfterReply
  <2> QED BY <2>1, <2>2, <2>3, <2>4, <1>1, <1>2, <1>3, <1>4, <1>5, <1>6, <1>7,
             <1>8, <1>9, <1>10 DEF Next

\* Every step keeps turns and commands apart.
LEMMA ExclusionStep ==
  Core /\ TurnsAndCommandsExclude /\ [Next]_vars => TurnsAndCommandsExclude'
<1> SUFFICES ASSUME Core, TurnsAndCommandsExclude, [Next]_vars
             PROVE  TurnsAndCommandsExclude'
  OBVIOUS
<1>1. ASSUME NEW t \in Turns, NEW c \in Convs, AcceptMessage(t, c)
      PROVE  TurnsAndCommandsExclude'
  <2>1. /\ turn'[t].kind = "message" /\ turn'[t].conv = c
        /\ \A u \in Turns \ {t} : turn'[u] = turn[u]
    BY <1>1 DEF AcceptMessage, Core, Fresh
  <2>2. \A u \in Held(c, Holding) : ~ IsCommand(u)
    BY <1>1 DEF AcceptMessage
  <2> QED BY <2>1, <2>2 DEF TurnsAndCommandsExclude, Held, IsCommand
<1>2. ASSUME NEW t \in Turns, NEW c \in Convs, NEW kind \in Kinds,
             AcceptCommand(t, c, kind)
      PROVE  TurnsAndCommandsExclude'
  <2>1. /\ turn'[t].kind = kind /\ turn'[t].conv = c
        /\ \A u \in Turns \ {t} : turn'[u] = turn[u]
    BY <1>2 DEF AcceptCommand, Core, Fresh
  <2>2. Held(c, Holding) = {}
    BY <1>2 DEF AcceptCommand, ConversationCommandBusy
  <2> QED BY <2>1, <2>2 DEF TurnsAndCommandsExclude, Held, IsCommand
<1> QED BY <1>1, <1>2, StepShrinks, ExclusionShrinks

\* conversation-command-gate.ts:4-12: a conversation holds either turns or one
\* single command, from the tick that accepts the one to the end of the other.
THEOREM GateIsExclusive == Spec => []TurnsAndCommandsExclude
<1>1. Init => TurnsAndCommandsExclude
  BY DEF Init, TurnsAndCommandsExclude, Held, Fresh, Holding
<1> QED BY <1>1, Invariant, ExclusionStep, PTL DEF Spec

-----------------------------------------------------------------------------
(* Part 2: what is told of a turn.                                         *)

\* Turn t has not ended.
Open(t) == turn[t].phase \in Holding \cup {"new"}

\* The stop mark of some conversation names turn t.
StopMarked(t) == \E c \in Convs : current[c].stopped = t

\* What an open turn has published and stored: no reply, no `done`, and a
\* terminal frame only for a stop that is marked or a failure that is noted.
Untold(t) ==
  Open(t) =>
    /\ disk.replies[t] = <<>>
    /\ sent[t] \subseteq {"stop", "provider_error"}
    /\ "stop" \in sent[t] <=> StopMarked(t)
    /\ "provider_error" \in sent[t] <=> turn[t].failed
    /\ turn[t].failed \/ turn[t].stalled => turn[t].phase = "prompting"
    /\ turn[t].phase = "prompting" => turn[t].kind = "message"

\* What an ended turn has.
Told(t) ==
  turn[t].phase = "ended" =>
    /\ sent[t] # {}
    /\ "done" \in sent[t] => sent[t] = {"done"} /\ ~ turn[t].stalled
    /\ disk.replies[t] # <<>> =>
         /\ disk.replies[t][1] = "stopped" => "stop" \in sent[t]
         /\ "stop" \in sent[t] => disk.replies[t][1] \in {"stopped", "error"}

Verdict(t) == Untold(t) /\ Told(t)

\* A marker names a turn of its conversation: begun, or lost with a process.
Markers ==
  \A c \in Convs : \A t \in Turns : disk.marker[c] = t =>
    /\ turn[t].conv = c
    /\ \/ turn[t].phase = "lost"
       \/ turn[t].phase \in Begun /\ turn[t].kind = "message"

\* A process that settles the survivors holds no turn of its own yet.
Quiet == proc = "booting" => \A t \in Turns : turn[t].phase \notin Holding

Verdicts ==
  /\ \A t \in Turns : Verdict(t)
  /\ Markers
  /\ Quiet

-----------------------------------------------------------------------------
(* What a step leaves alone.                                               *)

\* A stop mark names a turn that has begun, on its own conversation.
LEMMA MarkedIsBegun ==
  ASSUME Core, NEW t \in Turns, StopMarked(t)
  PROVE  /\ turn[t].phase \in Begun /\ turn[t].kind = "message"
         /\ turn[t].conv \in Convs
         /\ current[turn[t].conv].turnId = t /\ WasStopped(t)
<1>1. PICK c \in Convs : current[c].stopped = t
  BY DEF StopMarked
<1>2. current[c].turnId = t
  BY <1>1, NullAssumption DEF Core
<1> QED BY <1>1, <1>2 DEF Core, Structure, WasStopped

\* And what cancelTurn marked is what the turn's end looks up.
LEMMA StoppedIsMarked ==
  ASSUME Core, NEW t \in Turns, turn[t].phase # "new"
  PROVE  WasStopped(t) <=> StopMarked(t)
<1>1. turn[t].conv \in Convs
  BY DEF Core, Structure
<1> QED BY <1>1, MarkedIsBegun DEF StopMarked, WasStopped

\* Nothing of turn t changes.
LEMMA Unaffected ==
  ASSUME NEW t \in Turns, Untold(t), Told(t), turn'[t] = turn[t],
         sent'[t] = sent[t], disk'.replies[t] = disk.replies[t],
         StopMarked(t)' <=> StopMarked(t)
  PROVE  Untold(t)' /\ Told(t)'
BY DEF Untold, Told, Open

\* With the stop marks, the frames and the replies, all but one turn stay.
LEMMA MarksStay ==
  ASSUME UNCHANGED current, NEW t \in Turns
  PROVE  StopMarked(t)' <=> StopMarked(t)
BY DEF StopMarked

\* Nothing is said of a turn that died with its process.
LEMMA LostSaysNothing ==
  ASSUME NEW t \in Turns, turn'[t].phase = "lost"
  PROVE  Untold(t)' /\ Told(t)'
BY DEF Untold, Told, Open, Holding

\* Only the phase of turn t changes, and it stays open.
LEMMA MovesOpen ==
  ASSUME Core, Rest, NEW t \in Turns, Untold(t), Told(t), Open(t),
         NEW phase \in Holding, Move(t, phase),
         turn[t].phase # "prompting",
         phase = "prompting" => turn[t].kind = "message",
         sent' = sent, disk'.replies[t] = disk.replies[t],
         StopMarked(t)' <=> StopMarked(t)
  PROVE  Untold(t)' /\ Told(t)'
<1>1. turn'[t] = [turn[t] EXCEPT !.phase = phase] /\ turn[t] \in TurnType
  BY DEF Move, Core
<1>2. /\ turn'[t].phase = phase /\ turn'[t].kind = turn[t].kind
      /\ turn'[t].failed = turn[t].failed /\ turn'[t].stalled = turn[t].stalled
  BY <1>1 DEF TurnType
<1> QED BY <1>2 DEF Untold, Told, Open, Holding

\* What Move does to the turns.
LEMMA MoveEffect ==
  ASSUME Core, NEW t \in Turns, NEW phase, Move(t, phase)
  PROVE  /\ turn'[t].phase = phase /\ turn'[t].kind = turn[t].kind
         /\ turn'[t].conv = turn[t].conv
         /\ turn'[t].failed = turn[t].failed /\ turn'[t].stalled = turn[t].stalled
         /\ \A u \in Turns \ {t} : turn'[u] = turn[u]
<1>1. turn' = [turn EXCEPT ![t].phase = phase] /\ turn[t] \in TurnType
  BY DEF Move, Core
<1> QED BY <1>1 DEF Core, TurnType

\* What a terminal frame does to the verdicts.
LEMMA TerminateEffect ==
  ASSUME Rest, NEW t \in Turns, NEW type, Terminate(t, type)
  PROVE  /\ sent'[t] = sent[t] \cup {type}
         /\ \A u \in Turns \ {t} : sent'[u] = sent[u]
BY DEF Terminate, Rest

\* What a reply does to the transcript.
LEMMA ReplyEffect ==
  ASSUME NEW d \in DiskType, NEW t \in Turns, NEW kind
  PROVE  /\ Reply(d, t, kind).replies[t] = Append(d.replies[t], kind)
         /\ \A u \in Turns \ {t} : Reply(d, t, kind).replies[u] = d.replies[u]
         /\ Reply(d, t, kind).marker = d.marker
BY DEF Reply, DiskType

\* What the user message does to the transcript.
LEMMA AskEffect ==
  ASSUME NEW d \in DiskType, NEW t \in Turns
  PROVE  Ask(d, t).replies = d.replies /\ Ask(d, t).marker = d.marker
BY DEF Ask, DiskType

\* A first reply is the first of the transcript.
LEMMA FirstReply ==
  ASSUME NEW kind
  PROVE  Append(<<>>, kind) # <<>> /\ Append(<<>>, kind)[1] = kind
OBVIOUS

-----------------------------------------------------------------------------
(* Quiet and Markers.                                                      *)

\* The steps of the booting process accept nobody.
LEMMA QuietStep == Core /\ Rest /\ Quiet /\ [Next]_vars => Quiet'
<1> SUFFICES ASSUME Core, Rest, Quiet, [Next]_vars, proc' = "booting",
                    NEW u \in Turns
             PROVE  turn'[u].phase \notin Holding
  BY DEF Quiet
<1>1. ASSUME NEW d, DieWith(d) PROVE turn'[u].phase \notin Holding
  BY <1>1 DEF DieWith, Core, TurnType, Holding
<1>2. CASE \/ Crash \/ ExitDrained
           \/ \E t \in Turns : CrashAfterMessage(t) \/ CrashAfterReply(t)
  BY <1>1, <1>2 DEF Crash, ExitDrained, CrashAfterMessage, CrashAfterReply
<1>3. CASE BeginDrain \/ Listen
  BY <1>3 DEF BeginDrain, Listen
<1>4. CASE proc = "booting" /\ Shrinks
  BY <1>4 DEF Quiet, Shrinks
<1>5. CASE \/ \E t \in Turns, c \in Convs : AcceptMessage(t, c)
           \/ \E t \in Turns, c \in Convs, kind \in Kinds \ {"message"} :
                AcceptCommand(t, c, kind)
  BY <1>5 DEF AcceptMessage, AcceptCommand, Serving
<1>6. \/ UNCHANGED proc \/ BeginDrain \/ Listen
      \/ Crash \/ ExitDrained
      \/ \E t \in Turns : CrashAfterMessage(t) \/ CrashAfterReply(t)
  BY DEF Next, vars, AcceptMessage, AcceptCommand, RefuseUnrecorded,
         RefuseRecorded, Join, RecordUserTurn, RecordCommand, AcquireLock,
         BeginPrompt, Stream, ProviderError, Stall, Settle, Throw,
         FinishCommand, FailCommand, CancelTurn, SettleInterrupted,
         RestartBeforeMarkerIsGone, Redeliver
<1> QED BY <1>2, <1>3, <1>4, <1>5, <1>6, StepShrinks

\* Turn t may be named by a marker.
Markable(t) ==
  \/ turn[t].phase = "lost"
  \/ turn[t].phase \in Begun /\ turn[t].kind = "message"

\* Markers stay true of turns that stay markable.
LEMMA MarkersStay ==
  ASSUME Markers, NEW gone \in SUBSET Convs,
         \A c \in Convs \ gone : disk'.marker[c] = disk.marker[c],
         \A c \in gone : disk'.marker[c] = Null,
         \A t \in Turns : Markable(t) =>
           \/ Markable(t)' /\ turn'[t].conv = turn[t].conv
           \/ turn[t].conv \in gone
  PROVE  Markers'
<1> SUFFICES ASSUME NEW c \in Convs, NEW t \in Turns, disk'.marker[c] = t
             PROVE  turn'[t].conv = c /\ Markable(t)'
  BY DEF Markers, Markable
<1>1. c \notin gone /\ disk.marker[c] = t
  BY NullAssumption
<1>2. turn[t].conv = c /\ Markable(t)
  BY <1>1 DEF Markers, Markable
<1> QED BY <1>1, <1>2

\* The same when no marker goes.
LEMMA MarkersKept ==
  ASSUME Markers, disk'.marker = disk.marker,
         \A t \in Turns : Markable(t) =>
           Markable(t)' /\ turn'[t].conv = turn[t].conv
  PROVE  Markers'
<1>1. \A c \in {} : disk'.marker[c] = Null
  OBVIOUS
<1>2. \A c \in Convs \ {} : disk'.marker[c] = disk.marker[c]
  OBVIOUS
<1>3. {} \in SUBSET Convs
  OBVIOUS
<1> DEFINE gone == {}
<1> HIDE DEF gone
<1>4. /\ gone \in SUBSET Convs
      /\ \A c \in gone : disk'.marker[c] = Null
      /\ \A c \in Convs \ gone : disk'.marker[c] = disk.marker[c]
  BY <1>1, <1>2, <1>3 DEF gone
<1> QED BY <1>4, MarkersStay

\* A death keeps the markers of what it leaves on disk.
LEMMA MarkersDie ==
  ASSUME Core, Markers, NEW d, d.marker = disk.marker, DieWith(d)
  PROVE  Markers'
<1>1. \A t \in Turns : Markable(t) => turn[t].phase \in Holding \cup {"lost"}
  BY DEF Markable, Begun, Executing, Holding
<1>2. \A t \in Turns : turn'[t].conv = turn[t].conv
  BY DEF DieWith, Core, TurnType
<1>3. \A t \in Turns :
        turn[t].phase \in Holding \cup {"lost"} => turn'[t].phase = "lost"
  BY DEF DieWith, Core, TurnType, Holding
<1>4. \A t \in Turns : Markable(t) => Markable(t)' /\ turn'[t].conv = turn[t].conv
  BY <1>1, <1>2, <1>3 DEF Markable
<1>5. disk'.marker = disk.marker
  BY DEF DieWith
<1> QED BY <1>4, <1>5, MarkersKept

\* A turn that no marker may name takes a step.
LEMMA MarkersSkip ==
  ASSUME Markers, NEW t \in Turns, ~ Markable(t), disk'.marker = disk.marker,
         \A u \in Turns \ {t} : turn'[u] = turn[u]
  PROVE  Markers'
<1>1. \A u \in Turns : Markable(u) => Markable(u)' /\ turn'[u].conv = turn[u].conv
  BY DEF Markable
<1> QED BY <1>1, MarkersKept

\* Every step keeps the markers true.
LEMMA MarkersStep == Core /\ Rest /\ Quiet /\ Markers /\ [Next]_vars => Markers'
<1> SUFFICES ASSUME Core, Rest, Quiet, Markers, [Next]_vars PROVE Markers'
  OBVIOUS
<1>0. disk \in DiskType
  BY DEF Rest
<1>1. ASSUME NEW t \in Turns, NEW c \in Convs, AcceptMessage(t, c) PROVE Markers'
  BY <1>1, MarkersSkip DEF AcceptMessage, Markable, Begun, Executing, Core
<1>2. ASSUME NEW t \in Turns, NEW c \in Convs, NEW kind \in Kinds,
             AcceptCommand(t, c, kind)
      PROVE  Markers'
  BY <1>2, MarkersSkip DEF AcceptCommand, Markable, Begun, Executing, Core
<1>3. ASSUME NEW t \in Turns,
             RefuseUnrecorded(t) \/ RefuseRecorded(t) \/ Join(t)
      PROVE  Markers'
  <2>1. ~ Markable(t) /\ \A u \in Turns \ {t} : turn'[u] = turn[u]
    BY <1>3, MoveEffect
       DEF RefuseUnrecorded, RefuseRecorded, Join, Markable, Begun, Executing
  <2>2. Ask(disk, t) \in DiskType /\ Ask(disk, t).marker = disk.marker
    BY <1>0, AskEffect, AskType
  <2>3. disk'.marker = disk.marker
    BY <1>3, <2>2, ReplyEffect DEF RefuseUnrecorded, RefuseRecorded, Join
  <2> QED BY <2>1, <2>3, MarkersSkip
<1>4. ASSUME NEW t \in Turns, RecordUserTurn(t) PROVE Markers'
  <2> DEFINE c == turn[t].conv
  <2>1. /\ turn'[t].phase = "recorded" /\ turn'[t].conv = c
        /\ turn'[t].kind = "message" /\ c \in Convs
        /\ turn[t].phase = "queued"
        /\ \A u \in Turns \ {t} : turn'[u] = turn[u]
    BY <1>4, MoveEffect DEF RecordUserTurn, Core, Structure
  <2>2. \A d \in Convs : disk'.marker[d] = IF d = c THEN t ELSE disk.marker[d]
    BY <1>0, <1>4 DEF RecordUserTurn, RecordOnDisk, Ask, DiskType
  <2> QED BY <2>1, <2>2 DEF Markers, Begun, Executing
<1>5. ASSUME NEW t \in Turns, RecordCommand(t) PROVE Markers'
  BY <1>0, <1>5, AskEffect, MoveEffect, MarkersSkip
     DEF RecordCommand, Markable, Begun, Executing
<1>6. ASSUME NEW t \in Turns, AcquireLock(t) \/ BeginPrompt(t) PROVE Markers'
  <2>1. /\ turn[t].phase \in Begun /\ turn'[t].phase \in Begun
        /\ turn'[t].conv = turn[t].conv /\ turn'[t].kind = turn[t].kind
        /\ \A u \in Turns \ {t} : turn'[u] = turn[u]
        /\ disk' = disk
    BY <1>6, MoveEffect DEF AcquireLock, BeginPrompt, Begun, Executing
  <2> QED BY <2>1, MarkersKept DEF Markable, Begun, Executing
<1>7. ASSUME NEW t \in Turns, ProviderError(t) \/ Stall(t) PROVE Markers'
  <2>1. turn[t] \in TurnType
    BY DEF Core
  <2>2. /\ turn'[t].phase = turn[t].phase
        /\ turn'[t].conv = turn[t].conv /\ turn'[t].kind = turn[t].kind
        /\ \A u \in Turns \ {t} : turn'[u] = turn[u]
        /\ disk' = disk
    BY <1>7, <2>1 DEF ProviderError, Stall, Stalled, Core, TurnType
  <2> QED BY <2>2, MarkersKept DEF Markable
<1>8. ASSUME NEW t \in Turns, NEW d \in DiskType, d.marker = disk.marker,
             turn[t].phase \in Executing, Leave(t, d)
      PROVE  Markers'
  <2> DEFINE gone == {turn[t].conv}
  <2>1. gone \in SUBSET Convs
    BY <1>8 DEF Core, Structure, Executing
  <2>2. /\ \A c \in Convs \ gone : disk'.marker[c] = disk.marker[c]
        /\ \A c \in gone : disk'.marker[c] = Null
    BY <1>8, <2>1 DEF Leave, DiskType
  <2>3. \A u \in Turns \ {t} : turn'[u] = turn[u]
    BY <1>8, MoveEffect DEF Leave
  <2>4. \A u \in Turns : Markable(u) =>
          \/ Markable(u)' /\ turn'[u].conv = turn[u].conv
          \/ turn[u].conv \in gone
    BY <2>3 DEF Markable
  <2> HIDE DEF gone
  <2> QED BY <2>1, <2>2, <2>4, MarkersStay
<1>9. ASSUME NEW t \in Turns, Settle(t) \/ Throw(t) PROVE Markers'
  <2>1. PICK kind \in ReplyKinds : Leave(t, Reply(disk, t, kind))
    BY <1>9, ReplyKindType DEF Settle, Throw, ReplyKinds
  <2>2. turn[t].phase \in Executing
    BY <1>9 DEF Settle, Throw, Executing
  <2> QED BY <1>0, <1>8, <2>1, <2>2, ReplyType, ReplyEffect
<1>10. ASSUME NEW t \in Turns, FinishCommand(t) \/ FailCommand(t) PROVE Markers'
  <2>1. ~ Markable(t) /\ \A u \in Turns \ {t} : turn'[u] = turn[u]
    BY <1>10, MoveEffect DEF FinishCommand, FailCommand, IsCommand, Markable
  <2>2. disk'.marker = disk.marker
    BY <1>0, <1>10, ReplyEffect DEF FinishCommand, FailCommand
  <2> QED BY <2>1, <2>2, MarkersSkip
<1>11. ASSUME NEW c \in Convs, CancelTurn(c) PROVE Markers'
  <2> DEFINE t == current[c].turnId
  <2>1. \/ turn' = turn
        \/ t \in Turns /\ turn' = [turn EXCEPT ![t].aborting = TRUE]
    BY <1>11 DEF CancelTurn, Core, CurrentType
  <2>2. \A u \in Turns : turn'[u].phase = turn[u].phase
          /\ turn'[u].conv = turn[u].conv /\ turn'[u].kind = turn[u].kind
    BY <2>1 DEF Core, TurnType
  <2>3. disk' = disk
    BY <1>11 DEF CancelTurn
  <2> QED BY <2>2, <2>3, MarkersKept DEF Markable
<1>12. ASSUME Crash \/ ExitDrained PROVE Markers'
  BY <1>12, MarkersDie DEF Crash, ExitDrained
<1>13. ASSUME NEW t \in Turns, CrashAfterMessage(t) PROVE Markers'
  BY <1>0, <1>13, AskEffect, MarkersDie DEF CrashAfterMessage
<1>14. ASSUME NEW t \in Turns, CrashAfterReply(t) PROVE Markers'
  BY <1>0, <1>14, ReplyEffect, MarkersDie DEF CrashAfterReply
<1>15. ASSUME NEW c \in Convs,
              SettleInterrupted(c) \/ RestartBeforeMarkerIsGone(c)
       PROVE  Markers'
  <2> DEFINE t == disk.marker[c]
  <2>1. t \in Turns /\ turn' = turn
    BY <1>0, <1>15 DEF SettleInterrupted, RestartBeforeMarkerIsGone, DiskType
  <2>2. /\ Reply(disk, t, "interrupted") \in DiskType
        /\ Reply(disk, t, "interrupted").marker = disk.marker
    BY <1>0, <2>1, ReplyType, ReplyEffect DEF ReplyKinds
  <2>3. CASE SettleInterrupted(c)
    <3> DEFINE d == IF AlreadySettled(t) THEN disk ELSE Reply(disk, t, "interrupted")
    <3>1. d \in DiskType /\ d.marker = disk.marker
      BY <1>0, <2>2
    <3>2. disk' = [d EXCEPT !.marker[c] = Null]
      BY <2>3 DEF SettleInterrupted
    <3> HIDE DEF d
    <3>3. \A e \in Convs : disk'.marker[e] = IF e = c THEN Null ELSE disk.marker[e]
      BY <3>1, <3>2 DEF DiskType
    <3> QED BY <2>1, <3>3, NullAssumption DEF Markers
  <2>4. CASE RestartBeforeMarkerIsGone(c)
    BY <2>1, <2>2, <2>4, MarkersKept DEF RestartBeforeMarkerIsGone, Markable
  <2> QED BY <1>15, <2>3, <2>4
<1>16. ASSUME NEW t \in Turns, Redeliver(t) PROVE Markers'
  <2>1. turn' = turn /\ turn[t].phase = "lost" /\ turn[t].conv \in Convs
    BY <1>16 DEF Redeliver, Core, Structure
  <2>2. \A e \in Convs : disk'.marker[e] =
          IF e = turn[t].conv THEN t ELSE disk.marker[e]
    BY <1>0, <1>16 DEF Redeliver, DiskType
  <2> QED BY <2>1, <2>2 DEF Markers
<1>17. CASE (\E t \in Turns : Stream(t)) \/ BeginDrain \/ Listen \/ UNCHANGED vars
  BY <1>17 DEF Stream, BeginDrain, Listen, vars, Markers, Begun, Executing
<1> QED
  BY <1>1, <1>2, <1>3, <1>4, <1>5, <1>6, <1>7, <1>9, <1>10, <1>11, <1>12,
     <1>13, <1>14, <1>15, <1>16, <1>17 DEF Next

-----------------------------------------------------------------------------
(* Untold and Told.                                                        *)

\* A turn of its own acceptance is open and untold.
LEMMA VerdictAccepts ==
  ASSUME Core, NEW t \in Turns, Verdict(t), turn[t].phase = "new",
         turn'[t].phase \in {"accepted", "queued"},
         turn'[t].failed = FALSE, turn'[t].stalled = FALSE,
         UNCHANGED <<current, disk, sent>>
  PROVE  Verdict(t)'
<1>1. StopMarked(t)' <=> StopMarked(t)
  BY MarksStay
<1> QED BY <1>1 DEF Verdict, Untold, Told, Open, Holding

\* A turn ends, with its first reply or without one.
LEMMA VerdictEnds ==
  ASSUME Core, NEW t \in Turns, Untold(t), Open(t), Move(t, "ended"),
         \/ disk'.replies[t] = disk.replies[t]
         \/ \E kind \in ReplyKinds :
              /\ disk'.replies[t] = Append(disk.replies[t], kind)
              /\ kind = "stopped" => "stop" \in sent'[t]
              /\ "stop" \in sent'[t] => kind \in {"stopped", "error"},
         sent'[t] # {},
         "done" \in sent'[t] => sent'[t] = {"done"} /\ ~ turn[t].stalled
  PROVE  Verdict(t)'
<1>1. turn'[t].phase = "ended" /\ turn'[t].stalled = turn[t].stalled
  BY MoveEffect
<1>2. disk.replies[t] = <<>>
  BY DEF Untold
<1>3. disk'.replies[t] # <<>> =>
        /\ disk'.replies[t][1] = "stopped" => "stop" \in sent'[t]
        /\ "stop" \in sent'[t] => disk'.replies[t][1] \in {"stopped", "error"}
  BY <1>2, FirstReply
<1> QED BY <1>1, <1>3 DEF Verdict, Untold, Told, Open, Holding

\* The stop mark goes with its own turn only.
LEMMA ClearingSparesOthers ==
  ASSUME Core, NEW t \in Turns, turn[t].phase \in Executing,
         current' = [current EXCEPT ![turn[t].conv] = Cleared(turn[t].conv)],
         NEW u \in Turns \ {t}
  PROVE  StopMarked(u)' <=> StopMarked(u)
<1> DEFINE c == turn[t].conv
<1>1. c \in Convs /\ FirstInQueue(t)
  BY DEF Core, Structure, Begun, Executing
<1>2. current'[c].stopped = Null /\ \A d \in Convs \ {c} : current'[d] = current[d]
  BY <1>1 DEF Core, Cleared, CurrentType
<1>3. current[c].stopped # u
  <2> SUFFICES ASSUME current[c].stopped = u PROVE FALSE
    OBVIOUS
  <2>1. turn[u].phase \in Begun /\ turn[u].conv = c
    BY <1>1, NullAssumption DEF Core, Structure
  <2> QED BY <1>1, <2>1, OneBegun
<1> QED BY <1>1, <1>2, <1>3, NullAssumption DEF StopMarked

\* Settle and Throw: the verdict agrees with the mark and with the stamp.
LEMMA VerdictSettles ==
  ASSUME Core, Rest, NEW t \in Turns, Verdict(t), NEW u \in Turns, Verdict(u),
         Settle(t) \/ Throw(t)
  PROVE  Verdict(u)'
<1>0. disk \in DiskType
  BY DEF Rest
<1>1. turn[t].phase \in Executing /\ Open(t) /\ Untold(t)
  BY DEF Settle, Throw, Executing, Open, Holding, Verdict
<1>2. PICK kind \in ReplyKinds :
        /\ Leave(t, Reply(disk, t, kind))
        /\ \/ Settle(t) /\ kind = ReplyKind(t)
           \/ Throw(t) /\ kind = "error"
  <2>1. CASE Settle(t)
    <3>1. ReplyKind(t) \in ReplyKinds /\ Leave(t, Reply(disk, t, ReplyKind(t)))
      BY <2>1, ReplyKindType DEF Settle
    <3> QED BY <2>1, <3>1
  <2>2. CASE Throw(t)
    <3>1. "error" \in ReplyKinds /\ Leave(t, Reply(disk, t, "error"))
      BY <2>2 DEF Throw, ReplyKinds
    <3> QED BY <2>2, <3>1
  <2> QED BY <2>1, <2>2
<1>3. Move(t, "ended") /\ turn[t].conv \in Convs
      /\ current' = [current EXCEPT ![turn[t].conv] = Cleared(turn[t].conv)]
  BY <1>1, <1>2 DEF Leave, Core, Structure, Executing
<1>4. Reply(disk, t, kind) \in DiskType
  BY <1>0, ReplyType
<1>5. disk'.replies = Reply(disk, t, kind).replies
  BY <1>2, <1>4 DEF Leave, DiskType
<1>6. /\ disk'.replies[t] = Append(disk.replies[t], kind)
      /\ \A v \in Turns \ {t} : disk'.replies[v] = disk.replies[v]
  BY <1>0, <1>5, ReplyEffect
<1>7. \A v \in Turns \ {t} : sent'[v] = sent[v]
  BY TerminateEffect DEF Settle, Throw
<1>8. CASE u # t
  <2>1. StopMarked(u)' <=> StopMarked(u)
    BY <1>1, <1>3, <1>8, ClearingSparesOthers
  <2> QED BY <1>3, <1>6, <1>7, <1>8, <2>1, MoveEffect, Unaffected DEF Verdict
<1>9. CASE u = t
  <2>1. /\ sent[t] \subseteq {"stop", "provider_error"}
        /\ "stop" \in sent[t] <=> WasStopped(t)
        /\ "provider_error" \in sent[t] <=> turn[t].failed
    BY <1>1, StoppedIsMarked DEF Untold, Open, Executing
  <2>2. CASE Settle(t) /\ kind = ReplyKind(t)
    <3>1. kind = ReplyKind(t)
      BY <2>2
    <3>2. CASE CleanEnd(t)
      <4>1. sent'[t] = sent[t] \cup {"done"}
        BY <2>2, <3>2, TerminateEffect DEF Settle
      <4>2. sent[t] = {} /\ ~ turn[t].stalled /\ ~ WasStopped(t)
        BY <2>1, <3>2 DEF CleanEnd, SynthesizesError
      <4>3. kind # "stopped"
        BY <3>1, <4>2 DEF ReplyKind
      <4> QED BY <1>1, <1>3, <1>6, <1>9, <4>1, <4>2, <4>3, VerdictEnds
    <3>3. CASE ~ CleanEnd(t) /\ SynthesizesError(t)
      <4>1. sent'[t] = sent[t] \cup {"provider_error"}
        BY <2>2, <3>3, TerminateEffect DEF Settle
      <4>2. "stop" \notin sent'[t] /\ kind = "error"
        BY <2>1, <3>1, <3>3, <4>1 DEF SynthesizesError, ReplyKind
      <4> QED BY <1>1, <1>3, <1>6, <1>9, <2>1, <4>1, <4>2, VerdictEnds
    <3>4. CASE ~ CleanEnd(t) /\ ~ SynthesizesError(t)
      <4>1. sent'[t] = sent[t]
        BY <2>2, <3>4 DEF Settle
      <4>2. turn[t].failed \/ WasStopped(t)
        BY <3>4 DEF CleanEnd
      <4>3. kind = "stopped" <=> "stop" \in sent'[t]
        BY <2>1, <3>1, <4>1 DEF ReplyKind
      <4> QED BY <1>1, <1>3, <1>6, <1>9, <2>1, <4>1, <4>2, <4>3, VerdictEnds
    <3> QED BY <3>2, <3>3, <3>4
  <2>3. CASE Throw(t) /\ kind = "error"
    <3>1. kind = "error"
      BY <2>3
    <3>2. \/ turn[t].failed /\ sent'[t] = sent[t]
          \/ sent'[t] = sent[t] \cup {"error"}
      BY <2>3, TerminateEffect DEF Throw
    <3>3. sent'[t] # {} /\ "done" \notin sent'[t]
      BY <2>1, <3>2
    <3> QED BY <1>1, <1>3, <1>6, <1>9, <3>1, <3>3, VerdictEnds
  <2> QED BY <1>2, <2>2, <2>3
<1> QED BY <1>8, <1>9

\* A Stop marks the turn it shows as stopped.
LEMMA VerdictCancels ==
  ASSUME Core, Rest, NEW c \in Convs, CancelTurn(c), NEW u \in Turns, Verdict(u)
  PROVE  Verdict(u)'
<1> DEFINE t == current[c].turnId
<1>1. \/ turn' = turn
      \/ t \in Turns /\ turn' = [turn EXCEPT ![t].aborting = TRUE]
  BY DEF CancelTurn, Core, CurrentType
<1>2. /\ turn'[u].phase = turn[u].phase /\ turn'[u].kind = turn[u].kind
      /\ turn'[u].failed = turn[u].failed /\ turn'[u].stalled = turn[u].stalled
  <2>1. turn[u] \in TurnType
    BY DEF Core
  <2>2. turn'[u] = turn[u] \/ turn'[u] = [turn[u] EXCEPT !.aborting = TRUE]
    BY <1>1 DEF Core
  <2> QED BY <2>1, <2>2 DEF TurnType
<1>3. disk' = disk
  BY DEF CancelTurn
<1>4. /\ current' = MarkStopped(c) /\ t \in Turns \cup {Null}
      /\ sent' = IF t = Null THEN sent ELSE [sent EXCEPT ![t] = @ \cup {"stop"}]
  BY DEF CancelTurn, Core, CurrentType
<1>5. /\ \A d \in Convs \ {c} : current'[d] = current[d]
      /\ current'[c].stopped = IF t # Null THEN t ELSE current[c].stopped
  <2> DEFINE stopped == IF t # Null THEN t ELSE current[c].stopped
             x == [current[c] EXCEPT !.stopped = stopped]
  <2>1. current' = [current EXCEPT ![c] = x]
    BY <1>4 DEF MarkStopped
  <2>2. x.stopped = stopped
    BY DEF Core, CurrentType
  <2> HIDE DEF x, stopped, t
  <2>3. current'[c] = x /\ \A d \in Convs \ {c} : current'[d] = current[d]
    BY <2>1 DEF Core
  <2> QED BY <2>2, <2>3 DEF stopped
<1>6. current[c].stopped \in {Null, t}
  BY DEF Core
<1> HIDE DEF t
<1>7. CASE u = t
  <2>1. turn[u].phase \in Begun
    BY <1>7 DEF t, Core, Structure
  <2>2. u # Null /\ StopMarked(u)'
    BY <1>5, <1>7, NullAssumption DEF StopMarked
  <2>3. sent'[u] = sent[u] \cup {"stop"}
    BY <1>4, <1>7, <2>2 DEF Rest
  <2> QED BY <1>2, <1>3, <2>1, <2>2, <2>3
          DEF Verdict, Untold, Told, Open, Holding, Begun, Executing
<1>8. CASE u # t
  <2>1. StopMarked(u)' <=> StopMarked(u)
    BY <1>5, <1>6, <1>8, NullAssumption DEF StopMarked
  <2>2. sent'[u] = sent[u]
    BY <1>4, <1>8 DEF Rest
  <2> QED BY <1>2, <1>3, <2>1, <2>2 DEF Verdict, Untold, Told, Open
<1> QED BY <1>7, <1>8

\* Death ends no turn: it loses the open ones that were accepted.
LEMMA VerdictDies ==
  ASSUME Core, NEW d \in DiskType, DieWith(d), NEW u \in Turns, Verdict(u),
         turn[u].phase \notin Holding => d.replies[u] = disk.replies[u]
  PROVE  Verdict(u)'
<1>1. CASE turn[u].phase \in Holding
  <2>1. turn'[u].phase = "lost"
    BY <1>1 DEF DieWith, Core, TurnType
  <2> QED BY <2>1, LostSaysNothing DEF Verdict
<1>2. CASE turn[u].phase \notin Holding
  <2>1. turn'[u] = turn[u] /\ disk' = d /\ sent' = sent
    BY <1>2 DEF DieWith
  <2>2. ~ StopMarked(u)
    BY <1>2, MarkedIsBegun DEF Begun, Executing, Holding
  <2>3. ~ StopMarked(u)'
    BY NullAssumption DEF StopMarked, DieWith, Idle
  <2> QED BY <1>2, <2>1, <2>2, <2>3, Unaffected DEF Verdict
<1> QED BY <1>1, <1>2

\* The boot answers turns that died, and no other.
LEMMA VerdictBoots ==
  ASSUME Core, Rest, Quiet, Markers, NEW c \in Convs,
         SettleInterrupted(c) \/ RestartBeforeMarkerIsGone(c),
         NEW u \in Turns, Verdict(u)
  PROVE  Verdict(u)'
<1> DEFINE t == disk.marker[c]
<1>1. t \in Turns /\ disk \in DiskType
  BY DEF SettleInterrupted, RestartBeforeMarkerIsGone, Rest, DiskType
<1>2. turn[t].phase = "lost"
  BY <1>1 DEF SettleInterrupted, RestartBeforeMarkerIsGone, Quiet, Markers,
              Begun, Executing, Holding
<1>3. UNCHANGED <<turn, current, sent>>
  BY DEF SettleInterrupted, RestartBeforeMarkerIsGone
<1>4. Reply(disk, t, "interrupted") \in DiskType
  BY <1>1, ReplyType DEF ReplyKinds
<1>5. \/ disk'.replies = disk.replies
      \/ disk'.replies = Reply(disk, t, "interrupted").replies
  BY <1>1, <1>4 DEF SettleInterrupted, RestartBeforeMarkerIsGone, DiskType
<1>6. u # t => disk'.replies[u] = disk.replies[u]
  BY <1>1, <1>5, ReplyEffect
<1> HIDE DEF t
<1>7. CASE u = t
  BY <1>2, <1>3, <1>7, LostSaysNothing DEF Verdict
<1>8. CASE u # t
  <2>1. StopMarked(u)' <=> StopMarked(u)
    BY <1>3, MarksStay
  <2> QED BY <1>3, <1>6, <1>8, <2>1, Unaffected DEF Verdict
<1> QED BY <1>7, <1>8

\* Every step keeps the verdict of every turn.
LEMMA VerdictStep ==
  ASSUME Core, Rest, Quiet, Markers, [Next]_vars,
         NEW u \in Turns, \A t \in Turns : Verdict(t)
  PROVE  Verdict(u)'
<1>0. Verdict(u) /\ disk \in DiskType
  BY DEF Rest
<1>1. ASSUME NEW t \in Turns, NEW c \in Convs, AcceptMessage(t, c)
      PROVE  Verdict(u)'
  <2>1. /\ turn'[t].phase = "accepted"
        /\ turn'[t].failed = FALSE /\ turn'[t].stalled = FALSE
        /\ \A v \in Turns \ {t} : turn'[v] = turn[v]
        /\ turn[t].phase = "new" /\ UNCHANGED <<current, disk, sent>>
    BY <1>1 DEF AcceptMessage, Fresh, Core
  <2>2. StopMarked(u)' <=> StopMarked(u)
    BY <2>1, MarksStay
  <2> QED BY <1>0, <2>1, <2>2, VerdictAccepts, Unaffected DEF Verdict
<1>2. ASSUME NEW t \in Turns, NEW c \in Convs, NEW kind \in Kinds,
             AcceptCommand(t, c, kind)
      PROVE  Verdict(u)'
  <2>1. /\ turn'[t].phase = "queued"
        /\ turn'[t].failed = FALSE /\ turn'[t].stalled = FALSE
        /\ \A v \in Turns \ {t} : turn'[v] = turn[v]
        /\ turn[t].phase = "new" /\ UNCHANGED <<current, disk, sent>>
    BY <1>2 DEF AcceptCommand, Fresh, Core
  <2>2. StopMarked(u)' <=> StopMarked(u)
    BY <2>1, MarksStay
  <2> QED BY <1>0, <2>1, <2>2, VerdictAccepts, Unaffected DEF Verdict
<1>3. ASSUME NEW t \in Turns, RefuseUnrecorded(t) \/ RefuseRecorded(t)
      PROVE  Verdict(u)'
  <2>1. /\ Move(t, "ended") /\ Open(t) /\ turn[t].phase = "accepted"
        /\ sent'[t] = sent[t] \cup {"error"} /\ current' = current
        /\ \A v \in Turns \ {t} : sent'[v] = sent[v]
    BY <1>3, TerminateEffect DEF RefuseUnrecorded, RefuseRecorded, Open, Holding
  <2>2. Untold(t) /\ ~ StopMarked(t)
    BY <2>1, MarkedIsBegun DEF Verdict, Begun, Executing
  <2>3. /\ "stop" \notin sent'[t] /\ "done" \notin sent'[t] /\ sent'[t] # {}
    BY <2>1, <2>2 DEF Untold
  <2>4. Ask(disk, t) \in DiskType /\ Ask(disk, t).replies = disk.replies
    BY <1>0, AskType, AskEffect
  <2>5. /\ \/ disk'.replies[t] = disk.replies[t]
           \/ disk'.replies[t] = Append(disk.replies[t], "error")
        /\ \A v \in Turns \ {t} : disk'.replies[v] = disk.replies[v]
    BY <1>3, <2>4, ReplyEffect DEF RefuseUnrecorded, RefuseRecorded
  <2>6. CASE u = t
    <3>1. "error" \in ReplyKinds
      BY DEF ReplyKinds
    <3> QED BY <2>1, <2>2, <2>3, <2>5, <2>6, <3>1, VerdictEnds
  <2>7. CASE u # t
    <3>1. StopMarked(u)' <=> StopMarked(u)
      BY <2>1, MarksStay
    <3> QED BY <1>0, <2>1, <2>5, <2>7, <3>1, MoveEffect, Unaffected DEF Verdict
  <2> QED BY <2>6, <2>7
<1>4. ASSUME NEW t \in Turns, Join(t) \/ AcquireLock(t) \/ BeginPrompt(t)
      PROVE  Verdict(u)'
  <2>1. PICK phase \in {"queued", "preparing", "prompting"} :
          /\ Move(t, phase)
          /\ phase = "prompting" => turn[t].kind = "message"
    BY <1>4 DEF Join, AcquireLock, BeginPrompt
  <2>2. /\ turn[t].phase \in Holding /\ turn[t].phase # "prompting"
        /\ UNCHANGED <<current, disk, sent>> /\ phase \in Holding
    BY <1>4, <2>1 DEF Join, AcquireLock, BeginPrompt, Holding
  <2>3. StopMarked(u)' <=> StopMarked(u)
    BY <2>2, MarksStay
  <2>4. CASE u = t
    BY <1>0, <2>1, <2>2, <2>3, <2>4, MovesOpen DEF Open, Verdict
  <2>5. CASE u # t
    BY <1>0, <2>1, <2>2, <2>3, <2>5, MoveEffect, Unaffected DEF Verdict
  <2> QED BY <2>4, <2>5
<1>5. ASSUME NEW t \in Turns, RecordUserTurn(t) \/ RecordCommand(t)
      PROVE  Verdict(u)'
  <2>1. /\ Move(t, "recorded") /\ turn[t].phase = "queued" /\ sent' = sent
        /\ turn[t].conv \in Convs
    BY <1>5 DEF RecordUserTurn, RecordCommand, Core, Structure
  <2>2. disk'.replies = disk.replies
    BY <1>0, <1>5, AskEffect
       DEF RecordUserTurn, RecordCommand, RecordOnDisk, Ask, DiskType
  <2>3. \A c \in Convs : current'[c].stopped = current[c].stopped
    BY <1>5, <2>1 DEF RecordUserTurn, RecordCommand, Core, CurrentType
  <2>4. StopMarked(u)' <=> StopMarked(u)
    BY <2>3 DEF StopMarked
  <2>5. CASE u = t
    BY <1>0, <2>1, <2>2, <2>4, <2>5, MovesOpen DEF Open, Holding, Verdict
  <2>6. CASE u # t
    BY <1>0, <2>1, <2>2, <2>4, <2>6, MoveEffect, Unaffected DEF Verdict
  <2> QED BY <2>5, <2>6
<1>6. ASSUME NEW t \in Turns, Stream(t) \/ Redeliver(t) PROVE Verdict(u)'
  <2>1. UNCHANGED <<turn, current, sent>> /\ disk'.replies = disk.replies
    BY <1>0, <1>6 DEF Stream, Redeliver, DiskType
  <2>2. StopMarked(u)' <=> StopMarked(u)
    BY <2>1, MarksStay
  <2> QED BY <1>0, <2>1, <2>2, Unaffected DEF Verdict
<1>7. ASSUME NEW t \in Turns, ProviderError(t) PROVE Verdict(u)'
  <2>1. turn[t] \in TurnType
    BY DEF Core
  <2>2. /\ turn[t].phase = "prompting" /\ turn'[t].phase = "prompting"
        /\ turn'[t].kind = turn[t].kind
        /\ turn'[t].stalled = turn[t].stalled /\ turn'[t].failed = TRUE
        /\ \A v \in Turns \ {t} : turn'[v] = turn[v]
        /\ UNCHANGED <<current, disk>>
    BY <1>7, <2>1 DEF ProviderError, Core, TurnType
  <2>3. /\ sent'[t] = sent[t] \cup {"provider_error"}
        /\ \A v \in Turns \ {t} : sent'[v] = sent[v]
    BY <1>7, TerminateEffect DEF ProviderError
  <2>4. StopMarked(u)' <=> StopMarked(u)
    BY <2>2, MarksStay
  <2>5. CASE u = t
    BY <1>0, <2>2, <2>3, <2>4, <2>5 DEF Verdict, Untold, Told, Open, Holding
  <2>6. CASE u # t
    BY <1>0, <2>2, <2>3, <2>4, <2>6, Unaffected DEF Verdict
  <2> QED BY <2>5, <2>6
<1>8. ASSUME NEW t \in Turns, Stall(t) PROVE Verdict(u)'
  <2>1. turn[t] \in TurnType
    BY DEF Core
  <2>2. /\ turn[t].phase = "prompting" /\ turn'[t].phase = "prompting"
        /\ turn'[t].kind = turn[t].kind /\ turn'[t].failed = turn[t].failed
        /\ \A v \in Turns \ {t} : turn'[v] = turn[v]
        /\ UNCHANGED <<current, disk, sent>>
    BY <1>8, <2>1 DEF Stall, Stalled, Core, TurnType
  <2>3. StopMarked(u)' <=> StopMarked(u)
    BY <2>2, MarksStay
  <2>4. CASE u = t
    BY <1>0, <2>2, <2>3, <2>4 DEF Verdict, Untold, Told, Open, Holding
  <2>5. CASE u # t
    BY <1>0, <2>2, <2>3, <2>5, Unaffected DEF Verdict
  <2> QED BY <2>4, <2>5
<1>9. ASSUME NEW t \in Turns, Settle(t) \/ Throw(t) PROVE Verdict(u)'
  BY <1>9, VerdictSettles
<1>10. ASSUME NEW t \in Turns, FinishCommand(t) \/ FailCommand(t)
       PROVE  Verdict(u)'
  <2>1. /\ Move(t, "ended") /\ Open(t) /\ turn[t].phase = "preparing"
        /\ IsCommand(t) /\ current' = current
    BY <1>10 DEF FinishCommand, FailCommand, Open, Holding
  <2>2. Untold(t) /\ ~ StopMarked(t)
    BY <2>1, MarkedIsBegun DEF Verdict, IsCommand
  <2>3. sent[t] = {} /\ ~ turn[t].stalled
    BY <2>1, <2>2 DEF Untold
  <2>4. /\ sent'[t] \in {{"done"}, {"error"}}
        /\ \A v \in Turns \ {t} : sent'[v] = sent[v]
    BY <1>10, <2>3, TerminateEffect DEF FinishCommand, FailCommand
  <2>5. /\ \/ disk'.replies[t] = disk.replies[t]
           \/ disk'.replies[t] = Append(disk.replies[t], "boundary")
        /\ \A v \in Turns \ {t} : disk'.replies[v] = disk.replies[v]
    BY <1>0, <1>10, ReplyEffect DEF FinishCommand, FailCommand
  <2>6. CASE u = t
    <3>1. "boundary" \in ReplyKinds
      BY DEF ReplyKinds
    <3> QED BY <2>1, <2>2, <2>3, <2>4, <2>5, <2>6, <3>1, VerdictEnds
  <2>7. CASE u # t
    <3>1. StopMarked(u)' <=> StopMarked(u)
      BY <2>1, MarksStay
    <3> QED BY <1>0, <2>1, <2>4, <2>5, <2>7, <3>1, MoveEffect, Unaffected
            DEF Verdict
  <2> QED BY <2>6, <2>7
<1>11. ASSUME NEW c \in Convs, CancelTurn(c) PROVE Verdict(u)'
  BY <1>0, <1>11, VerdictCancels
<1>12. ASSUME Crash \/ ExitDrained PROVE Verdict(u)'
  BY <1>0, <1>12, VerdictDies DEF Crash, ExitDrained
<1>13. ASSUME NEW t \in Turns, CrashAfterMessage(t) PROVE Verdict(u)'
  <2>1. Ask(disk, t) \in DiskType /\ Ask(disk, t).replies = disk.replies
    BY <1>0, AskType, AskEffect
  <2> QED BY <1>0, <1>13, <2>1, VerdictDies DEF CrashAfterMessage
<1>14. ASSUME NEW t \in Turns, CrashAfterReply(t) PROVE Verdict(u)'
  <2>1. PICK kind \in ReplyKinds : DieWith(Reply(disk, t, kind))
    BY <1>14, ReplyKindType DEF CrashAfterReply, ReplyKinds
  <2>2. /\ Reply(disk, t, kind) \in DiskType
        /\ u # t => Reply(disk, t, kind).replies[u] = disk.replies[u]
    BY <1>0, ReplyType, ReplyEffect
  <2>3. turn[t].phase \in Holding
    BY <1>14 DEF CrashAfterReply, Executing, Holding
  <2> QED BY <1>0, <2>1, <2>2, <2>3, VerdictDies
<1>15. ASSUME NEW c \in Convs,
              SettleInterrupted(c) \/ RestartBeforeMarkerIsGone(c)
       PROVE  Verdict(u)'
  BY <1>0, <1>15, VerdictBoots
<1>16. CASE BeginDrain \/ Listen \/ UNCHANGED vars
  <2>1. UNCHANGED <<turn, current, sent, disk>>
    BY <1>16 DEF BeginDrain, Listen, vars
  <2>2. StopMarked(u)' <=> StopMarked(u)
    BY <2>1, MarksStay
  <2> QED BY <1>0, <2>1, <2>2, Unaffected DEF Verdict
<1> QED
  BY <1>1, <1>2, <1>3, <1>4, <1>5, <1>6, <1>7, <1>8, <1>9, <1>10, <1>11, <1>12,
     <1>13, <1>14, <1>15, <1>16 DEF Next

\* The process starts with nothing to tell.
LEMMA VerdictsInit == Init => Verdicts
<1> SUFFICES ASSUME Init PROVE Verdicts
  OBVIOUS
<1>1. \A t \in Turns : ~ StopMarked(t)
  BY NullAssumption DEF Init, Idle, StopMarked
<1>2. \A t \in Turns : Verdict(t)
  BY <1>1 DEF Init, Fresh, Verdict, Untold, Told
<1>3. Markers /\ Quiet
  BY NullAssumption DEF Init, Markers, Quiet
<1> QED BY <1>2, <1>3 DEF Verdicts

\* The strengthening is an invariant.
LEMMA VerdictsAlways == Spec => []Verdicts
<1>1. Core /\ Rest /\ Verdicts /\ [Next]_vars => Verdicts'
  <2> SUFFICES ASSUME Core, Rest, Verdicts, [Next]_vars PROVE Verdicts'
    OBVIOUS
  <2>1. \A u \in Turns : Verdict(u)'
    BY VerdictStep DEF Verdicts
  <2>2. Markers' /\ Quiet'
    BY MarkersStep, QuietStep DEF Verdicts
  <2> QED BY <2>1, <2>2 DEF Verdicts
<1> QED BY <1>1, VerdictsInit, Invariant, PTL DEF Spec

\* exec-turn.ts:736-741: every ended turn has told its reader so under its own
\* id, and `done` never stands on top of a Stop, an error or a stall.
THEOREM OneVerdictAlways == Spec => []EndsWithOneVerdict
<1>1. Verdicts => EndsWithOneVerdict
  BY DEF Verdicts, Verdict, Told, EndsWithOneVerdict
<1> QED BY <1>1, VerdictsAlways, PTL

\* exec-turn.ts:609-616: the stamp on disk agrees with the Stop the user saw,
\* whenever it was pressed and whatever died meanwhile.
THEOREM StopStaysDurable == Spec => []StopIsDurable
<1>1. Verdicts => StopIsDurable
  BY DEF Verdicts, Verdict, Told, StopIsDurable
<1> QED BY <1>1, VerdictsAlways, PTL

-----------------------------------------------------------------------------
(* One `interrupted` reply at most.                                        *)

\* The sequence of replies holds one "interrupted" at most.
Once(s) ==
  \A i, j \in 1 .. Len(s) :
    s[i] = "interrupted" /\ s[j] = "interrupted" => i = j

AnsweredOnce == \A t \in Turns : Once(disk.replies[t])

\* Another kind of reply, or the first of this one, keeps it so.
LEMMA OnceAppends ==
  ASSUME NEW s \in Seq(ReplyKinds), Once(s), NEW kind \in ReplyKinds,
         \/ kind # "interrupted"
         \/ \A i \in 1 .. Len(s) : s[i] # "interrupted"
  PROVE  Once(Append(s, kind))
<1>1. /\ Len(Append(s, kind)) = Len(s) + 1 /\ Len(s) \in Nat
      /\ \A i \in 1 .. Len(s) : Append(s, kind)[i] = s[i]
      /\ Append(s, kind)[Len(s) + 1] = kind
  OBVIOUS
<1>2. \A i \in 1 .. Len(s) + 1 : i \in 1 .. Len(s) \/ i = Len(s) + 1
  BY <1>1
<1> QED BY <1>1, <1>2 DEF Once

\* So does such a reply on disk.
LEMMA AnsweredOnceReplies ==
  ASSUME AnsweredOnce, NEW d \in DiskType, d.replies = disk.replies,
         NEW t \in Turns, NEW kind \in ReplyKinds,
         kind # "interrupted" \/ ~ AlreadySettled(t),
         disk'.replies = Reply(d, t, kind).replies
  PROVE  AnsweredOnce'
<1>1. /\ disk'.replies[t] = Append(disk.replies[t], kind)
      /\ \A u \in Turns \ {t} : disk'.replies[u] = disk.replies[u]
  BY ReplyEffect
<1>2. disk.replies[t] \in Seq(ReplyKinds)
  BY DEF DiskType
<1>3. Once(disk'.replies[t])
  BY <1>1, <1>2, OnceAppends DEF AnsweredOnce, AlreadySettled
<1> QED BY <1>1, <1>3 DEF AnsweredOnce

\* What the end of a turn stamps is no interruption.
LEMMA ReplyKindIsNoInterruption ==
  ASSUME NEW t \in Turns
  PROVE  ReplyKind(t) # "interrupted"
BY DEF ReplyKind

\* Every step keeps it so.
LEMMA AnsweredOnceStep == Rest /\ AnsweredOnce /\ [Next]_vars => AnsweredOnce'
<1> SUFFICES ASSUME Rest, AnsweredOnce, [Next]_vars PROVE AnsweredOnce'
  OBVIOUS
<1>0. disk \in DiskType
  BY DEF Rest
<1>1. ASSUME disk'.replies = disk.replies PROVE AnsweredOnce'
  BY <1>1 DEF AnsweredOnce
<1>2. ASSUME NEW t \in Turns, RefuseRecorded(t) PROVE AnsweredOnce'
  <2>1. Ask(disk, t) \in DiskType /\ Ask(disk, t).replies = disk.replies
    BY <1>0, AskType, AskEffect
  <2>2. disk' = Reply(Ask(disk, t), t, "error") /\ "error" \in ReplyKinds
    BY <1>2 DEF RefuseRecorded, ReplyKinds
  <2> QED BY <2>1, <2>2, AnsweredOnceReplies
<1>3. ASSUME NEW t \in Turns, RecordUserTurn(t) \/ RecordCommand(t)
      PROVE  disk'.replies = disk.replies
  BY <1>0, <1>3, AskEffect
     DEF RecordUserTurn, RecordCommand, RecordOnDisk, Ask, DiskType
<1>4. ASSUME NEW t \in Turns, Settle(t) \/ Throw(t) PROVE AnsweredOnce'
  <2>1. PICK kind \in ReplyKinds : /\ kind # "interrupted"
                                   /\ Leave(t, Reply(disk, t, kind))
    BY <1>4, ReplyKindType, ReplyKindIsNoInterruption
       DEF Settle, Throw, ReplyKinds
  <2>2. Reply(disk, t, kind) \in DiskType
    BY <1>0, ReplyType
  <2>3. disk'.replies = Reply(disk, t, kind).replies
    BY <2>1, <2>2 DEF Leave, DiskType
  <2> QED BY <1>0, <2>1, <2>3, AnsweredOnceReplies
<1>5. ASSUME NEW t \in Turns, FinishCommand(t) PROVE AnsweredOnce'
  <2>1. disk' = Reply(disk, t, "boundary") /\ "boundary" \in ReplyKinds
    BY <1>5 DEF FinishCommand, ReplyKinds
  <2> QED BY <1>0, <2>1, AnsweredOnceReplies
<1>6. ASSUME NEW t \in Turns, CrashAfterMessage(t)
      PROVE  disk'.replies = disk.replies
  BY <1>0, <1>6, AskEffect DEF CrashAfterMessage, DieWith
<1>7. ASSUME NEW t \in Turns, CrashAfterReply(t) PROVE AnsweredOnce'
  <2>1. PICK kind \in ReplyKinds : /\ kind # "interrupted"
                                   /\ DieWith(Reply(disk, t, kind))
    BY <1>7, ReplyKindType, ReplyKindIsNoInterruption
       DEF CrashAfterReply, ReplyKinds
  <2>2. disk' = Reply(disk, t, kind)
    BY <2>1 DEF DieWith
  <2> QED BY <1>0, <2>1, <2>2, AnsweredOnceReplies
<1>8. ASSUME NEW c \in Convs,
             SettleInterrupted(c) \/ RestartBeforeMarkerIsGone(c)
      PROVE  AnsweredOnce'
  <2> DEFINE t == disk.marker[c]
  <2>1. t \in Turns /\ "interrupted" \in ReplyKinds
    BY <1>0, <1>8
       DEF SettleInterrupted, RestartBeforeMarkerIsGone, DiskType, ReplyKinds
  <2>2. Reply(disk, t, "interrupted") \in DiskType
    BY <1>0, <2>1, ReplyType
  <2>3. \/ disk'.replies = disk.replies
        \/ /\ ~ AlreadySettled(t)
           /\ disk'.replies = Reply(disk, t, "interrupted").replies
    BY <1>0, <1>8, <2>2
       DEF SettleInterrupted, RestartBeforeMarkerIsGone, DiskType
  <2> HIDE DEF t
  <2> QED BY <1>0, <1>1, <2>1, <2>3, AnsweredOnceReplies
<1>9. ASSUME NEW t \in Turns, Redeliver(t) PROVE disk'.replies = disk.replies
  BY <1>0, <1>9 DEF Redeliver, DiskType
<1>10. ASSUME Crash \/ ExitDrained PROVE disk' = disk
  BY <1>10 DEF Crash, ExitDrained, DieWith
<1>11. \/ disk' = disk \/ Crash \/ ExitDrained
       \/ \E t \in Turns :
            \/ RefuseRecorded(t) \/ RecordUserTurn(t) \/ RecordCommand(t)
            \/ Settle(t) \/ Throw(t) \/ FinishCommand(t)
            \/ CrashAfterMessage(t) \/ CrashAfterReply(t) \/ Redeliver(t)
       \/ \E c \in Convs : SettleInterrupted(c) \/ RestartBeforeMarkerIsGone(c)
  BY DEF Next, vars, AcceptMessage, AcceptCommand, RefuseUnrecorded, Join,
         AcquireLock, BeginPrompt, Stream, ProviderError, Stall, FailCommand,
         CancelTurn, BeginDrain, Listen
<1> QED BY <1>1, <1>2, <1>3, <1>4, <1>5, <1>6, <1>7, <1>8, <1>9, <1>10, <1>11

\* settle-interrupted-turns.ts:85-90: whatever dies, however often a boot is
\* cut short and whichever marker comes back, a turn gets one `interrupted`
\* reply at most.
THEOREM InterruptedOnceAlways == Spec => []InterruptedOnce
<1>1. Init => AnsweredOnce
  <2>1. \A s : s = <<>> => Once(s)
    BY DEF Once
  <2> QED BY <2>1 DEF Init, AnsweredOnce
<1>2. Spec => []AnsweredOnce
  BY <1>1, AnsweredOnceStep, Invariant, PTL DEF Spec
<1>3. AnsweredOnce => InterruptedOnce
  <2> SUFFICES ASSUME AnsweredOnce, NEW t \in Turns
               PROVE  Cardinality({i \in 1 .. Len(disk.replies[t]) :
                        disk.replies[t][i] = "interrupted"}) <= 1
    BY DEF InterruptedOnce
  <2> DEFINE hits == {i \in 1 .. Len(disk.replies[t]) :
                        disk.replies[t][i] = "interrupted"}
  <2>1. \A i, j \in hits : i = j
    BY DEF AnsweredOnce, Once
  <2> HIDE DEF hits
  <2>2. hits = {} \/ \E i \in hits : hits = {i}
    BY <2>1
  <2>3. Cardinality(hits) \in {0, 1}
    BY <2>2, FS_EmptySet, FS_Singleton
  <2> QED BY <2>3 DEF hits
<1> QED BY <1>2, <1>3, PTL
=============================================================================
