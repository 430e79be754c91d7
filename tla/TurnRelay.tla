------------------------------- MODULE TurnRelay ------------------------------
(***************************************************************************)
(* The control plane's relay of one agent, packages/host/src/turn/relay.ts *)
(* and relay-channel.ts: at most one turn of the agent is pumped, on any   *)
(* replica, under a lease on the shared bus; frames are sequenced by the   *)
(* replica that pumps, persisted as a snapshot and broadcast; a cancel is  *)
(* a bus message; and a connecting client has the turn of a dead replica   *)
(* terminated.                                                             *)
(*                                                                         *)
(* An action is what a replica does between two awaits, and carries out at *)
(* its end the bus operation it goes on to await: its result may be stale  *)
(* when it is used.  `cast` records the seqs broadcast, `minted` counts    *)
(* the turns started (and gives them their ids), `settled` are those whose *)
(* own pump got a terminal frame out.                                      *)
(***************************************************************************)
EXTENDS Snapshot, FiniteSets

CONSTANTS
  Replicas,
  Convs,        \* conversation keys of the agent
  MaxTurns,     \* bound: turns started
  MaxCrashes    \* bound: replicas that die

ASSUME RelayAssumption ==
  Null \notin Convs \cup FrameTypes /\ MaxTurns \in Nat /\ MaxCrashes \in Nat

VARIABLES
  lease,    \* turn:inflight:<agent> on the bus: a conversation key or Null
  snap,     \* per conversation: the snapshot persisted on the bus
  pump,     \* per replica: the start() under way
  reap,     \* per replica: the reapIfDead() under way
  local,    \* per replica and conversation: the channel's snapshot, or Null
  cancel,   \* scoped cancels that have passed their check
  cast, minted, settled,
  crashes

vars == <<lease, snap, pump, reap, local, cancel, cast, minted, settled,
          crashes>>

NoFrame == [seq |-> 0, type |-> Null, turn |-> Null, data |-> Null]

\* `todo` is the half of a fanOut that the bus has not carried out yet.
NoPump ==
  [phase |-> "idle", key |-> Null, turn |-> Null, state |-> EmptySnapshot,
   frame |-> NoFrame, todo |-> {}, abortedBy |-> Null]
NoReap ==
  [phase |-> "idle", key |-> Null, turn |-> Null, lease |-> Null,
   state |-> EmptySnapshot, frame |-> NoFrame, todo |-> {}]

Pumping == {"claimed", "opening", "open", "failing", "ending", "dying"}
Active  == Pumping \cup {"closing"}          \* from the claim to its release
InflightLocal(r) == pump[r].phase \in Pumping \ {"claimed"}

Init ==
  /\ lease = Null
  /\ snap = [c \in Convs |-> EmptySnapshot]
  /\ pump = [r \in Replicas |-> NoPump]
  /\ reap = [r \in Replicas |-> NoReap]
  /\ local = [r \in Replicas |-> [c \in Convs |-> Null]]
  /\ cancel = {}
  /\ cast = [c \in Convs |-> <<>>]
  /\ minted = 0
  /\ settled = {}
  /\ crashes = 0

-----------------------------------------------------------------------------
(* RelayChannels.                                                          *)

FrameAfter(state, type, t) ==
  [seq |-> state.seq + 1, type |-> type, turn |-> t, data |-> t]

\* open and publish start from the persisted seq, with nothing running.
Seeded(prior) == [EmptySnapshot EXCEPT !.seq = prior.seq]

\* The channel a pump publishes to: its own, or one seeded on the spot when
\* this replica has none any more.
ChannelOf(r) ==
  LET c == pump[r].key IN
  IF local[r][c] = Null THEN Seeded(snap[c]) ELSE local[r][c]

\* publish: sequence and reduce; the two bus operations are under way.
Sequence(r, type, t, phase) ==
  LET c     == pump[r].key
      frame == FrameAfter(ChannelOf(r), type, t)
  IN  /\ local' = [local EXCEPT ![r][c] = ReduceSnapshot(ChannelOf(r), frame)]
      /\ pump' = [pump EXCEPT ![r].phase = phase, ![r].frame = frame,
                              ![r].state = ReduceSnapshot(ChannelOf(r), frame),
                              ![r].todo = {"set", "publish"}]
      /\ UNCHANGED <<lease, snap, reap, cancel, cast, minted, settled, crashes>>

\* fanOut: the snapshot is persisted and the frame broadcast, in either order.
Persist(key, state) == snap' = [snap EXCEPT ![key] = state]
Broadcast(key, frame) == cast' = [cast EXCEPT ![key] = Append(@, frame.seq)]

FanOutPump(r, op) ==
  LET p == pump[r] IN
  /\ op \in p.todo
  /\ pump' = [pump EXCEPT ![r].todo = @ \ {op},
                          ![r].state = IF p.todo = {op} THEN EmptySnapshot ELSE @]
  /\ IF op = "set" THEN Persist(p.key, p.state) /\ UNCHANGED cast
                   ELSE Broadcast(p.key, p.frame) /\ UNCHANGED snap
  /\ settled' = IF p.todo = {op} /\ IsTerminal(p.frame)
                  THEN settled \cup {p.turn} ELSE settled
  /\ UNCHANGED <<lease, reap, local, cancel, minted, crashes>>

-----------------------------------------------------------------------------
(* start.                                                                  *)

\* Mutant of Claimable: the slot is taken with a plain set.
ClaimableAnyway(r) == ~ InflightLocal(r)

\* No pump on this replica, and setNx finds no lease.
Claimable(r) == ~ InflightLocal(r) /\ lease = Null

Claim(r, c) ==
  /\ pump[r].phase = "idle"
  /\ minted < MaxTurns
  /\ Claimable(r)
  /\ minted' = minted + 1
  /\ lease' = c
  /\ pump' = [pump EXCEPT ![r] = [NoPump EXCEPT !.phase = "claimed",
                                                !.key = c, !.turn = minted + 1]]
  /\ UNCHANGED <<snap, reap, local, cancel, cast, settled, crashes>>

\* The claim is known: note it, hear cancels from now on, read the snapshot.
Open(r) ==
  /\ pump[r].phase = "claimed"
  /\ pump' = [pump EXCEPT ![r].phase = "opening",
                          ![r].state = snap[pump[r].key]]
  /\ UNCHANGED <<lease, snap, reap, local, cancel, cast, minted, settled,
                 crashes>>

Opened(r) ==
  /\ pump[r].phase = "opening"
  /\ local' = [local EXCEPT ![r][pump[r].key] = Seeded(pump[r].state)]
  /\ pump' = [pump EXCEPT ![r].phase = "open"]
  /\ UNCHANGED <<lease, snap, reap, cancel, cast, minted, settled, crashes>>

Ready(r, phase) == pump[r].phase = phase /\ pump[r].todo = {}

\* The upstream turn publishes `user` first and, if it gets that far, `done`.
PumpFrame(r) ==
  /\ Ready(r, "open")
  /\ \/ pump[r].frame.type = Null /\ Sequence(r, "user", pump[r].turn, "open")
     \/ pump[r].frame.type = "user" /\ Sequence(r, "done", pump[r].turn, "open")

RunningTurn(r) ==
  LET state == local[r][pump[r].key] IN IF state = Null THEN Null ELSE state.turn

\* run throws - aborted, or upstream failed: the error goes out.
RunThrows(r) ==
  /\ Ready(r, "open")
  /\ Sequence(r, "error", RunningTurn(r), "failing")

RunReturns(r) ==
  /\ Ready(r, "open") \/ Ready(r, "failing")
  /\ pump' = [pump EXCEPT ![r].phase = "ending"]
  /\ UNCHANGED <<lease, snap, reap, local, cancel, cast, minted, settled,
                 crashes>>

StillRunning(r) ==
  local[r][pump[r].key] # Null /\ local[r][pump[r].key].running

\* The pump is over and its turn still runs: synthesize TURN_DIED.
SynthesizeEnd(r) ==
  /\ Ready(r, "ending")
  /\ StillRunning(r)
  /\ Sequence(r, "error", RunningTurn(r), "dying")

\* Drop the channel and the local claim, hear no more cancels; the lease is
\* deleted on the bus next.
Close(r) ==
  /\ \/ Ready(r, "ending") /\ ~ StillRunning(r)
     \/ Ready(r, "dying")
  /\ local' = [local EXCEPT ![r][pump[r].key] = Null]
  /\ pump' = [pump EXCEPT ![r].phase = "closing"]
  /\ UNCHANGED <<lease, snap, reap, cancel, cast, minted, settled, crashes>>

Release(r) ==
  /\ pump[r].phase = "closing"
  /\ lease' = Null
  /\ pump' = [pump EXCEPT ![r] = NoPump]
  /\ UNCHANGED <<snap, reap, local, cancel, cast, minted, settled, crashes>>

-----------------------------------------------------------------------------
(* Death and expiry.                                                       *)

Crash(r) ==
  /\ crashes < MaxCrashes
  /\ crashes' = crashes + 1
  /\ pump' = [pump EXCEPT ![r] = NoPump]
  /\ reap' = [reap EXCEPT ![r] = NoReap]
  /\ local' = [local EXCEPT ![r] = [c \in Convs |-> Null]]
  /\ UNCHANGED <<lease, snap, cancel, cast, minted, settled>>

\* Mutant of Lapsed: a lease without a TTL.
NeverLapsed == FALSE

\* No heartbeat for LEASE_SEC.  A replica that pumps is taken to send them.
Lapsed == \A r \in Replicas : pump[r].phase \notin Active

LeaseExpires ==
  /\ lease # Null
  /\ Lapsed
  /\ lease' = Null
  /\ UNCHANGED <<snap, pump, reap, local, cancel, cast, minted, settled,
                 crashes>>

-----------------------------------------------------------------------------
(* reapIfDead, when a client connects.                                     *)

ReapStart(r, c) ==
  /\ reap[r].phase = "idle"
  /\ ~ InflightLocal(r)
  /\ LET state == IF local[r][c] # Null THEN local[r][c] ELSE snap[c] IN
     /\ state.running
     /\ reap' = [reap EXCEPT ![r] = [NoReap EXCEPT !.phase = "running", !.key = c,
                                                   !.turn = state.turn]]
  /\ UNCHANGED <<lease, snap, pump, local, cancel, cast, minted, settled,
                 crashes>>

ReadLease(r) ==
  /\ reap[r].phase = "running"
  /\ reap' = [reap EXCEPT ![r].phase = "leased", ![r].lease = lease]
  /\ UNCHANGED <<lease, snap, pump, local, cancel, cast, minted, settled,
                 crashes>>

GiveUpReap(r) ==
  /\ reap' = [reap EXCEPT ![r] = NoReap]
  /\ UNCHANGED <<lease, snap, pump, local, cancel, cast, minted, settled,
                 crashes>>

\* heal: no pump of our own, so read the snapshot once more.
HealRead(r) ==
  /\ reap[r].phase = "leased"
  /\ reap[r].lease = Null
  /\ local[r][reap[r].key] = Null
  /\ reap' = [reap EXCEPT ![r].phase = "reread", ![r].state = snap[reap[r].key]]
  /\ UNCHANGED <<lease, snap, pump, local, cancel, cast, minted, settled,
                 crashes>>

\* Mutant of StillDead: any running turn will do.
StillRunningAnything(r) == local[r][reap[r].key] = Null

\* The snapshot read again is running, and under the turn seen at first.
StillDead(r) ==
  /\ local[r][reap[r].key] = Null
  /\ reap[r].state.running
  /\ reap[r].state.turn = reap[r].turn

Alive(r) == reap[r].phase = "leased" /\
              (reap[r].lease # Null \/ local[r][reap[r].key] # Null)
Recovered(r) == reap[r].phase = "reread" /\ ~ StillDead(r)

ReapNothing(r) == (Alive(r) \/ Recovered(r)) /\ GiveUpReap(r)

\* Terminate the dead turn under its own id.
Heal(r) ==
  /\ reap[r].phase = "reread"
  /\ StillDead(r)
  /\ LET frame == FrameAfter(reap[r].state, "error", reap[r].state.turn)
         state == ReduceSnapshot(reap[r].state, frame)
     IN  /\ local' = [local EXCEPT ![r][reap[r].key] = state]
         /\ reap' = [reap EXCEPT ![r].phase = "healing", ![r].frame = frame,
                                 ![r].state = state,
                                 ![r].todo = {"set", "publish"}]
  /\ UNCHANGED <<lease, snap, pump, cancel, cast, minted, settled, crashes>>

FanOutHeal(r, op) ==
  LET p == reap[r] IN
  /\ op \in p.todo
  /\ reap' = [reap EXCEPT ![r].todo = @ \ {op}]
  /\ IF op = "set" THEN Persist(p.key, p.state) /\ UNCHANGED cast
                   ELSE Broadcast(p.key, p.frame) /\ UNCHANGED snap
  /\ UNCHANGED <<lease, pump, local, cancel, minted, settled, crashes>>

\* The channel existed for the heal only.
HealDone(r) ==
  /\ reap[r].phase = "healing"
  /\ reap[r].todo = {}
  /\ local' = [local EXCEPT ![r][reap[r].key] = Null]
  /\ reap' = [reap EXCEPT ![r] = NoReap]
  /\ UNCHANGED <<lease, snap, pump, cancel, cast, minted, settled, crashes>>

-----------------------------------------------------------------------------
(* cancel, scoped to a conversation.                                       *)

InflightKey(r) == IF InflightLocal(r) THEN pump[r].key ELSE lease

RequestCancel(r, c) ==
  /\ c \notin cancel
  /\ InflightKey(r) = c
  /\ cancel' = cancel \cup {c}
  /\ UNCHANGED <<lease, snap, pump, reap, local, cast, minted, settled,
                 crashes>>

\* The message carries no key: whoever is subscribed for the agent aborts.
DeliverCancel(c) ==
  /\ c \in cancel
  /\ cancel' = cancel \ {c}
  /\ pump' = [r \in Replicas |->
                IF InflightLocal(r) THEN [pump[r] EXCEPT !.abortedBy = c]
                ELSE pump[r]]
  /\ UNCHANGED <<lease, snap, reap, local, cast, minted, settled, crashes>>

-----------------------------------------------------------------------------
\* What the promise chain of a start(), or of a reapIfDead(), does next.
PumpStep(r) ==
  \/ Open(r)
  \/ Opened(r)
  \/ PumpFrame(r)
  \/ RunThrows(r)
  \/ RunReturns(r)
  \/ SynthesizeEnd(r)
  \/ Close(r)
  \/ Release(r)
  \/ \E op \in {"set", "publish"} : FanOutPump(r, op)

ReapStep(r) ==
  \/ ReadLease(r)
  \/ HealRead(r)
  \/ ReapNothing(r)
  \/ Heal(r)
  \/ HealDone(r)
  \/ \E op \in {"set", "publish"} : FanOutHeal(r, op)

Next ==
  \/ \E r \in Replicas, c \in Convs : Claim(r, c)
  \/ \E r \in Replicas : PumpStep(r)
  \/ \E r \in Replicas, c \in Convs : ReapStart(r, c)
  \/ \E r \in Replicas : ReapStep(r)
  \/ \E r \in Replicas, c \in Convs : RequestCancel(r, c)
  \/ \E c \in Convs : DeliverCancel(c)
  \/ \E r \in Replicas : Crash(r)
  \/ LeaseExpires

Spec == Init /\ [][Next]_vars

\* What is awaited comes back, an upstream turn ends, an abandoned lease
\* expires, and a client that is left spinning connects again.
Fairness ==
  /\ \A r \in Replicas :
       /\ WF_vars(PumpStep(r))
       /\ WF_vars(ReapStep(r))
       /\ \A c \in Convs : WF_vars(ReapStart(r, c))
  /\ WF_vars(LeaseExpires)

FairSpec == Spec /\ Fairness

-----------------------------------------------------------------------------
(* Properties.                                                             *)

Ids == 1 .. MaxTurns
FrameType ==
  [seq : Nat, type : FrameTypes \cup {Null}, turn : Ids \cup {Null},
   data : Ids \cup {Null}]
SnapshotType ==
  [running : BOOLEAN, partial : Seq(Ids \cup {Null}), seq : Nat,
   turn : Ids \cup {Null}]
Ops == SUBSET {"set", "publish"}
PumpType ==
  [phase : Active \cup {"idle"}, key : Convs \cup {Null},
   turn : Ids \cup {Null}, state : SnapshotType, frame : FrameType,
   todo : Ops, abortedBy : Convs \cup {Null}]
ReapType ==
  [phase : {"idle", "running", "leased", "reread", "healing"},
   key : Convs \cup {Null}, turn : Ids \cup {Null},
   lease : Convs \cup {Null}, state : SnapshotType, frame : FrameType,
   todo : Ops]

\* Every variable holds what its code counterpart can hold; a start or a reap
\* has a conversation, and nothing left to send, exactly as it is under way.
TypeOK ==
  /\ lease \in Convs \cup {Null}
  /\ snap \in [Convs -> SnapshotType]
  /\ pump \in [Replicas -> PumpType]
  /\ reap \in [Replicas -> ReapType]
  /\ local \in [Replicas -> [Convs -> SnapshotType \cup {Null}]]
  /\ cancel \subseteq Convs
  /\ cast \in [Convs -> Seq(Nat)]
  /\ minted \in 0 .. MaxTurns
  /\ settled \subseteq Ids
  /\ crashes \in 0 .. MaxCrashes
  /\ \A r \in Replicas :
       /\ IF pump[r].phase = "idle" THEN pump[r] = NoPump
                                    ELSE pump[r].key \in Convs /\ pump[r].turn \in Ids
       /\ IF reap[r].phase = "idle" THEN reap[r] = NoReap
                                    ELSE reap[r].key \in Convs

\* relay.ts:15-16, "concurrent turns would race the workspace": one turn of the
\* agent at a time, over all replicas, from the claim to the release.
OneTurnPerAgent ==
  \A r, q \in Replicas :
    pump[r].phase \in Active /\ pump[q].phase \in Active => r = q

\* relay.ts:144-156: whatever raced it, a heal terminates a turn that no live
\* pump owns and that its own pump has not terminated.
OnlyDeadTurnsAreHealed ==
  \A r \in Replicas :
    reap[r].phase = "healing" =>
      /\ reap[r].turn \notin settled
      /\ \A q \in Replicas :
           pump[q].phase \in Active => pump[q].turn # reap[r].turn

\* relay.ts:55-59: a pump that published anything does not let go of the agent
\* before a terminal frame is out, however upstream ended.
PumpTerminatesItsTurn ==
  \A r \in Replicas :
    pump[r].phase = "closing" /\ pump[r].frame.type # Null =>
      pump[r].turn \in settled

\* relay.ts:57-59, "a client must NEVER be left hanging on a turn that no longer
\* exists": a persisted snapshot that says running is corrected in the end.
NoTurnRunsForEver == \A c \in Convs : snap[c].running ~> ~ snap[c].running

\* relay-channel.ts:25-27, "strictly monotonic across turns".
SeqIsStrictlyMonotonic ==
  \A c \in Convs : \A i, j \in 1 .. Len(cast[c]) :
    i < j => cast[c][i] < cast[c][j]

\* relay.ts:171-176, "must never kill an unrelated live chat turn": a cancel
\* scoped to a conversation aborts no turn of another one.
ScopedCancelHitsItsConversation ==
  \A r \in Replicas : pump[r].abortedBy \in {Null, pump[r].key}
=============================================================================
