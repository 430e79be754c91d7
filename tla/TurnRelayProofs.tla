---------------------------- MODULE TurnRelayProofs ---------------------------
(***************************************************************************)
(* Proofs about TurnRelay, for any set of replicas and conversations and   *)
(* any number of turns and crashes: the types, that the lease admits one   *)
(* turn of the agent at a time, and that a heal terminates only a turn     *)
(* whose pump is dead.                                                     *)
(***************************************************************************)
EXTENDS TurnRelay, TLAPS

\* A frame made from a well-typed state is well typed.
LEMMA FrameAfterType ==
  ASSUME NEW state \in SnapshotType, NEW type \in FrameTypes,
         NEW t \in Ids \cup {Null}
  PROVE  FrameAfter(state, type, t) \in FrameType
BY DEF FrameAfter, FrameType, SnapshotType

\* The reducer of snapshot.ts maps well-typed states to well-typed states.
LEMMA ReduceType ==
  ASSUME NEW state \in SnapshotType, NEW frame \in FrameType,
         frame.type \in FrameTypes
  PROVE  ReduceSnapshot(state, frame) \in SnapshotType
<1>1. CASE frame.type = "user"
  BY <1>1 DEF ReduceSnapshot, SnapshotType, FrameType
<1>2. CASE frame.type = "text"
  <2>1. Append(state.partial, frame.data) \in Seq(Ids \cup {Null})
    BY DEF SnapshotType, FrameType
  <2> QED BY <1>2, <2>1 DEF ReduceSnapshot, SnapshotType, FrameType, TurnAfter
<1>3. CASE frame.type = "activity"
  BY <1>3 DEF ReduceSnapshot, SnapshotType, FrameType, TurnAfter
<1>4. CASE frame.type = "marker"
  BY <1>4 DEF ReduceSnapshot, SnapshotType, FrameType, TurnAfter
<1>5. CASE frame.type \in TerminalTypes
  BY <1>5 DEF ReduceSnapshot, SnapshotType, FrameType, IsTerminal, TerminalTypes
<1> QED BY <1>1, <1>2, <1>3, <1>4, <1>5 DEF FrameTypes

\* What is idle or empty is well typed.
LEMMA EmptyTypes ==
  /\ EmptySnapshot \in SnapshotType
  /\ NoFrame \in FrameType
  /\ NoPump \in PumpType
  /\ NoReap \in ReapType
<1>1. EmptySnapshot \in SnapshotType
  BY DEF EmptySnapshot, SnapshotType
<1>2. NoFrame \in FrameType
  BY DEF NoFrame, FrameType
<1> QED BY <1>1, <1>2 DEF NoPump, NoReap, PumpType, ReapType, Ops

\* The channel a pump publishes to is a well-typed snapshot.
LEMMA ChannelOfType ==
  ASSUME TypeOK, NEW r \in Replicas, pump[r].key \in Convs
  PROVE  ChannelOf(r) \in SnapshotType
<1>1. snap[pump[r].key] \in SnapshotType
      /\ local[r][pump[r].key] \in SnapshotType \cup {Null}
  BY DEF TypeOK
<1>2. Seeded(snap[pump[r].key]) \in SnapshotType
  BY <1>1, EmptyTypes DEF Seeded, EmptySnapshot, SnapshotType
<1> QED BY <1>1, <1>2 DEF ChannelOf

\* What TypeOK says of one pump and of one reap.
PumpOK(p) ==
  /\ p \in PumpType
  /\ IF p.phase = "idle" THEN p = NoPump ELSE p.key \in Convs /\ p.turn \in Ids
ReapOK(p) ==
  /\ p \in ReapType
  /\ IF p.phase = "idle" THEN p = NoReap ELSE p.key \in Convs

\* TypeOK, read for one replica.
LEMMA PumpsOK ==
  ASSUME TypeOK, NEW r \in Replicas
  PROVE  PumpOK(pump[r]) /\ ReapOK(reap[r])
BY DEF TypeOK, PumpOK, ReapOK

\* One pump changes and stays well typed.
LEMMA PumpChange ==
  ASSUME TypeOK, NEW r \in Replicas, NEW p, PumpOK(p),
         pump' = [pump EXCEPT ![r] = p],
         lease' \in Convs \cup {Null},
         snap' \in [Convs -> SnapshotType],
         local' \in [Replicas -> [Convs -> SnapshotType \cup {Null}]],
         cast' \in [Convs -> Seq(Nat)],
         minted' \in 0 .. MaxTurns,
         settled' \subseteq Ids,
         UNCHANGED <<reap, cancel, crashes>>
  PROVE  TypeOK'
<1>1. pump' \in [Replicas -> PumpType]
  BY DEF TypeOK, PumpOK
<1>2. \A q \in Replicas : PumpOK(pump'[q])
  BY PumpsOK DEF TypeOK
<1> QED BY <1>1, <1>2 DEF TypeOK, PumpOK

\* One reap changes and stays well typed.
LEMMA ReapChange ==
  ASSUME TypeOK, NEW r \in Replicas, NEW p, ReapOK(p),
         reap' = [reap EXCEPT ![r] = p],
         snap' \in [Convs -> SnapshotType],
         local' \in [Replicas -> [Convs -> SnapshotType \cup {Null}]],
         cast' \in [Convs -> Seq(Nat)],
         UNCHANGED <<lease, pump, cancel, minted, settled, crashes>>
  PROVE  TypeOK'
<1>1. reap' \in [Replicas -> ReapType]
  BY DEF TypeOK, ReapOK
<1>2. \A q \in Replicas : ReapOK(reap'[q])
  BY PumpsOK DEF TypeOK
<1> QED BY <1>1, <1>2 DEF TypeOK, ReapOK

\* A publish of the pump keeps the types.
LEMMA SequenceType ==
  ASSUME TypeOK, NEW r \in Replicas, pump[r].phase # "idle",
         NEW type \in FrameTypes, NEW t \in Ids \cup {Null},
         NEW phase \in Pumping, Sequence(r, type, t, phase)
  PROVE  TypeOK'
<1> DEFINE frame == FrameAfter(ChannelOf(r), type, t)
           state == ReduceSnapshot(ChannelOf(r), frame)
           p     == [pump[r] EXCEPT !.phase = phase, !.frame = frame,
                                    !.state = state, !.todo = {"set", "publish"}]
<1>1. PumpOK(pump[r]) /\ pump[r].key \in Convs /\ pump[r].turn \in Ids
  BY PumpsOK DEF PumpOK
<1>2. frame \in FrameType /\ frame.type \in FrameTypes
  BY <1>1, ChannelOfType, FrameAfterType DEF FrameAfter
<1>3. state \in SnapshotType
  BY <1>1, <1>2, ChannelOfType, ReduceType
<1>4. /\ local' = [local EXCEPT ![r][pump[r].key] = state]
      /\ pump' = [pump EXCEPT ![r] = p]
      /\ UNCHANGED <<lease, snap, reap, cancel, cast, minted, settled, crashes>>
  BY DEF Sequence
<1> HIDE DEF frame, state
<1>5. PumpOK(p)
  BY <1>1, <1>2, <1>3 DEF PumpOK, PumpType, Pumping, Active, Ops
<1>6. local' \in [Replicas -> [Convs -> SnapshotType \cup {Null}]]
  BY <1>3, <1>4 DEF TypeOK
<1> HIDE DEF p
<1> QED BY <1>4, <1>5, <1>6, PumpChange DEF TypeOK

\* The bus carries out one half of a fanOut.
LEMMA PersistType ==
  ASSUME TypeOK, NEW key \in Convs, NEW state \in SnapshotType,
         NEW frame \in FrameType, NEW op,
         IF op = "set" THEN Persist(key, state) /\ UNCHANGED cast
                       ELSE Broadcast(key, frame) /\ UNCHANGED snap
  PROVE  snap' \in [Convs -> SnapshotType] /\ cast' \in [Convs -> Seq(Nat)]
<1>1. CASE op = "set"
  BY <1>1 DEF Persist, TypeOK
<1>2. CASE op # "set"
  <2>1. frame.seq \in Nat /\ cast[key] \in Seq(Nat)
    BY DEF FrameType, TypeOK
  <2>2. Append(cast[key], frame.seq) \in Seq(Nat)
    BY <2>1
  <2> QED BY <1>2, <2>2 DEF Broadcast, TypeOK
<1> QED BY <1>1, <1>2

\* The relay starts well typed.
LEMMA TypeInit == Init => TypeOK
<1> SUFFICES ASSUME Init PROVE TypeOK
  OBVIOUS
<1>1. snap \in [Convs -> SnapshotType] /\ pump \in [Replicas -> PumpType]
        /\ reap \in [Replicas -> ReapType]
  BY EmptyTypes DEF Init
<1>2. local \in [Replicas -> [Convs -> SnapshotType \cup {Null}]]
        /\ cast \in [Convs -> Seq(Nat)]
  BY DEF Init
<1>3. \A r \in Replicas : pump[r] = NoPump /\ reap[r] = NoReap
  BY DEF Init
<1>4. NoPump.phase = "idle" /\ NoReap.phase = "idle"
  BY DEF NoPump, NoReap
<1>5. /\ lease \in Convs \cup {Null}
      /\ cancel \subseteq Convs
      /\ minted \in 0 .. MaxTurns
      /\ settled \subseteq Ids
      /\ crashes \in 0 .. MaxCrashes
  BY RelayAssumption DEF Init
<1> QED BY <1>1, <1>2, <1>3, <1>4, <1>5 DEF TypeOK

\* Every step keeps the types.
LEMMA TypeStep == TypeOK /\ [Next]_vars => TypeOK'
<1> SUFFICES ASSUME TypeOK, [Next]_vars PROVE TypeOK'
  OBVIOUS
<1> USE RelayAssumption
<1>1. ASSUME NEW r \in Replicas, NEW c \in Convs, Claim(r, c) PROVE TypeOK'
  <2> DEFINE p == [NoPump EXCEPT !.phase = "claimed", !.key = c,
                                 !.turn = minted + 1]
  <2>1. minted + 1 \in Ids
    BY <1>1 DEF Claim, TypeOK, Ids
  <2>2. PumpOK(p)
    BY <2>1, EmptyTypes DEF PumpOK, PumpType, NoPump, Active, Pumping, Ops
  <2>3. pump' = [pump EXCEPT ![r] = p] /\ minted' \in 0 .. MaxTurns
    BY <1>1 DEF Claim, TypeOK
  <2> HIDE DEF p
  <2> QED BY <1>1, <2>2, <2>3, PumpChange DEF Claim, TypeOK
<1>2. ASSUME NEW r \in Replicas, Open(r) PROVE TypeOK'
  <2> DEFINE p == [pump[r] EXCEPT !.phase = "opening",
                                  !.state = snap[pump[r].key]]
  <2>1. PumpOK(pump[r]) /\ pump[r].key \in Convs /\ pump[r].turn \in Ids
    BY <1>2, PumpsOK DEF Open, PumpOK
  <2>2. snap[pump[r].key] \in SnapshotType
    BY <2>1 DEF TypeOK
  <2>3. PumpOK(p)
    BY <2>1, <2>2 DEF PumpOK, PumpType, Active, Pumping
  <2>4. pump' = [pump EXCEPT ![r] = p]
    BY <1>2 DEF Open
  <2> HIDE DEF p
  <2> QED BY <1>2, <2>3, <2>4, PumpChange DEF Open, TypeOK
<1>3. ASSUME NEW r \in Replicas, Opened(r) PROVE TypeOK'
  <2> DEFINE p == [pump[r] EXCEPT !.phase = "open"]
  <2>1. PumpOK(pump[r]) /\ pump[r].key \in Convs /\ pump[r].turn \in Ids
    BY <1>3, PumpsOK DEF Opened, PumpOK
  <2>2. PumpOK(p)
    BY <2>1 DEF PumpOK, PumpType, Active, Pumping
  <2>3. Seeded(pump[r].state) \in SnapshotType
    BY <2>1, EmptyTypes
       DEF Seeded, PumpOK, PumpType, EmptySnapshot, SnapshotType
  <2>4. local' \in [Replicas -> [Convs -> SnapshotType \cup {Null}]]
    BY <1>3, <2>1, <2>3 DEF Opened, TypeOK
  <2>5. pump' = [pump EXCEPT ![r] = p]
    BY <1>3 DEF Opened
  <2> HIDE DEF p
  <2> QED BY <1>3, <2>2, <2>4, <2>5, PumpChange DEF Opened, TypeOK
<1>4. ASSUME NEW r \in Replicas, PumpFrame(r) PROVE TypeOK'
  <2>1. pump[r].turn \in Ids /\ pump[r].phase # "idle"
    BY <1>4, PumpsOK DEF PumpFrame, Ready, PumpOK
  <2> QED BY <1>4, <2>1, SequenceType DEF PumpFrame, FrameTypes, TerminalTypes, Pumping
<1> DEFINE FailsOrDies(r) == RunThrows(r) \/ SynthesizeEnd(r)
<1>5. ASSUME NEW r \in Replicas, FailsOrDies(r) PROVE TypeOK'
  <2>1. pump[r].key \in Convs /\ pump[r].phase # "idle"
    BY <1>5, PumpsOK DEF RunThrows, SynthesizeEnd, Ready, PumpOK
  <2>2. local[r][pump[r].key] \in SnapshotType \cup {Null}
    BY <2>1 DEF TypeOK
  <2>3. RunningTurn(r) \in Ids \cup {Null}
    BY <2>2 DEF RunningTurn, SnapshotType
  <2> QED BY <1>5, <2>1, <2>3, SequenceType
          DEF RunThrows, SynthesizeEnd, FrameTypes, TerminalTypes, Pumping
<1>6. ASSUME NEW r \in Replicas, RunReturns(r) PROVE TypeOK'
  <2> DEFINE p == [pump[r] EXCEPT !.phase = "ending"]
  <2>1. PumpOK(pump[r]) /\ pump[r].key \in Convs /\ pump[r].turn \in Ids
    BY <1>6, PumpsOK DEF RunReturns, Ready, PumpOK
  <2>2. PumpOK(p)
    BY <2>1 DEF PumpOK, PumpType, Active, Pumping
  <2>3. pump' = [pump EXCEPT ![r] = p]
    BY <1>6 DEF RunReturns
  <2> HIDE DEF p
  <2> QED BY <1>6, <2>2, <2>3, PumpChange DEF RunReturns, TypeOK
<1>7. ASSUME NEW r \in Replicas, Close(r) PROVE TypeOK'
  <2> DEFINE p == [pump[r] EXCEPT !.phase = "closing"]
  <2>1. PumpOK(pump[r]) /\ pump[r].key \in Convs /\ pump[r].turn \in Ids
    BY <1>7, PumpsOK DEF Close, Ready, PumpOK
  <2>2. PumpOK(p)
    BY <2>1 DEF PumpOK, PumpType, Active, Pumping
  <2>3. pump' = [pump EXCEPT ![r] = p]
    BY <1>7 DEF Close
  <2>4. local' \in [Replicas -> [Convs -> SnapshotType \cup {Null}]]
    BY <1>7, <2>1 DEF Close, TypeOK
  <2> HIDE DEF p
  <2> QED BY <1>7, <2>2, <2>3, <2>4, PumpChange DEF Close, TypeOK
<1>8. ASSUME NEW r \in Replicas, Release(r) PROVE TypeOK'
  <2>1. PumpOK(NoPump)
    BY EmptyTypes DEF PumpOK, NoPump
  <2> QED BY <1>8, <2>1, PumpChange DEF Release, TypeOK
<1>9. ASSUME NEW r \in Replicas, NEW op \in {"set", "publish"},
             FanOutPump(r, op)
      PROVE  TypeOK'
  <2> DEFINE p == [pump[r] EXCEPT !.todo = @ \ {op},
                     !.state = IF pump[r].todo = {op} THEN EmptySnapshot ELSE @]
  <2>1. PumpOK(pump[r]) /\ pump[r].todo # {}
    BY <1>9, PumpsOK DEF FanOutPump
  <2>2. pump[r].phase # "idle" /\ pump[r].key \in Convs /\ pump[r].turn \in Ids
    BY <2>1 DEF PumpOK, NoPump
  <2>3. PumpOK(p)
    BY <2>1, <2>2, EmptyTypes DEF PumpOK, PumpType, Ops
  <2>4. pump' = [pump EXCEPT ![r] = p]
    BY <1>9 DEF FanOutPump
  <2>5. snap' \in [Convs -> SnapshotType] /\ cast' \in [Convs -> Seq(Nat)]
    BY <1>9, <2>1, <2>2, PersistType DEF FanOutPump, PumpOK, PumpType
  <2>6. settled' \subseteq Ids
    BY <1>9, <2>2 DEF FanOutPump, TypeOK
  <2> HIDE DEF p
  <2> QED BY <1>9, <2>3, <2>4, <2>5, <2>6, PumpChange DEF FanOutPump, TypeOK
<1>10. ASSUME NEW r \in Replicas, Crash(r) PROVE TypeOK'
  <2>1. pump' \in [Replicas -> PumpType] /\ reap' \in [Replicas -> ReapType]
    BY <1>10, EmptyTypes DEF Crash, TypeOK
  <2>2. local' \in [Replicas -> [Convs -> SnapshotType \cup {Null}]]
    BY <1>10 DEF Crash, TypeOK
  <2>3. \A q \in Replicas :
          /\ IF pump'[q].phase = "idle" THEN pump'[q] = NoPump
             ELSE pump'[q].key \in Convs /\ pump'[q].turn \in Ids
          /\ IF reap'[q].phase = "idle" THEN reap'[q] = NoReap
             ELSE reap'[q].key \in Convs
    BY <1>10 DEF Crash, TypeOK, NoPump, NoReap
  <2> QED BY <1>10, <2>1, <2>2, <2>3 DEF Crash, TypeOK
<1>11. ASSUME LeaseExpires PROVE TypeOK'
  BY <1>11 DEF LeaseExpires, TypeOK
<1>12. ASSUME NEW r \in Replicas, NEW c \in Convs, ReapStart(r, c) PROVE TypeOK'
  <2> DEFINE seen == IF local[r][c] # Null THEN local[r][c] ELSE snap[c]
             p    == [NoReap EXCEPT !.phase = "running", !.key = c,
                                    !.turn = seen.turn]
  <2>1. seen \in SnapshotType
    BY DEF TypeOK
  <2>2. seen.turn \in Ids \cup {Null}
    BY <2>1 DEF SnapshotType
  <2>3. reap' = [reap EXCEPT ![r] = p]
    BY <1>12 DEF ReapStart
  <2> HIDE DEF seen
  <2>4. ReapOK(p)
    BY <2>2, EmptyTypes DEF ReapOK, ReapType, NoReap
  <2> HIDE DEF p
  <2> QED BY <1>12, <2>3, <2>4, ReapChange DEF ReapStart, TypeOK
<1>13. ASSUME NEW r \in Replicas, ReadLease(r) PROVE TypeOK'
  <2> DEFINE p == [reap[r] EXCEPT !.phase = "leased", !.lease = lease]
  <2>1. ReapOK(reap[r]) /\ reap[r].key \in Convs
    BY <1>13, PumpsOK DEF ReadLease, ReapOK
  <2>2. ReapOK(p)
    BY <2>1 DEF ReapOK, ReapType, TypeOK
  <2>3. reap' = [reap EXCEPT ![r] = p]
    BY <1>13 DEF ReadLease
  <2> HIDE DEF p
  <2> QED BY <1>13, <2>2, <2>3, ReapChange DEF ReadLease, TypeOK
<1>14. ASSUME NEW r \in Replicas, HealRead(r) PROVE TypeOK'
  <2> DEFINE p == [reap[r] EXCEPT !.phase = "reread",
                                  !.state = snap[reap[r].key]]
  <2>1. ReapOK(reap[r]) /\ reap[r].key \in Convs
    BY <1>14, PumpsOK DEF HealRead, ReapOK
  <2>2. ReapOK(p)
    BY <2>1 DEF ReapOK, ReapType, TypeOK
  <2>3. reap' = [reap EXCEPT ![r] = p]
    BY <1>14 DEF HealRead
  <2> HIDE DEF p
  <2> QED BY <1>14, <2>2, <2>3, ReapChange DEF HealRead, TypeOK
<1>15. ASSUME NEW r \in Replicas, ReapNothing(r) PROVE TypeOK'
  <2>1. ReapOK(NoReap)
    BY EmptyTypes DEF ReapOK, NoReap
  <2> QED BY <1>15, <2>1, ReapChange DEF ReapNothing, GiveUpReap, TypeOK
<1>16. ASSUME NEW r \in Replicas, Heal(r) PROVE TypeOK'
  <2> DEFINE frame == FrameAfter(reap[r].state, "error", reap[r].state.turn)
             state == ReduceSnapshot(reap[r].state, frame)
             p     == [reap[r] EXCEPT !.phase = "healing", !.frame = frame,
                                      !.state = state,
                                      !.todo = {"set", "publish"}]
  <2>1. ReapOK(reap[r]) /\ reap[r].key \in Convs
    BY <1>16, PumpsOK DEF Heal, ReapOK
  <2>2. reap[r].state \in SnapshotType /\ reap[r].state.turn \in Ids \cup {Null}
    BY <2>1 DEF ReapOK, ReapType, SnapshotType
  <2>3. frame \in FrameType /\ frame.type \in FrameTypes
    BY <2>2, FrameAfterType DEF FrameAfter, FrameTypes, TerminalTypes
  <2>4. state \in SnapshotType
    BY <2>2, <2>3, ReduceType
  <2>5. /\ local' = [local EXCEPT ![r][reap[r].key] = state]
        /\ reap' = [reap EXCEPT ![r] = p]
    BY <1>16 DEF Heal
  <2> HIDE DEF frame, state
  <2>6. ReapOK(p)
    BY <2>1, <2>3, <2>4 DEF ReapOK, ReapType, Ops
  <2>7. local' \in [Replicas -> [Convs -> SnapshotType \cup {Null}]]
    BY <2>4, <2>5 DEF TypeOK
  <2> HIDE DEF p
  <2> QED BY <1>16, <2>5, <2>6, <2>7, ReapChange DEF Heal, TypeOK
<1>17. ASSUME NEW r \in Replicas, NEW op \in {"set", "publish"},
              FanOutHeal(r, op)
       PROVE  TypeOK'
  <2> DEFINE p == [reap[r] EXCEPT !.todo = @ \ {op}]
  <2>1. ReapOK(reap[r]) /\ reap[r].todo # {}
    BY <1>17, PumpsOK DEF FanOutHeal
  <2>2. reap[r].phase # "idle" /\ reap[r].key \in Convs
    BY <2>1 DEF ReapOK, NoReap
  <2>3. ReapOK(p)
    BY <2>1, <2>2 DEF ReapOK, ReapType, Ops
  <2>4. reap' = [reap EXCEPT ![r] = p]
    BY <1>17 DEF FanOutHeal
  <2>5. snap' \in [Convs -> SnapshotType] /\ cast' \in [Convs -> Seq(Nat)]
    BY <1>17, <2>1, <2>2, PersistType DEF FanOutHeal, ReapOK, ReapType
  <2> HIDE DEF p
  <2> QED BY <1>17, <2>3, <2>4, <2>5, ReapChange DEF FanOutHeal, TypeOK
<1>18. ASSUME NEW r \in Replicas, HealDone(r) PROVE TypeOK'
  <2>1. ReapOK(NoReap)
    BY EmptyTypes DEF ReapOK, NoReap
  <2>2. local' \in [Replicas -> [Convs -> SnapshotType \cup {Null}]]
    BY <1>18 DEF HealDone, TypeOK
  <2> QED BY <1>18, <2>1, <2>2, ReapChange DEF HealDone, TypeOK
<1>19. ASSUME NEW r \in Replicas, NEW c \in Convs, RequestCancel(r, c)
       PROVE  TypeOK'
  BY <1>19 DEF RequestCancel, TypeOK
<1>20. ASSUME NEW c \in Convs, DeliverCancel(c) PROVE TypeOK'
  <2>1. ASSUME NEW q \in Replicas PROVE PumpOK(pump'[q])
    <3>1. CASE InflightLocal(q)
      <4>1. pump'[q] = [pump[q] EXCEPT !.abortedBy = c]
        BY <1>20, <3>1 DEF DeliverCancel
      <4>2. PumpOK(pump[q]) /\ pump[q].phase # "idle"
        BY <3>1, PumpsOK DEF InflightLocal, Pumping
      <4> QED BY <4>1, <4>2 DEF PumpOK, PumpType
    <3>2. CASE ~ InflightLocal(q)
      BY <1>20, <3>2, PumpsOK DEF DeliverCancel
    <3> QED BY <3>1, <3>2
  <2>2. pump' \in [Replicas -> PumpType]
    BY <1>20, <2>1 DEF DeliverCancel, PumpOK
  <2> QED BY <1>20, <2>1, <2>2 DEF DeliverCancel, TypeOK, PumpOK
<1>21. CASE UNCHANGED vars
  BY <1>21 DEF vars, TypeOK
<1> QED
  <2>1. CASE \E r \in Replicas : PumpStep(r)
    BY <2>1, <1>2, <1>3, <1>4, <1>5, <1>6, <1>7, <1>8, <1>9 DEF PumpStep
  <2>2. CASE \E r \in Replicas : ReapStep(r)
    BY <2>2, <1>13, <1>14, <1>15, <1>16, <1>17, <1>18 DEF ReapStep
  <2> QED BY <2>1, <2>2, <1>1, <1>10, <1>11, <1>12, <1>19, <1>20, <1>21 DEF Next

\* The types are an invariant.
THEOREM TypeCorrect == Spec => []TypeOK
BY TypeInit, TypeStep, PTL DEF Spec

-----------------------------------------------------------------------------
(* The lease.  A pump that is under way keeps a lease on the bus - nobody   *)
(* else deletes it, and it lapses only when no replica pumps - and a new   *)
(* one starts only where there is none.                                    *)

LeaseGuards ==
  /\ OneTurnPerAgent
  /\ \A r \in Replicas : pump[r].phase \in Active => lease # Null

\* Every step keeps the lease where a pump needs it.
LEMMA LeaseStep == TypeOK /\ TypeOK' /\ LeaseGuards /\ [Next]_vars => LeaseGuards'
<1> SUFFICES ASSUME TypeOK, TypeOK', LeaseGuards, [Next]_vars
             PROVE  LeaseGuards'
  OBVIOUS
<1>1. ASSUME NEW r \in Replicas, NEW c \in Convs, Claim(r, c)
      PROVE  LeaseGuards'
  <2>1. \A q \in Replicas : pump[q].phase \notin Active
    BY <1>1 DEF Claim, Claimable, LeaseGuards
  <2>2. \A q \in Replicas \ {r} : pump'[q] = pump[q]
    BY <1>1 DEF Claim, TypeOK
  <2>3. lease' # Null
    BY <1>1, RelayAssumption DEF Claim
  <2> QED BY <2>1, <2>2, <2>3 DEF LeaseGuards, OneTurnPerAgent
<1>2. ASSUME NEW r \in Replicas, Release(r) PROVE LeaseGuards'
  <2>1. \A q \in Replicas : pump[q].phase \in Active => q = r
    BY <1>2 DEF Release, LeaseGuards, OneTurnPerAgent, Active
  <2>2. \A q \in Replicas : pump'[q].phase \notin Active
    BY <1>2, <2>1 DEF Release, TypeOK, NoPump, Active, Pumping
  <2> QED BY <2>2 DEF LeaseGuards, OneTurnPerAgent
<1>3. ASSUME LeaseExpires PROVE LeaseGuards'
  BY <1>3 DEF LeaseExpires, Lapsed, LeaseGuards, OneTurnPerAgent
<1>4. ASSUME NEW r \in Replicas, PumpStep(r), ~ Release(r) PROVE LeaseGuards'
  <2>1. /\ lease' = lease
        /\ pump[r].phase \in Active
        /\ \A q \in Replicas \ {r} : pump'[q] = pump[q]
    <3>1. ASSUME NEW type, NEW t, NEW phase, Sequence(r, type, t, phase)
          PROVE  lease' = lease /\ \A q \in Replicas \ {r} : pump'[q] = pump[q]
      BY <3>1 DEF Sequence, TypeOK
    <3>2. pump[r].phase # "idle" => pump[r].phase \in Active
      BY DEF TypeOK, PumpType
    <3>3. ASSUME NEW op \in {"set", "publish"}, FanOutPump(r, op)
          PROVE  pump[r].phase # "idle"
      BY <3>3, PumpsOK DEF FanOutPump, PumpOK, NoPump
    <3>4. CASE PumpFrame(r) \/ RunThrows(r) \/ SynthesizeEnd(r)
      BY <3>1, <3>2, <3>4 DEF PumpFrame, RunThrows, SynthesizeEnd, Ready
    <3>5. CASE Open(r) \/ Opened(r) \/ RunReturns(r) \/ Close(r)
      BY <3>2, <3>5 DEF Open, Opened, RunReturns, Close, Ready, TypeOK
    <3>6. CASE \E op \in {"set", "publish"} : FanOutPump(r, op)
      BY <3>2, <3>3, <3>6 DEF FanOutPump, TypeOK
    <3> QED BY <1>4, <3>4, <3>5, <3>6 DEF PumpStep
  <2> QED BY <2>1 DEF LeaseGuards, OneTurnPerAgent
<1>5. ASSUME NEW r \in Replicas, Crash(r) PROVE LeaseGuards'
  BY <1>5 DEF Crash, LeaseGuards, OneTurnPerAgent, TypeOK, NoPump, Active, Pumping
<1>6. ASSUME NEW r \in Replicas, NEW c \in Convs, ReapStart(r, c)
      PROVE  LeaseGuards'
  BY <1>6 DEF ReapStart, LeaseGuards, OneTurnPerAgent
<1>7. ASSUME NEW r \in Replicas, ReapStep(r) PROVE LeaseGuards'
  BY <1>7 DEF ReapStep, ReadLease, HealRead, ReapNothing, GiveUpReap, Heal,
              FanOutHeal, HealDone, LeaseGuards, OneTurnPerAgent
<1>8. ASSUME NEW r \in Replicas, NEW c \in Convs, RequestCancel(r, c)
      PROVE  LeaseGuards'
  BY <1>8 DEF RequestCancel, LeaseGuards, OneTurnPerAgent
<1>9. ASSUME NEW c \in Convs, DeliverCancel(c) PROVE LeaseGuards'
  <2>1. \A q \in Replicas : pump'[q].phase = pump[q].phase
    BY <1>9 DEF DeliverCancel, TypeOK, PumpType
  <2> QED BY <1>9, <2>1 DEF DeliverCancel, LeaseGuards, OneTurnPerAgent
<1>10. CASE UNCHANGED vars
  BY <1>10 DEF vars, LeaseGuards, OneTurnPerAgent
<1> QED BY <1>1, <1>2, <1>3, <1>4, <1>5, <1>6, <1>7, <1>8, <1>9, <1>10 DEF Next

\* relay.ts:15-16: on however many replicas, and whoever dies, the agent has
\* one turn at a time from the claim of its lease to the release.
THEOREM RelayMutualExclusion == Spec => []OneTurnPerAgent
<1>1. Init => LeaseGuards
  BY DEF Init, LeaseGuards, OneTurnPerAgent, NoPump, Active, Pumping
<1>2. LeaseGuards => OneTurnPerAgent
  BY DEF LeaseGuards
<1> QED BY <1>1, <1>2, TypeCorrect, LeaseStep, PTL DEF Spec

-----------------------------------------------------------------------------
(* The heals.  A reaper that has seen no lease knows that the pump of the  *)
(* turn it saw running is gone, and turn ids are not used again; a turn    *)
(* whose own terminal frame is out is in no persisted snapshot any more.   *)

\* A snapshot that shows turn t as running.
Runs(state, t) == state.running /\ state.turn = t

\* A running snapshot, or a local channel's, runs a turn that was started.
Started(state) == state.running => state.turn \in 1 .. minted

\* A pump that has got a terminal frame out publishes no more frames that run
\* its turn, and no persisted snapshot but its own conversation's runs it: that
\* one not any more once a terminal frame's state is persisted.
PumpInv(p) ==
  p.phase \in Active =>
    /\ p.turn \in 1 .. minted
    /\ p.phase = "claimed" => p.todo = {}
    /\ p.turn \in settled => IsTerminal(p.frame)
    /\ "set" \in p.todo /\ p.state.running =>
         p.state.turn = p.turn /\ ~ IsTerminal(p.frame)
    /\ \A c \in Convs : Runs(snap[c], p.turn) =>
         c = p.key /\ (IsTerminal(p.frame) => "set" \in p.todo)

\* A reaper that has seen no lease deals with a turn no pump owns.
SeenDead(q) ==
  \/ q.phase \in {"reread", "healing"}
  \/ q.phase = "leased" /\ q.lease = Null

ReapInv(q) ==
  /\ q.phase # "idle" => q.turn \in 1 .. minted
  /\ q.todo # {} => q.phase = "healing" /\ ~ q.state.running
  /\ SeenDead(q) => \A r \in Replicas :
                      pump[r].phase \in Active => pump[r].turn # q.turn
  /\ \/ q.phase = "reread" /\ Runs(q.state, q.turn)
     \/ q.phase = "healing"
     => q.turn \notin settled

HealInv ==
  /\ settled \subseteq 1 .. minted
  /\ \A c \in Convs : Started(snap[c])
  /\ \A c \in Convs : snap[c].running => snap[c].turn \notin settled
  /\ \A r \in Replicas, c \in Convs : local[r][c] # Null => Started(local[r][c])
  /\ \A r \in Replicas : PumpInv(pump[r])
  /\ \A r \in Replicas : ReapInv(reap[r])

\* What a frame does to the state it is reduced into.
LEMMA FrameEffect ==
  ASSUME NEW state, NEW t
  PROVE  /\ ReduceSnapshot(state, FrameAfter(state, "user", t)).turn = t
         /\ \A type \in TerminalTypes :
              ~ ReduceSnapshot(state, FrameAfter(state, type, t)).running
<1>1. ReduceSnapshot(state, FrameAfter(state, "user", t)).turn = t
  <2>1. PICK f : f = FrameAfter(state, "user", t)
    OBVIOUS
  <2>2. f.type = "user" /\ f.turn = t
    BY <2>1 DEF FrameAfter
  <2>3. ReduceSnapshot(state, f).turn = t
    BY <2>2 DEF ReduceSnapshot, IsTerminal, TerminalTypes
  <2> QED BY <2>1, <2>3
<1>2. ASSUME NEW type \in TerminalTypes
      PROVE  ~ ReduceSnapshot(state, FrameAfter(state, type, t)).running
  <2>1. PICK f : f = FrameAfter(state, type, t)
    OBVIOUS
  <2>2. f.type \in TerminalTypes
    BY <2>1 DEF FrameAfter
  <2>3. ~ ReduceSnapshot(state, f).running
    BY <2>2 DEF ReduceSnapshot, IsTerminal, TerminalTypes
  <2> QED BY <2>1, <2>3
<1> QED BY <1>1, <1>2

\* A pump goes on with its turn, and tells the bus nothing.
LEMMA PumpGoesOn ==
  ASSUME TypeOK, HealInv, NEW r \in Replicas, pump[r].phase \in Active,
         NEW p, p.turn = pump[r].turn, PumpInv(p),
         pump' = [pump EXCEPT ![r] = p],
         UNCHANGED <<snap, reap, minted, settled>>,
         \A q \in Replicas, c \in Convs :
           local'[q][c] # Null => Started(local'[q][c])
  PROVE  HealInv'
<1>1. \A q \in Replicas : pump'[q] = IF q = r THEN p ELSE pump[q]
  BY DEF TypeOK
<1>2. \A x : PumpInv(x)' <=> PumpInv(x)
  BY DEF PumpInv
<1>3. \A q \in Replicas : PumpInv(pump'[q])
  BY <1>1 DEF HealInv
<1>4. \A q \in Replicas : pump'[q].phase \in Active => 
        pump[q].phase \in Active /\ pump'[q].turn = pump[q].turn
  BY <1>1
<1>5. \A q \in Replicas : ReapInv(reap[q])'
  BY <1>4 DEF HealInv, ReapInv
<1>6. \A x : Started(x)' <=> Started(x)
  BY DEF Started
<1>7. /\ settled' \subseteq 1 .. minted'
      /\ \A c \in Convs : snap'[c].running => snap'[c].turn \notin settled'
      /\ \A c \in Convs : Started(snap'[c])
  BY DEF HealInv
<1> QED BY <1>2, <1>3, <1>5, <1>6, <1>7 DEF HealInv

\* A publish: only the `user` frame leaves a running state, and it runs the
\* pump's own turn.
LEMMA PumpPublishes ==
  ASSUME TypeOK, HealInv, NEW r \in Replicas, pump[r].phase \in Active,
         NEW type \in {"user"} \cup TerminalTypes, NEW t, NEW phase \in Pumping \ {"claimed"},
         type = "user" => t = pump[r].turn /\ t \notin settled,
         Sequence(r, type, t, phase)
  PROVE  HealInv'
<1>1. PICK old, frame, state, p :
        /\ old = pump[r]
        /\ frame = FrameAfter(ChannelOf(r), type, t)
        /\ state = ReduceSnapshot(ChannelOf(r), frame)
        /\ p = [old EXCEPT !.phase = phase, !.frame = frame, !.state = state,
                           !.todo = {"set", "publish"}]
  OBVIOUS
<1>2. /\ local' = [local EXCEPT ![r][old.key] = state]
      /\ pump' = [pump EXCEPT ![r] = p]
      /\ UNCHANGED <<snap, reap, minted, settled>>
  BY <1>1 DEF Sequence
<1>3. old \in PumpType /\ old.phase \in Active /\ old.key \in Convs
  BY <1>1, PumpsOK DEF PumpOK, NoPump, Active, Pumping
<1>4. /\ p.turn = old.turn /\ p.key = old.key /\ p.frame = frame
      /\ p.state = state /\ p.todo = {"set", "publish"}
  BY <1>1, <1>3 DEF PumpType
<1>5. frame.type = type
  BY <1>1 DEF FrameAfter
<1>6. state.running => type = "user" /\ state.turn = t
  BY <1>1, FrameEffect
<1>7. "user" \notin TerminalTypes
  BY DEF TerminalTypes
<1>8. /\ old.turn \in 1 .. minted
      /\ old.turn \in settled => IsTerminal(old.frame)
      /\ \A c \in Convs : Runs(snap[c], old.turn) => c = old.key
  BY <1>1, <1>3 DEF HealInv, PumpInv
<1>9. PumpInv(p)
  <2>1. p.turn \in settled => IsTerminal(p.frame)
    BY <1>1, <1>4, <1>5 DEF IsTerminal
  <2>2. p.state.running => p.state.turn = p.turn /\ ~ IsTerminal(p.frame)
    BY <1>1, <1>4, <1>5, <1>6, <1>7 DEF IsTerminal
  <2>3. p.phase # "claimed"
    BY <1>1, <1>3 DEF PumpType
  <2> QED BY <1>4, <1>8, <2>1, <2>2, <2>3 DEF PumpInv
<1>10. Started(state)
  BY <1>1, <1>6, <1>8 DEF Started
<1>11. ASSUME NEW q \in Replicas, NEW c \in Convs, local'[q][c] # Null
       PROVE  Started(local'[q][c])
  <2>1. local'[q][c] = IF q = r /\ c = old.key THEN state ELSE local[q][c]
    BY <1>2 DEF TypeOK
  <2> QED BY <1>10, <1>11, <2>1 DEF HealInv
<1> QED BY <1>1, <1>2, <1>4, <1>9, <1>11, PumpGoesOn

\* The bus carries out one half of a pump's fanOut.
LEMMA PumpFansOut ==
  ASSUME TypeOK, HealInv, OneTurnPerAgent, NEW r \in Replicas,
         NEW op \in {"set", "publish"}, FanOutPump(r, op)
  PROVE  HealInv'
<1>1. PICK old, p : 
        /\ old = pump[r]
        /\ p = [old EXCEPT !.todo = @ \ {op},
                  !.state = IF old.todo = {op} THEN EmptySnapshot ELSE @]
  OBVIOUS
<1>2. /\ op \in old.todo
      /\ pump' = [pump EXCEPT ![r] = p]
      /\ IF op = "set" THEN Persist(old.key, old.state) ELSE UNCHANGED snap
      /\ settled' = IF old.todo = {op} /\ IsTerminal(old.frame)
                      THEN settled \cup {old.turn} ELSE settled
      /\ UNCHANGED <<reap, local, minted>>
  BY <1>1 DEF FanOutPump
<1>3. old \in PumpType /\ old.phase \in Active /\ old.key \in Convs
  BY <1>1, <1>2, PumpsOK DEF PumpOK, NoPump, PumpType
<1>4. /\ p.turn = old.turn /\ p.key = old.key /\ p.frame = old.frame
      /\ p.phase = old.phase /\ p.todo = old.todo \ {op}
      /\ p.state = IF old.todo = {op} THEN EmptySnapshot ELSE old.state
  BY <1>1, <1>3 DEF PumpType
<1>5. PumpInv(old)
  BY <1>1 DEF HealInv
<1>6. \A c \in Convs : snap'[c] = IF op = "set" /\ c = old.key THEN old.state
                                  ELSE snap[c]
  BY <1>2 DEF Persist, TypeOK
<1>7. op = "set" /\ old.state.running =>
        old.state.turn = old.turn /\ ~ IsTerminal(old.frame)
  BY <1>2, <1>3, <1>5 DEF PumpInv
<1>8. old.turn \in 1 .. minted
  BY <1>3, <1>5 DEF PumpInv
<1>9. settled' \subseteq 1 .. minted'
  BY <1>2, <1>8 DEF HealInv
<1>10. \A q \in Replicas : pump'[q] = IF q = r THEN p ELSE pump[q]
  BY <1>2 DEF TypeOK
<1>11. \A q \in Replicas : pump[q].phase \in Active => q = r
  BY <1>1, <1>3 DEF OneTurnPerAgent
<1>12. \A c \in Convs : Started(snap[c])'
  <2>1. op = "set" => Started(old.state)
    BY <1>7, <1>8 DEF Started
  <2>2. \A c \in Convs : Started(snap'[c])
    BY <1>6, <2>1 DEF HealInv
  <2> QED BY <1>2, <2>2 DEF Started
<1>13. ASSUME NEW c \in Convs, Runs(snap'[c], old.turn)
       PROVE  /\ c = old.key
              /\ IsTerminal(old.frame) => "set" \in p.todo
  <2>1. CASE op = "set" /\ c = old.key
    BY <1>6, <1>7, <1>13, <2>1 DEF Runs
  <2>2. CASE ~ (op = "set" /\ c = old.key)
    <3>1. Runs(snap[c], old.turn)
      BY <1>6, <1>13, <2>2
    <3>2. c = old.key /\ (IsTerminal(old.frame) => "set" \in old.todo)
      BY <1>3, <1>5, <3>1 DEF PumpInv
    <3> QED BY <1>4, <2>2, <3>2
  <2> QED BY <2>1, <2>2
<1>14. ASSUME NEW c \in Convs, snap'[c].running PROVE snap'[c].turn \notin settled'
  <2>1. CASE op = "set" /\ c = old.key
    <3>1. snap'[c] = old.state /\ old.state.running
      BY <1>6, <1>14, <2>1
    <3>2. old.state.turn = old.turn /\ ~ IsTerminal(old.frame)
      BY <1>7, <2>1, <3>1
    <3>3. settled' = settled /\ old.turn \notin settled
      BY <1>2, <1>3, <1>5, <3>2 DEF PumpInv
    <3> QED BY <3>1, <3>2, <3>3
  <2>2. CASE ~ (op = "set" /\ c = old.key)
    <3>1. snap'[c] = snap[c]
      BY <1>6, <2>2
    <3>2. snap[c].turn \notin settled
      BY <1>14, <3>1 DEF HealInv
    <3>3. ASSUME old.todo = {op}, IsTerminal(old.frame), snap[c].turn = old.turn
          PROVE  FALSE
      <4>1. "set" \in p.todo
        BY <1>13, <1>14, <3>1, <3>3 DEF Runs
      <4> QED BY <1>4, <3>3, <4>1
    <3> QED BY <1>2, <3>1, <3>2, <3>3
  <2> QED BY <2>1, <2>2
<1>15. PumpInv(p)'
  <2>1. p.turn \in settled' => IsTerminal(p.frame)
    BY <1>2, <1>3, <1>4, <1>5 DEF PumpInv
  <2>2. "set" \in p.todo /\ p.state.running =>
          p.state.turn = p.turn /\ ~ IsTerminal(p.frame)
    BY <1>3, <1>4, <1>5 DEF PumpInv, EmptySnapshot
  <2>3. p.turn \in 1 .. minted'
    BY <1>2, <1>4, <1>8
  <2>4. \A c \in Convs : Runs(snap'[c], p.turn) =>
          c = p.key /\ (IsTerminal(p.frame) => "set" \in p.todo)
    BY <1>4, <1>13
  <2>5. p.phase # "claimed"
    BY <1>2, <1>3, <1>4, <1>5 DEF PumpInv
  <2> QED BY <2>1, <2>2, <2>3, <2>4, <2>5 DEF PumpInv
<1>16. ASSUME NEW q \in Replicas PROVE PumpInv(pump[q])'
  <2>1. CASE q = r
    <3>1. pump'[q] = p
      BY <1>10, <2>1
    <3> QED BY <1>15, <3>1 DEF PumpInv
  <2>2. CASE q # r
    <3>1. pump'[q].phase \notin Active
      BY <1>10, <1>11, <2>2
    <3> QED BY <3>1 DEF PumpInv
  <2> QED BY <2>1, <2>2
<1>17. ASSUME NEW q \in Replicas PROVE ReapInv(reap[q])'
  <2>1. PICK x : x = reap[q]
    OBVIOUS
  <2>2. ReapInv(x)
    BY <2>1 DEF HealInv
  <2>3. \A s \in Replicas : pump'[s].phase \in Active =>
          pump[s].phase \in Active /\ pump'[s].turn = pump[s].turn
    BY <1>1, <1>3, <1>4, <1>10
  <2>4. SeenDead(x) => x.turn # old.turn
    BY <1>1, <1>3, <2>2 DEF ReapInv
  <2>5. \/ x.phase = "reread" /\ Runs(x.state, x.turn)
        \/ x.phase = "healing"
        => x.turn \notin settled'
    BY <1>2, <2>2, <2>4 DEF ReapInv, SeenDead
  <2>6. ReapInv(x)'
    BY <1>2, <2>2, <2>3, <2>5 DEF ReapInv
  <2> QED BY <1>2, <2>1, <2>6
<1>18. \A q \in Replicas, c \in Convs : local'[q][c] # Null => Started(local[q][c])'
  BY <1>2 DEF HealInv, Started
<1> QED BY <1>2, <1>9, <1>12, <1>14, <1>16, <1>17, <1>18 DEF HealInv

\* One reap goes on, and the bus is told nothing that runs a turn.
LEMMA ReapGoesOn ==
  ASSUME TypeOK, HealInv, NEW r \in Replicas, NEW q, ReapInv(q),
         reap' = [reap EXCEPT ![r] = q],
         UNCHANGED <<lease, pump, minted, settled>>,
         \A c \in Convs : snap'[c].running => snap'[c] = snap[c],
         \A x \in Replicas, c \in Convs : local'[x][c] # Null =>
           local'[x][c] = local[x][c] \/ ~ local'[x][c].running
  PROVE  HealInv'
<1>1. \A x \in Replicas : reap'[x] = IF x = r THEN q ELSE reap[x]
  BY DEF TypeOK
<1>2. \A x : ReapInv(x)' <=> ReapInv(x)
  BY DEF ReapInv
<1>3. \A x \in Replicas : ReapInv(reap'[x])
  BY <1>1 DEF HealInv
<1>4. ASSUME NEW x \in Replicas PROVE PumpInv(pump[x])'
  <2>1. PICK p : p = pump[x]
    OBVIOUS
  <2>2. PumpInv(p)
    BY <2>1 DEF HealInv
  <2>3. \A c \in Convs : \A t : Runs(snap'[c], t) => Runs(snap[c], t)
    BY DEF Runs
  <2>4. PumpInv(p)'
    BY <2>2, <2>3 DEF PumpInv
  <2> QED BY <2>1, <2>4
<1>5. \A c \in Convs : Started(snap[c])'
  BY DEF HealInv, Started
<1>6. \A c \in Convs : snap'[c].running => snap'[c].turn \notin settled'
  BY DEF HealInv
<1>7. \A x \in Replicas, c \in Convs : local'[x][c] # Null => Started(local[x][c])'
  BY DEF HealInv, Started
<1>8. settled' \subseteq 1 .. minted'
  BY DEF HealInv
<1> QED BY <1>2, <1>3, <1>4, <1>5, <1>6, <1>7, <1>8 DEF HealInv

\* A new turn has an id nobody has seen.
LEMMA ClaimHeals ==
  ASSUME TypeOK, HealInv, NEW r \in Replicas, NEW c \in Convs, Claim(r, c)
  PROVE  HealInv'
<1>1. PICK m, p : m = minted + 1 /\ p = pump'[r]
  OBVIOUS
<1>2. /\ pump' = [pump EXCEPT ![r] = [NoPump EXCEPT !.phase = "claimed",
                                                    !.key = c, !.turn = m]]
      /\ minted' = m
      /\ UNCHANGED <<snap, reap, local, settled>>
  BY <1>1 DEF Claim
<1>3. m \in Nat /\ m \notin 1 .. minted /\ 1 .. minted \subseteq 1 .. m /\ m \in 1 .. m
  BY <1>1, RelayAssumption DEF TypeOK
<1>4. p.turn = m /\ p.key = c /\ p.todo = {} /\ p.frame = NoFrame
  BY <1>1, <1>2 DEF TypeOK, NoPump
<1>5. \A q \in Replicas : pump'[q] = IF q = r THEN p ELSE pump[q]
  BY <1>1, <1>2 DEF TypeOK
<1>6. settled' \subseteq 1 .. minted'
  BY <1>2, <1>3 DEF HealInv
<1>7. \A x \in Convs : Started(snap[x])'
  BY <1>2, <1>3 DEF HealInv, Started
<1>8. \A x \in Convs : snap'[x].running => snap'[x].turn \notin settled'
  BY <1>2 DEF HealInv
<1>9. \A q \in Replicas, x \in Convs : local'[q][x] # Null => Started(local[q][x])'
  BY <1>2, <1>3 DEF HealInv, Started
<1>10. ASSUME NEW q \in Replicas PROVE PumpInv(pump[q])'
  <2>1. CASE q = r
    <3>1. \A x \in Convs : ~ Runs(snap[x], m)
      BY <1>3 DEF HealInv, Started, Runs
    <3>2. m \notin settled
      BY <1>3 DEF HealInv
    <3>3. PumpInv(p)'
      BY <1>2, <1>3, <1>4, <3>1, <3>2 DEF PumpInv
    <3> QED BY <1>5, <2>1, <3>3 DEF PumpInv
  <2>2. CASE q # r
    <3>1. PICK old : old = pump[q]
      OBVIOUS
    <3>2. PumpInv(old)
      BY <3>1 DEF HealInv
    <3>3. PumpInv(old)'
      BY <1>2, <1>3, <3>2 DEF PumpInv
    <3>4. old = pump'[q]
      BY <1>5, <2>2, <3>1
    <3> QED BY <3>3, <3>4 DEF PumpInv
  <2> QED BY <2>1, <2>2
<1>11. ASSUME NEW q \in Replicas PROVE ReapInv(reap[q])'
  <2>1. PICK x : x = reap[q]
    OBVIOUS
  <2>2. ReapInv(x)
    BY <2>1 DEF HealInv
  <2>3. x.phase # "idle" => x.turn \in 1 .. m /\ x.turn # m
    BY <1>3, <2>2 DEF ReapInv
  <2>4. SeenDead(x) => x.phase # "idle"
    BY DEF SeenDead
  <2>5. SeenDead(x) => \A s \in Replicas :
          pump'[s].phase \in Active => pump'[s].turn # x.turn
    BY <1>4, <1>5, <2>2, <2>3, <2>4 DEF ReapInv
  <2>6. ReapInv(x)'
    BY <1>2, <2>2, <2>3, <2>5 DEF ReapInv, SeenDead
  <2> QED BY <1>2, <2>1, <2>6
<1> QED BY <1>6, <1>7, <1>8, <1>9, <1>10, <1>11 DEF HealInv

\* A pump ends, or dies with its replica; reaps may die as well.
LEMMA PumpEnds ==
  ASSUME TypeOK, HealInv,
         \A q \in Replicas : pump'[q] = pump[q] \/ pump'[q] = NoPump,
         \A q \in Replicas : reap'[q] = reap[q] \/ reap'[q] = NoReap,
         \A q \in Replicas, c \in Convs :
           local'[q][c] = local[q][c] \/ local'[q][c] = Null,
         UNCHANGED <<snap, minted, settled>>
  PROVE  HealInv'
<1>1. NoPump.phase \notin Active
  BY DEF NoPump, Active, Pumping
<1>2. \A x : PumpInv(x)' <=> PumpInv(x)
  BY DEF PumpInv
<1>3. \A q \in Replicas : PumpInv(pump'[q])
  BY <1>1 DEF HealInv, PumpInv
<1>4. \A q \in Replicas : pump'[q].phase \in Active => pump'[q] = pump[q]
  BY <1>1
<1>5. ASSUME NEW q \in Replicas PROVE ReapInv(reap[q])'
  <2>1. PICK x : x = reap'[q]
    OBVIOUS
  <2>2. ReapInv(x)
    <3>1. ReapInv(NoReap)
      BY DEF ReapInv, NoReap, SeenDead
    <3> QED BY <2>1, <3>1 DEF HealInv
  <2>3. ReapInv(x)'
    BY <1>4, <2>2 DEF ReapInv
  <2> QED BY <2>1, <2>3 DEF ReapInv
<1>6. \A c \in Convs : Started(snap[c])'
  BY DEF HealInv, Started
<1>7. \A q \in Replicas, c \in Convs : local'[q][c] # Null => Started(local[q][c])'
  BY DEF HealInv, Started
<1>8. /\ settled' \subseteq 1 .. minted'
      /\ \A c \in Convs : snap'[c].running => snap'[c].turn \notin settled'
  BY DEF HealInv
<1> QED BY <1>2, <1>3, <1>5, <1>6, <1>7, <1>8 DEF HealInv

\* Every step keeps what the heals rest on.
LEMMA HealStep ==
  TypeOK /\ TypeOK' /\ LeaseGuards /\ HealInv /\ [Next]_vars => HealInv'
<1> SUFFICES ASSUME TypeOK, TypeOK', LeaseGuards, HealInv, [Next]_vars
             PROVE  HealInv'
  OBVIOUS
<1>1. ASSUME NEW r \in Replicas, NEW c \in Convs, Claim(r, c) PROVE HealInv'
  BY <1>1, ClaimHeals
<1>2. ASSUME NEW r \in Replicas, NEW p, pump[r].phase \in Active,
             pump' = [pump EXCEPT ![r] = p],
             p.turn = pump[r].turn, p.key = pump[r].key, p.frame = pump[r].frame,
             p.todo = pump[r].todo, p.phase # "claimed",
             "set" \in p.todo => p.state = pump[r].state,
             UNCHANGED <<snap, reap, minted, settled>>,
             \A q \in Replicas, c \in Convs : local'[q][c] # Null =>
               local'[q][c] = local[q][c] \/ ~ local'[q][c].running
      PROVE  HealInv'
  <2>1. PICK old : old = pump[r]
    OBVIOUS
  <2>2. PumpInv(old)
    BY <2>1 DEF HealInv
  <2>3. PumpInv(p)
    BY <1>2, <2>1, <2>2 DEF PumpInv
  <2>4. \A q \in Replicas, c \in Convs :
          local'[q][c] # Null => Started(local'[q][c])
    BY <1>2 DEF HealInv, Started
  <2> QED BY <1>2, <2>3, <2>4, PumpGoesOn
<1>3. ASSUME NEW r \in Replicas, Open(r) PROVE HealInv'
  <2>1. PICK p : p = [pump[r] EXCEPT !.phase = "opening",
                                     !.state = snap[pump[r].key]]
    OBVIOUS
  <2>2. pump[r] \in PumpType /\ pump[r].phase = "claimed" /\ pump[r].phase \in Active
    BY <1>3 DEF Open, TypeOK, Active, Pumping
  <2>3. pump[r].todo = {}
    BY <2>2 DEF HealInv, PumpInv
  <2>4. /\ p.turn = pump[r].turn /\ p.key = pump[r].key /\ p.frame = pump[r].frame
        /\ p.todo = pump[r].todo /\ p.phase = "opening"
    BY <2>1, <2>2 DEF PumpType
  <2>5. /\ pump' = [pump EXCEPT ![r] = p]
        /\ UNCHANGED <<snap, reap, minted, settled, local>>
    BY <1>3, <2>1 DEF Open
  <2> QED BY <1>2, <2>2, <2>3, <2>4, <2>5
<1>4. ASSUME NEW r \in Replicas, Opened(r) \/ RunReturns(r) \/ Close(r) PROVE HealInv'
  <2>1. PICK phase \in Active \ {"claimed"} : pump' = [pump EXCEPT ![r].phase = phase]
    BY <1>4 DEF Opened, RunReturns, Close, Active, Pumping
  <2>2. PICK p : p = [pump[r] EXCEPT !.phase = phase]
    OBVIOUS
  <2>3. pump[r] \in PumpType /\ pump[r].phase \in Active /\ pump[r].key \in Convs
    BY <1>4 DEF Opened, RunReturns, Close, Ready, TypeOK, Active, Pumping
  <2>4. /\ p.turn = pump[r].turn /\ p.key = pump[r].key /\ p.frame = pump[r].frame
        /\ p.todo = pump[r].todo /\ p.phase = phase /\ p.state = pump[r].state
    BY <2>2, <2>3 DEF PumpType
  <2>5. pump' = [pump EXCEPT ![r] = p]
    BY <2>1, <2>2 DEF TypeOK
  <2>6. UNCHANGED <<snap, reap, minted, settled>>
    BY <1>4 DEF Opened, RunReturns, Close
  <2>7. \A q \in Replicas, c \in Convs : local'[q][c] # Null =>
          local'[q][c] = local[q][c] \/ ~ local'[q][c].running
    <3>1. \A prior : ~ Seeded(prior).running
      BY DEF Seeded, EmptySnapshot
    <3>2. CASE Opened(r)
      BY <2>3, <3>1, <3>2 DEF Opened, TypeOK
    <3>3. CASE RunReturns(r)
      BY <3>3 DEF RunReturns
    <3>4. CASE Close(r)
      BY <2>3, <3>4 DEF Close, TypeOK
    <3> QED BY <1>4, <3>2, <3>3, <3>4
  <2> QED BY <1>2, <2>3, <2>4, <2>5, <2>6, <2>7
<1>5. ASSUME NEW r \in Replicas, PumpFrame(r) \/ RunThrows(r) \/ SynthesizeEnd(r)
      PROVE  HealInv'
  <2>1. pump[r].phase \in Active
    BY <1>5 DEF PumpFrame, RunThrows, SynthesizeEnd, Ready, Active, Pumping
  <2>2. pump[r].frame.type = Null => pump[r].turn \notin settled
    BY <2>1, RelayAssumption DEF HealInv, PumpInv, IsTerminal, FrameTypes
  <2>3. \A type, t, phase :
          /\ type \in {"user"} \cup TerminalTypes
          /\ phase \in Pumping \ {"claimed"}
          /\ type = "user" => (t = pump[r].turn /\ t \notin settled)
          /\ Sequence(r, type, t, phase)
          => HealInv'
    BY <2>1, PumpPublishes
  <2>4. /\ {"open", "failing", "dying"} \subseteq Pumping \ {"claimed"}
        /\ {"user", "done", "error"} \subseteq {"user"} \cup TerminalTypes
    BY DEF Pumping, TerminalTypes
  <2>5. CASE PumpFrame(r) /\ pump[r].frame.type = Null
    <3>1. pump[r].frame.type # "user"
      BY <2>5, RelayAssumption DEF FrameTypes
    <3>2. Sequence(r, "user", pump[r].turn, "open")
      BY <2>5, <3>1 DEF PumpFrame
    <3> QED BY <2>2, <2>3, <2>4, <2>5, <3>2
  <2>6. CASE PumpFrame(r) /\ pump[r].frame.type # Null
    <3>1. Sequence(r, "done", pump[r].turn, "open")
      BY <2>6 DEF PumpFrame
    <3>2. "done" # "user"
      OBVIOUS
    <3> QED BY <2>3, <2>4, <3>1, <3>2
  <2>7. CASE RunThrows(r) \/ SynthesizeEnd(r)
    <3>1. PICK phase \in {"failing", "dying"} :
            Sequence(r, "error", RunningTurn(r), phase)
      BY <2>7 DEF RunThrows, SynthesizeEnd
    <3>2. "error" # "user"
      OBVIOUS
    <3> QED BY <2>3, <2>4, <3>1, <3>2
  <2> QED BY <1>5, <2>5, <2>6, <2>7
<1>6. ASSUME NEW r \in Replicas, NEW op \in {"set", "publish"}, FanOutPump(r, op)
      PROVE  HealInv'
  BY <1>6, PumpFansOut DEF LeaseGuards
<1>7. ASSUME NEW r \in Replicas, Release(r) PROVE HealInv'
  <2>1. \A q \in Replicas : pump'[q] = pump[q] \/ pump'[q] = NoPump
    BY <1>7 DEF Release, TypeOK
  <2> QED BY <1>7, <2>1, PumpEnds DEF Release
<1>8. ASSUME NEW r \in Replicas, Crash(r) PROVE HealInv'
  <2>1. \A q \in Replicas : pump'[q] = pump[q] \/ pump'[q] = NoPump
    BY <1>8 DEF Crash, TypeOK
  <2>2. \A q \in Replicas : reap'[q] = reap[q] \/ reap'[q] = NoReap
    BY <1>8 DEF Crash, TypeOK
  <2>3. \A q \in Replicas, c \in Convs :
          local'[q][c] = local[q][c] \/ local'[q][c] = Null
    BY <1>8 DEF Crash, TypeOK
  <2> QED BY <1>8, <2>1, <2>2, <2>3, PumpEnds DEF Crash
<1>9. CASE LeaseExpires \/ UNCHANGED vars
  <2>1. UNCHANGED <<pump, reap, local, snap, minted, settled>>
    BY <1>9 DEF LeaseExpires, vars
  <2> QED BY <2>1, PumpEnds
<1>10. ASSUME NEW r \in Replicas, NEW c \in Convs, ReapStart(r, c) PROVE HealInv'
  <2>1. PICK state : state = IF local[r][c] # Null THEN local[r][c] ELSE snap[c]
    OBVIOUS
  <2>2. /\ state.running
        /\ reap' = [reap EXCEPT ![r] = [NoReap EXCEPT !.phase = "running", !.key = c,
                                                      !.turn = state.turn]]
        /\ UNCHANGED <<lease, pump, snap, local, minted, settled>>
    BY <1>10, <2>1 DEF ReapStart
  <2>3. state.turn \in 1 .. minted
    BY <2>1, <2>2 DEF HealInv, Started
  <2>4. PICK q : q = [NoReap EXCEPT !.phase = "running", !.key = c, !.turn = state.turn]
    OBVIOUS
  <2>5. q.phase = "running" /\ q.turn = state.turn /\ q.todo = {}
    BY <2>4 DEF NoReap
  <2>6. ReapInv(q)
    BY <2>3, <2>5 DEF ReapInv, SeenDead
  <2> QED BY <2>2, <2>4, <2>6, ReapGoesOn
<1>11. ASSUME NEW r \in Replicas, ReadLease(r) PROVE HealInv'
  <2>1. PICK old, q : old = reap[r] /\ q = [old EXCEPT !.phase = "leased", !.lease = lease]
    OBVIOUS
  <2>2. old \in ReapType /\ old.phase = "running" /\ ReapInv(old)
    BY <1>11, <2>1 DEF ReadLease, TypeOK, HealInv
  <2>3. /\ q.phase = "leased" /\ q.lease = lease /\ q.turn = old.turn
        /\ q.todo = old.todo
    BY <2>1, <2>2 DEF ReapType
  <2>4. lease = Null => \A s \in Replicas : pump[s].phase \notin Active
    BY DEF LeaseGuards
  <2>5. ReapInv(q)
    BY <2>2, <2>3, <2>4 DEF ReapInv, SeenDead
  <2>6. /\ reap' = [reap EXCEPT ![r] = q]
        /\ UNCHANGED <<lease, pump, snap, local, minted, settled>>
    BY <1>11, <2>1 DEF ReadLease
  <2> QED BY <2>5, <2>6, ReapGoesOn
<1>12. ASSUME NEW r \in Replicas, HealRead(r) PROVE HealInv'
  <2>1. PICK old, seen, q : /\ old = reap[r] /\ seen = snap[old.key]
                            /\ q = [old EXCEPT !.phase = "reread", !.state = seen]
    OBVIOUS
  <2>2. /\ old \in ReapType /\ old.phase = "leased" /\ old.lease = Null /\ ReapInv(old)
        /\ old.key \in Convs
    BY <1>12, <2>1 DEF HealRead, TypeOK, HealInv
  <2>3. /\ q.phase = "reread" /\ q.state = seen /\ q.turn = old.turn
        /\ q.todo = old.todo
    BY <2>1, <2>2 DEF ReapType
  <2>4. Runs(seen, old.turn) => old.turn \notin settled
    BY <2>1, <2>2 DEF HealInv, Runs
  <2>5. ReapInv(q)
    BY <2>2, <2>3, <2>4 DEF ReapInv, SeenDead
  <2>6. /\ reap' = [reap EXCEPT ![r] = q]
        /\ UNCHANGED <<lease, pump, snap, local, minted, settled>>
    BY <1>12, <2>1 DEF HealRead
  <2> QED BY <2>5, <2>6, ReapGoesOn
<1>13. ASSUME NEW r \in Replicas, ReapNothing(r) \/ HealDone(r) PROVE HealInv'
  <2>1. \A q \in Replicas : reap'[q] = reap[q] \/ reap'[q] = NoReap
    BY <1>13 DEF ReapNothing, GiveUpReap, HealDone, TypeOK
  <2>2. \A q \in Replicas, c \in Convs :
          local'[q][c] = local[q][c] \/ local'[q][c] = Null
    <3>1. CASE ReapNothing(r)
      BY <3>1 DEF ReapNothing, GiveUpReap
    <3>2. CASE HealDone(r)
      <4>1. PICK key : key = reap[r].key
        OBVIOUS
      <4>2. local' = [local EXCEPT ![r][key] = Null]
        BY <3>2, <4>1 DEF HealDone
      <4> QED BY <4>2 DEF TypeOK
    <3> QED BY <1>13, <3>1, <3>2
  <2>3. UNCHANGED <<pump, snap, minted, settled>>
    BY <1>13 DEF ReapNothing, GiveUpReap, HealDone
  <2> QED BY <2>1, <2>2, <2>3, PumpEnds
<1>14. ASSUME NEW r \in Replicas, Heal(r) PROVE HealInv'
  <2>1. PICK old, frame, state, q :
          /\ old = reap[r]
          /\ frame = FrameAfter(old.state, "error", old.state.turn)
          /\ state = ReduceSnapshot(old.state, frame)
          /\ q = [old EXCEPT !.phase = "healing", !.frame = frame, !.state = state,
                             !.todo = {"set", "publish"}]
    OBVIOUS
  <2>2. /\ old \in ReapType /\ old.phase = "reread" /\ ReapInv(old)
        /\ Runs(old.state, old.turn) /\ old.key \in Convs
    BY <1>14, <2>1 DEF Heal, StillDead, TypeOK, HealInv, Runs
  <2>3. /\ q.phase = "healing" /\ q.state = state /\ q.turn = old.turn
    BY <2>1, <2>2 DEF ReapType
  <2>4. ~ state.running
    BY <2>1, FrameEffect DEF TerminalTypes
  <2>5. ReapInv(q)
    BY <2>2, <2>3, <2>4 DEF ReapInv, SeenDead
  <2>6. /\ reap' = [reap EXCEPT ![r] = q]
        /\ local' = [local EXCEPT ![r][old.key] = state]
        /\ UNCHANGED <<lease, pump, snap, minted, settled>>
    BY <1>14, <2>1 DEF Heal
  <2>7. \A x \in Replicas, c \in Convs : local'[x][c] # Null =>
          local'[x][c] = local[x][c] \/ ~ local'[x][c].running
    BY <2>2, <2>4, <2>6 DEF TypeOK
  <2> QED BY <2>5, <2>6, <2>7, ReapGoesOn
<1>15. ASSUME NEW r \in Replicas, NEW op \in {"set", "publish"}, FanOutHeal(r, op)
       PROVE  HealInv'
  <2>1. PICK old, q : old = reap[r] /\ q = [old EXCEPT !.todo = @ \ {op}]
    OBVIOUS
  <2>2. old \in ReapType /\ op \in old.todo /\ ReapInv(old)
    BY <1>15, <2>1 DEF FanOutHeal, TypeOK, HealInv
  <2>3. /\ q.phase = old.phase /\ q.state = old.state /\ q.turn = old.turn
        /\ q.lease = old.lease /\ q.todo = old.todo \ {op}
    BY <2>1, <2>2 DEF ReapType
  <2>4. ReapInv(q) /\ ~ old.state.running
    BY <2>2, <2>3 DEF ReapInv, SeenDead
  <2>5. /\ reap' = [reap EXCEPT ![r] = q]
        /\ IF op = "set" THEN Persist(old.key, old.state) ELSE UNCHANGED snap
        /\ UNCHANGED <<lease, pump, local, minted, settled>>
    BY <1>15, <2>1 DEF FanOutHeal
  <2>6. \A c \in Convs : snap'[c].running => snap'[c] = snap[c]
    BY <2>4, <2>5 DEF Persist, TypeOK
  <2> QED BY <2>4, <2>5, <2>6, ReapGoesOn
<1>16. ASSUME NEW r \in Replicas, NEW c \in Convs, RequestCancel(r, c) PROVE HealInv'
  <2>1. UNCHANGED <<pump, reap, local, snap, minted, settled>>
    BY <1>16 DEF RequestCancel
  <2> QED BY <2>1, PumpEnds
<1>17. ASSUME NEW c \in Convs, DeliverCancel(c) PROVE HealInv'
  <2>1. UNCHANGED <<reap, local, snap, minted, settled>>
    BY <1>17 DEF DeliverCancel
  <2>2. ASSUME NEW q \in Replicas
        PROVE  /\ pump'[q].phase = pump[q].phase /\ pump'[q].turn = pump[q].turn
               /\ pump'[q].key = pump[q].key /\ pump'[q].frame = pump[q].frame
               /\ pump'[q].todo = pump[q].todo /\ pump'[q].state = pump[q].state
    <3>1. pump[q] \in PumpType
      BY DEF TypeOK
    <3>2. pump'[q] = [pump[q] EXCEPT !.abortedBy = c] \/ pump'[q] = pump[q]
      BY <1>17 DEF DeliverCancel
    <3> QED BY <3>1, <3>2 DEF PumpType
  <2>3. ASSUME NEW q \in Replicas PROVE PumpInv(pump[q])'
    <3>1. PICK old, p : old = pump[q] /\ p = pump'[q]
      OBVIOUS
    <3>2. PumpInv(old)
      BY <3>1 DEF HealInv
    <3>3. PumpInv(p)
      BY <2>2, <3>1, <3>2 DEF PumpInv
    <3>4. PumpInv(p)'
      BY <2>1, <3>3 DEF PumpInv
    <3> QED BY <3>1, <3>4 DEF PumpInv
  <2>4. ASSUME NEW q \in Replicas PROVE ReapInv(reap[q])'
    BY <2>1, <2>2 DEF HealInv, ReapInv
  <2> QED BY <2>1, <2>3, <2>4 DEF HealInv, Started
<1>18. CASE \E r \in Replicas : PumpStep(r)
  BY <1>18, <1>3, <1>4, <1>5, <1>6, <1>7 DEF PumpStep
<1>19. CASE \E r \in Replicas : ReapStep(r)
  BY <1>19, <1>11, <1>12, <1>13, <1>14, <1>15 DEF ReapStep
<1> QED BY <1>1, <1>8, <1>9, <1>10, <1>16, <1>17, <1>18, <1>19 DEF Next

\* The relay starts with nothing to heal.
LEMMA HealInit == Init => HealInv
<1> SUFFICES ASSUME Init PROVE HealInv
  OBVIOUS
<1>1. ~ EmptySnapshot.running
  BY DEF EmptySnapshot
<1>2. \A c \in Convs : snap[c] = EmptySnapshot
  BY DEF Init
<1>3. \A r \in Replicas : PumpInv(pump[r]) /\ ReapInv(reap[r])
  BY DEF Init, PumpInv, ReapInv, NoPump, NoReap, SeenDead, Active, Pumping
<1>4. settled = {} /\ \A r \in Replicas, c \in Convs : local[r][c] = Null
  BY DEF Init
<1> QED BY <1>1, <1>2, <1>3, <1>4 DEF HealInv, Started

\* relay.ts:144-156: on however many replicas, and whatever expires, crashes or
\* starts meanwhile, a heal terminates a turn that no live pump owns and whose
\* own pump has not got its terminal frame out.
THEOREM HealsOnlyTheDead == Spec => []OnlyDeadTurnsAreHealed
<1>1. Init => LeaseGuards
  BY DEF Init, LeaseGuards, OneTurnPerAgent, NoPump, Active, Pumping
<1>2. HealInv => OnlyDeadTurnsAreHealed
  BY DEF HealInv, ReapInv, SeenDead, OnlyDeadTurnsAreHealed
<1>3. Spec => []LeaseGuards
  BY <1>1, TypeCorrect, LeaseStep, PTL DEF Spec
<1> QED BY <1>2, <1>3, TypeCorrect, HealInit, HealStep, PTL DEF Spec
=============================================================================
