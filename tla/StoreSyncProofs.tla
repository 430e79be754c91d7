---------------------------- MODULE StoreSyncProofs ----------------------------
(***************************************************************************)
(* Proofs about StoreSync, for any finite set of files and any number of   *)
(* edits, foreign edits and faults: the types, that a flush or final sync  *)
(* that lands has stored what it was called for, and that no upload drops  *)
(* an entry of another writer that the pod never had.                      *)
(***************************************************************************)
EXTENDS StoreSync, FiniteSetTheorems, WellFoundedInduction, TLAPS

-----------------------------------------------------------------------------
(* The generation the store gives out is one nobody holds.                 *)

\* The values of a function are no more than its arguments.
LEMMA ImageIsSmall ==
  ASSUME NEW S, IsFiniteSet(S), NEW h
  PROVE  /\ IsFiniteSet({h[x] : x \in S})
         /\ Cardinality({h[x] : x \in S}) <= Cardinality(S)
<1> DEFINE k == [x \in S |-> h[x]]
<1>1. k \in Surjection(S, {h[x] : x \in S})
  BY DEF Surjection
<1> QED BY <1>1, FS_Surjection

\* Two finite sets together have at most the sum of their members.
LEMMA UnionIsSmall ==
  ASSUME NEW S, IsFiniteSet(S), NEW T, IsFiniteSet(T), NEW m \in Nat, NEW n \in Nat,
         Cardinality(S) <= m, Cardinality(T) <= n
  PROVE  IsFiniteSet(S \cup T) /\ Cardinality(S \cup T) <= m + n
<1>1. IsFiniteSet(S \cap T)
  BY FS_Intersection
<1>2. /\ Cardinality(S) \in Nat /\ Cardinality(T) \in Nat
      /\ Cardinality(S \cap T) \in Nat /\ Cardinality(S \cup T) \in Nat
  BY <1>1, FS_Union, FS_CardinalityType
<1>3. /\ IsFiniteSet(S \cup T)
      /\ Cardinality(S \cup T) = Cardinality(S) + Cardinality(T) - Cardinality(S \cap T)
  BY FS_Union
<1> QED BY <1>2, <1>3

\* What a set holds leaves room above its own size.
LEMMA RoomAbove ==
  ASSUME NEW S, IsFiniteSet(S), NEW n \in Nat, Cardinality(S) <= n
  PROVE  \E g \in 1 .. n + 1 : g \notin S
<1> SUFFICES ASSUME 1 .. n + 1 \subseteq S PROVE FALSE
  OBVIOUS
<1>1. Cardinality(1 .. n + 1) = n + 1
  BY FS_Interval
<1>2. Cardinality(1 .. n + 1) <= Cardinality(S)
  BY FS_Subset
<1>3. Cardinality(S) \in Nat
  BY FS_CardinalityType
<1> QED BY <1>1, <1>2, <1>3

\* What is held: one generation per file in each of four places.
LEMMA HeldIsSmall ==
  ASSUME TypeOK
  PROVE  IsFiniteSet(Held) /\ Cardinality(Held) <= 4 * Cardinality(Files)
<1> DEFINE n == Cardinality(Files)
<1> DEFINE gens(m) == {entry.gen : entry \in {m[f] : f \in Files} \ {Null}}
<1> DEFINE A == {GenOf(f) : f \in Files}
<1> DEFINE B == {pass.cache[f] : f \in IF pass.cache = Null THEN {} ELSE Files}
<1>0. IsFiniteSet(Files) /\ n \in Nat
  BY StoreSyncAssumption, FS_CardinalityType
<1>1. IsFiniteSet(A) /\ Cardinality(A) <= n
  <2> DEFINE h == [f \in Files |-> GenOf(f)]
  <2>1. A = {h[f] : f \in Files}
    OBVIOUS
  <2>2. PICK k : k = h
    OBVIOUS
  <2>3. A = {k[f] : f \in Files}
    BY <2>1, <2>2
  <2> HIDE DEF A
  <2> QED BY <1>0, <2>3, ImageIsSmall
<1>2. IsFiniteSet(B) /\ Cardinality(B) <= n
  <2>1. CASE pass.cache = Null
    <3>1. B = {}
      BY <2>1
    <3> QED BY <1>0, <3>1, FS_EmptySet
  <2>2. CASE pass.cache # Null
    <3>1. PICK k : k = pass.cache
      OBVIOUS
    <3>2. B = {k[f] : f \in Files}
      BY <2>2, <3>1
    <3> HIDE DEF B
    <3> QED BY <1>0, <3>2, ImageIsSmall
  <2> QED BY <2>1, <2>2
<1>3. ASSUME NEW m PROVE IsFiniteSet(gens(m)) /\ Cardinality(gens(m)) <= n
  <2> DEFINE some == {f \in Files : m[f] # Null}
  <2> DEFINE h == [f \in Files |-> m[f].gen]
  <2>1. gens(m) = {h[f] : f \in some}
    OBVIOUS
  <2>2. IsFiniteSet(some) /\ Cardinality(some) <= n
    BY <1>0, FS_Subset
  <2>3. PICK k : k = h
    OBVIOUS
  <2>4. gens(m) = {k[f] : f \in some}
    BY <2>1, <2>3
  <2>5. /\ IsFiniteSet({k[f] : f \in some})
        /\ Cardinality({k[f] : f \in some}) <= Cardinality(some)
    <3> HIDE DEF some
    <3> QED BY <2>2, ImageIsSmall
  <2>6. Cardinality(gens(m)) \in Nat /\ Cardinality(some) \in Nat
    <3> HIDE DEF some, gens
    <3> QED BY <2>2, <2>4, <2>5, FS_CardinalityType
  <2> HIDE DEF some, gens, n
  <2> QED BY <1>0, <2>2, <2>4, <2>5, <2>6
<1>4. Held = (A \cup B) \cup (gens(manifest) \cup gens(pass.next))
  BY DEF Held
<1>5. PICK k, l, S, T : k = manifest /\ l = pass.next /\ S = gens(k) /\ T = gens(l)
  OBVIOUS
<1>10. Held = (A \cup B) \cup (S \cup T)
  BY <1>4, <1>5
<1> HIDE DEF A, B, gens, n
<1>11. /\ IsFiniteSet(S) /\ Cardinality(S) <= n
       /\ IsFiniteSet(T) /\ Cardinality(T) <= n
  BY <1>3, <1>5
<1>6. IsFiniteSet(A \cup B) /\ Cardinality(A \cup B) <= n + n
  BY <1>0, <1>1, <1>2, UnionIsSmall
<1>7. IsFiniteSet(S \cup T) /\ Cardinality(S \cup T) <= n + n
  BY <1>0, <1>11, UnionIsSmall
<1>8. /\ IsFiniteSet((A \cup B) \cup (S \cup T))
      /\ Cardinality((A \cup B) \cup (S \cup T)) <= (n + n) + (n + n)
  <2>1. n + n \in Nat
    BY <1>0
  <2> QED BY <1>6, <1>7, <2>1, UnionIsSmall
<1>9. (n + n) + (n + n) = 4 * n
  BY <1>0
<1> QED BY <1>8, <1>9, <1>10 DEF n

\* A set of numbers has a least member.
LEMMA LeastMember ==
  ASSUME NEW S \in SUBSET Nat, S # {}
  PROVE  \E x \in S : \A y \in S : x <= y
<1> DEFINE Less == OpToRel(<, Nat)
<1>1. \A x, y \in Nat : y < x => <<y, x>> \in Less
  BY DEF OpToRel
<1>2. IsWellFoundedOn(Less, Nat)
  BY NatLessThanWellFounded
<1> HIDE DEF Less
<1>3. PICK x \in S : \A y \in S : <<y, x>> \notin Less
  BY <1>2, WFMin
<1>4. \A y \in S : x \in Nat /\ y \in Nat /\ ~ (y < x)
  BY <1>1, <1>3
<1>5. \A y \in S : x <= y
  BY <1>4
<1> QED BY <1>5

\* So there is a free one, and the least is given out.
LEMMA FreshExists ==
  ASSUME TypeOK
  PROVE  Fresh \in Gens \ Held /\ Fresh > 0
<1>1. PICK n \in Nat : n = 4 * Cardinality(Files)
  BY StoreSyncAssumption, FS_CardinalityType
<1> DEFINE Free == {g \in 1 .. n + 1 : g \notin Held}
<1>2. Free # {}
  BY <1>1, HeldIsSmall, RoomAbove
<1>3. PICK g \in Free : \A h \in Free : g <= h
  <2>1. Free \in SUBSET Nat
    OBVIOUS
  <2> HIDE DEF Free
  <2> QED BY <1>2, <2>1, LeastMember
<1>4. g \in Gens \ Held /\ g > 0 /\ \A h \in 1 .. g - 1 : h \in Held
  BY <1>1, <1>3 DEF Gens
<1>5. \E x \in Gens \ Held : x > 0 /\ \A h \in 1 .. x - 1 : h \in Held
  BY <1>4
<1> QED BY <1>5 DEF Fresh

\* Nobody who held a generation holds the new one.
LEMMA FreshIsNew ==
  ASSUME TypeOK
  PROVE  /\ Fresh \in Gens \ {0}
         /\ Fresh # NoGen
         /\ \A f \in Files : /\ Fresh # GenOf(f)
                             /\ manifest[f] # Null => manifest[f].gen # Fresh
                             /\ pass.next[f] # Null => pass.next[f].gen # Fresh
                             /\ pass.cache # Null => pass.cache[f] # Fresh
<1>1. Fresh \in Gens /\ Fresh \notin Held /\ Fresh > 0
  BY FreshExists
<1>2. Gens \subseteq Nat
  BY StoreSyncAssumption, FS_CardinalityType DEF Gens
<1>3. Fresh \in Gens \ {0} /\ Fresh # NoGen
  BY <1>1, <1>2 DEF NoGen
<1>4. ASSUME NEW f \in Files
      PROVE  /\ Fresh # GenOf(f)
             /\ manifest[f] # Null => manifest[f].gen # Fresh
             /\ pass.next[f] # Null => pass.next[f].gen # Fresh
             /\ pass.cache # Null => pass.cache[f] # Fresh
  <2> HIDE DEF Fresh
  <2>1. GenOf(f) \in Held
    BY DEF Held
  <2>2. manifest[f] # Null => manifest[f].gen \in Held
    BY DEF Held
  <2>3. pass.next[f] # Null => pass.next[f].gen \in Held
    BY DEF Held
  <2>4. pass.cache # Null => pass.cache[f] \in Held
    BY DEF Held
  <2> QED BY <1>1, <2>1, <2>2, <2>3, <2>4
<1> QED BY <1>3, <1>4

-----------------------------------------------------------------------------
(* The passes a step leads to, field by field.                             *)

LEMMA TodoIs ==
  ASSUME TypeOK, NEW f \in Files, NEW e \in Entries \cup {Null}
  PROVE  /\ Todo(f, e) \in PassType
         /\ Todo(f, e).pc = "scan"
         /\ Todo(f, e).todo = pass.todo \ {f}
         /\ Todo(f, e).cache = pass.cache
         /\ \A g \in Files : Todo(f, e).next[g] = IF g = f THEN e ELSE pass.next[g]
<1>1. PICK p, n : p = pass /\ n = [p.next EXCEPT ![f] = e]
  OBVIOUS
<1>2. Todo(f, e) = [p EXCEPT !.pc = "scan", !.file = Null, !.hash = Null,
                            !.mine = Null, !.todo = p.todo \ {f}, !.next = n]
  BY <1>1 DEF Todo, TypeOK, PassType
<1>3. p \in PassType
  BY <1>1 DEF TypeOK
<1>4. /\ n \in [Files -> Entries \cup {Null}]
      /\ \A g \in Files : n[g] = IF g = f THEN e ELSE p.next[g]
  <2>1. p.next \in [Files -> Entries \cup {Null}]
    BY <1>3 DEF PassType
  <2> QED BY <1>1, <2>1
<1>5. PICK q, todo : q = Todo(f, e) /\ todo = p.todo \ {f}
  OBVIOUS
<1>6. q = [p EXCEPT !.pc = "scan", !.file = Null, !.hash = Null, !.mine = Null,
                    !.todo = todo, !.next = n]
  BY <1>2, <1>5
<1>7. /\ q.pc = "scan" /\ q.todo = todo /\ q.next = n /\ q.cache = p.cache
  BY <1>3, <1>6 DEF PassType
<1>8. q \in PassType
  <2>1. todo \in SUBSET Files
    BY <1>3, <1>5 DEF PassType
  <2> QED BY <1>3, <1>4, <1>6, <2>1 DEF PassType
<1> QED BY <1>1, <1>4, <1>5, <1>7, <1>8

LEMMA DroppedIs ==
  ASSUME TypeOK, NEW f \in Files
  PROVE  /\ Dropped(f) \in PassType
         /\ Dropped(f).pc = "drop"
         /\ Dropped(f).todo = pass.todo \cup {f}
         /\ Dropped(f).cache = pass.cache
         /\ Dropped(f).next = pass.next
BY DEF Dropped, TypeOK, PassType

LEMMA IdleIs ==
  /\ Idle \in PassType
  /\ Idle.pc = "idle" /\ Idle.todo = {} /\ Idle.cache = Null
  /\ \A f \in Files : Idle.next[f] = Null
BY DEF Idle, PassType

LEMMA StartIs ==
  /\ StartPass \in PassType
  /\ StartPass.pc = "scan" /\ StartPass.cache = Null
  /\ StartPass.todo = {f \in Files : local[f] # Null}
  /\ \A f \in Files : StartPass.next[f] = Null
BY DEF StartPass, Idle, PassType

-----------------------------------------------------------------------------
(* The types.                                                              *)

\* An edit makes a body.
LEMMA EditedType ==
  ASSUME NEW f, NEW old \in Bodies \cup {Null}, NEW n \in 0 .. MaxEdits + MaxForeign
  PROVE  Edited(f, old, n) \in Bodies
BY DEF Edited, Bodies

\* The variables a pass does not decide on, and what the others become.
LEMMA TypeByPass ==
  ASSUME TypeOK, NEW q \in PassType, RequestType(q)', pass' = q,
         local' \in [Files -> Bodies \cup {Null}],
         remote' \in [Files -> Objects \cup {Null}],
         clean' \subseteq Files,
         \/ owed' = owed
         \/ \E f \in Files : Settles(f),
         seen' \subseteq 0 .. MaxEdits + MaxForeign,
         UNCHANGED <<owner, manifest, rerun, stopping, fenced, final, tries, flush,
                     edits, foreign>>,
         faults' \in 0 .. MaxFaults
  PROVE  TypeOK'
<1>1. owed' \in [{"flush", "final"} -> SUBSET Files]
  BY DEF TypeOK, Settles
<1> QED BY <1>1 DEF TypeOK

\* A fault is within its bound.
LEMMA FaultType ==
  ASSUME TypeOK, Fault
  PROVE  faults' \in 0 .. MaxFaults /\ UNCHANGED <<edits, foreign>>
BY StoreSyncAssumption DEF Fault, TypeOK

\* A pass that fails, or is fenced.
LEMMA TypeWhenIdle ==
  ASSUME TypeOK, Fails \/ Fenced,
         remote' \in [Files -> Objects \cup {Null}], clean' \subseteq Files,
         owed' = owed \/ \E f \in Files : Settles(f),
         UNCHANGED <<local, owner, seen, edits, foreign>>, faults' \in 0 .. MaxFaults
  PROVE  TypeOK'
<1>1. owed' \in [{"flush", "final"} -> SUBSET Files]
  BY DEF TypeOK, Settles
<1>2. pass' = Idle
  BY DEF Fails, Fenced
<1>3. pass' \in PassType /\ RequestType(pass)'
  BY <1>2, IdleIs DEF RequestType
<1>4. /\ manifest' = manifest
      /\ {owner', rerun', stopping', fenced'} \subseteq BOOLEAN
      /\ final' \in {"no", "waits", "runs", "done", "failed", "cut"}
      /\ tries' \in 0..2
      /\ flush' \in {"none", "waits", "done", "failed", "cut"}
  <2>1. CASE Fails
    BY <2>1 DEF Fails, TypeOK
  <2>2. CASE Fenced
    BY <2>2 DEF Fenced, TypeOK
  <2> QED BY <2>1, <2>2
<1> QED BY <1>1, <1>3, <1>4 DEF TypeOK

\* A file that is stored, and an object that is removed.
LEMMA StoresType ==
  ASSUME TypeOK, NEW f \in Files, Stores(f), local[f] # Null
  PROVE  remote' \in [Files -> Objects \cup {Null}] /\ clean' \subseteq Files
<1>1. PICK g \in Gens \ {0} : g = Fresh
  BY FreshIsNew
<1>2. [body |-> local[f], gen |-> g] \in Objects
  BY <1>1 DEF Objects, TypeOK
<1> QED BY <1>1, <1>2 DEF Stores, TypeOK

LEMMA RemovesType ==
  ASSUME TypeOK, NEW f \in Files, Removes(f)
  PROVE  /\ remote' \in [Files -> Objects \cup {Null}] /\ clean' \subseteq Files
         /\ owed' = owed
BY DEF Removes, TypeOK

\* The generations of one moment.
LEMMA CacheType ==
  ASSUME TypeOK
  PROVE  [g \in Files |-> GenOf(g)] \in [Files -> Gens]
<1>1. \A g \in Files : GenOf(g) \in Gens
  BY StoreSyncAssumption, FS_CardinalityType DEF GenOf, TypeOK, Objects, Gens
<1> QED BY <1>1

\* The pass as a request goes on to another: a change of phase, body or cache.
LEMMA RequestGoesOn ==
  ASSUME NEW p \in PassType, NEW pc, NEW hash, NEW mine, NEW cache, NEW q,
         q = [p EXCEPT !.pc = pc, !.hash = hash, !.mine = mine, !.cache = cache]
  PROVE  /\ q.pc = pc /\ q.file = p.file /\ q.hash = hash /\ q.mine = mine
         /\ q.todo = p.todo /\ q.next = p.next /\ q.cache = cache
         /\ pc \in {"idle", "scan", "put", "merge", "mergeWrite", "reput", "drop", "redrop"}
            /\ hash \in Bodies \cup {Null} /\ mine \in Bodies \cup {Null}
            /\ cache \in [Files -> Gens] \cup {Null}
            => q \in PassType
BY DEF PassType

\* A file is done with.
LEMMA TypeTodo ==
  ASSUME TypeOK, NEW f \in Files, NEW e \in Entries \cup {Null}, pass' = Todo(f, e),
         Unpass, remote' \in [Files -> Objects \cup {Null}], clean' \subseteq Files,
         owed' = owed \/ Settles(f),
         UNCHANGED <<edits, foreign>>, faults' \in 0 .. MaxFaults
  PROVE  TypeOK'
<1>1. PICK q : q = Todo(f, e)
  OBVIOUS
<1>2. q \in PassType /\ RequestType(q)'
  BY <1>1, TodoIs DEF RequestType
<1> QED BY <1>1, <1>2, TypeByPass DEF Unpass, TypeOK

\* An object is dealt with.
LEMMA TypeDropped ==
  ASSUME TypeOK, NEW f \in Files, pass' = Dropped(f),
         Unpass, remote' \in [Files -> Objects \cup {Null}], clean' \subseteq Files,
         UNCHANGED <<owed, edits, foreign, faults>>
  PROVE  TypeOK'
<1>1. PICK q : q = Dropped(f)
  OBVIOUS
<1>2. q \in PassType /\ RequestType(q)'
  BY <1>1, DroppedIs DEF RequestType
<1>3. faults' \in 0 .. MaxFaults
  BY DEF TypeOK
<1> QED BY <1>1, <1>2, <1>3, TypeByPass DEF Unpass, TypeOK

\* The request under way goes on, and only the pass changes.
LEMMA TypeRequest ==
  ASSUME TypeOK, NEW q \in PassType, pass' = q, RequestType(q),
         Unpass, UNCHANGED <<remote, clean, owed, bounds>>
  PROVE  TypeOK'
<1>1. RequestType(q)'
  BY DEF RequestType, Unpass
<1>2. faults' \in 0 .. MaxFaults /\ UNCHANGED <<edits, foreign>>
  BY DEF bounds, TypeOK
<1> QED BY <1>1, <1>2, TypeByPass DEF Unpass, TypeOK

LEMMA TypeRefused == ASSUME TypeOK, Refused PROVE TypeOK'
<1>1. Fenced /\ UNCHANGED <<local, remote, owner, clean, owed, seen, edits, foreign, faults>>
  BY DEF Refused, history, bounds
<1>2. /\ remote' \in [Files -> Objects \cup {Null}] /\ clean' \subseteq Files
      /\ faults' \in 0 .. MaxFaults
  BY <1>1 DEF TypeOK
<1> QED BY <1>1, <1>2, TypeWhenIdle

LEMMA TypeFailsBefore == ASSUME TypeOK, FailsBefore PROVE TypeOK'
<1>1. /\ Fault /\ Fails
      /\ UNCHANGED <<local, remote, owner, clean, owed, seen>>
  BY DEF FailsBefore, history
<1>2. /\ remote' \in [Files -> Objects \cup {Null}] /\ clean' \subseteq Files
  BY <1>1 DEF TypeOK
<1>3. faults' \in 0 .. MaxFaults /\ UNCHANGED <<edits, foreign>>
  BY <1>1, FaultType
<1> QED BY <1>1, <1>2, <1>3, TypeWhenIdle

LEMMA TypeAccepted ==
  ASSUME TypeOK, NEW f \in Files, NEW guard, PutAccepted(f, guard), pass.hash \in Bodies
  PROVE  TypeOK'
<1>1. PICK e : e = [hash |-> pass.hash, gen |-> Fresh]
  OBVIOUS
<1>2. e \in Entries
  BY <1>1, FreshIsNew DEF Entries
<1>3. /\ remote' \in [Files -> Objects \cup {Null}] /\ clean' \subseteq Files
  BY StoresType DEF PutAccepted
<1>4. /\ pass' = Todo(f, e) /\ Unpass /\ Settles(f)
      /\ UNCHANGED <<edits, foreign, faults>>
  BY <1>1 DEF PutAccepted, Stores, bounds
<1>5. faults' \in 0 .. MaxFaults
  BY <1>4 DEF TypeOK
<1> QED BY <1>2, <1>3, <1>4, <1>5, TypeTodo

LEMMA TypeUnanswered ==
  ASSUME TypeOK, NEW f \in Files, NEW guard, PutUnanswered(f, guard)
  PROVE  TypeOK'
<1>1. /\ remote' \in [Files -> Objects \cup {Null}] /\ clean' \subseteq Files
  BY StoresType DEF PutUnanswered
<1>2. /\ Fails /\ Settles(f) /\ UNCHANGED <<local, owner, seen>>
  BY DEF PutUnanswered, Stores
<1>3. faults' \in 0 .. MaxFaults /\ UNCHANGED <<edits, foreign>>
  BY FaultType DEF PutUnanswered
<1> QED BY <1>1, <1>2, <1>3, TypeWhenIdle

LEMMA TypeDropAccepted ==
  ASSUME TypeOK, NEW f \in Files, NEW guard, DropAccepted(f, guard)
  PROVE  TypeOK'
<1>1. remote' \in [Files -> Objects \cup {Null}] /\ clean' \subseteq Files /\ owed' = owed
  BY RemovesType DEF DropAccepted
<1>2. pass' = Dropped(f) /\ Unpass /\ UNCHANGED <<edits, foreign, faults>>
  BY DEF DropAccepted, bounds
<1> QED BY <1>1, <1>2, TypeDropped

LEMMA TypeDropUnanswered ==
  ASSUME TypeOK, NEW f \in Files, NEW guard, DropUnanswered(f, guard)
  PROVE  TypeOK'
<1>1. remote' \in [Files -> Objects \cup {Null}] /\ clean' \subseteq Files /\ owed' = owed
  BY RemovesType DEF DropUnanswered
<1>2. Fails /\ UNCHANGED <<local, owner, seen>>
  BY DEF DropUnanswered
<1>3. faults' \in 0 .. MaxFaults /\ UNCHANGED <<edits, foreign>>
  BY FaultType DEF DropUnanswered
<1> QED BY <1>1, <1>2, <1>3, TypeWhenIdle

LEMMA TypeHash == ASSUME TypeOK, NEW f \in Files, Hash(f) PROVE TypeOK'
<1>1. /\ Unpass /\ remote' = remote /\ clean' = clean
      /\ owed' = owed \/ Settles(f)
      /\ UNCHANGED <<edits, foreign, faults>>
  BY DEF Hash, bounds
<1>2. /\ remote' \in [Files -> Objects \cup {Null}] /\ clean' \subseteq Files
      /\ faults' \in 0 .. MaxFaults
  BY <1>1 DEF TypeOK
<1>3. CASE pass' = Todo(f, Null) \/ pass' = Todo(f, manifest[f])
  <2>1. PICK e \in Entries \cup {Null} : pass' = Todo(f, e)
    BY <1>3 DEF TypeOK
  <2> QED BY <1>1, <1>2, <2>1, TypeTodo
<1>4. CASE local[f] # Null /\ pass' = [pass EXCEPT !.pc = "put", !.file = f, !.hash = local[f]]
  <2>1. PICK p, hash, q : p = pass /\ hash = local[f]
                          /\ q = [p EXCEPT !.pc = "put", !.file = f, !.hash = hash]
    OBVIOUS
  <2>2. p \in PassType /\ hash \in Bodies
    BY <1>4, <2>1 DEF TypeOK
  <2>3. q.pc = "put" /\ q.file = f /\ q.hash = hash
    BY <2>1, <2>2 DEF PassType
  <2>4. q \in PassType
    BY <2>1, <2>2 DEF PassType
  <2>5. RequestType(q)'
    BY <2>2, <2>3 DEF RequestType
  <2> QED BY <1>1, <1>2, <1>4, <2>1, <2>4, <2>5, TypeByPass DEF Unpass, TypeOK
<1> QED BY <1>3, <1>4 DEF Hash

LEMMA TypeVanishes == ASSUME TypeOK, NEW f \in Files, PutVanishes(f) PROVE TypeOK'
<1>1. /\ pass' = Todo(f, Null) /\ Unpass
      /\ UNCHANGED <<remote, clean, owed, edits, foreign, faults>>
  BY DEF PutVanishes, bounds
<1>2. /\ remote' \in [Files -> Objects \cup {Null}] /\ clean' \subseteq Files
      /\ faults' \in 0 .. MaxFaults
  BY <1>1 DEF TypeOK
<1> QED BY <1>1, <1>2, TypeTodo

LEMMA TypeTooLarge ==
  ASSUME TypeOK, NEW f \in Files, PutTooLarge(f), pass.hash \in Bodies PROVE TypeOK'
<1>1. PICK e : e = [hash |-> pass.hash, gen |-> NoGen]
  OBVIOUS
<1>2. e \in Entries
  BY <1>1 DEF Entries
<1>3. pass' = Todo(f, e) /\ Unpass /\ Settles(f) /\ UNCHANGED <<remote, clean>>
  BY <1>1 DEF PutTooLarge
<1>4. faults' \in 0 .. MaxFaults /\ UNCHANGED <<edits, foreign>>
  BY FaultType DEF PutTooLarge
<1>5. remote' \in [Files -> Objects \cup {Null}] /\ clean' \subseteq Files
  BY <1>3 DEF TypeOK
<1> QED BY <1>2, <1>3, <1>4, <1>5, TypeTodo

\* A conflict: refresh() is called once in a pass.
Conflicted(p, pc, file, q) ==
  \/ q = [p EXCEPT !.pc = pc, !.file = file,
                   !.cache = IF @ = Null THEN [g \in Files |-> GenOf(g)] ELSE @]
  \/ /\ file = p.file
     /\ q = [p EXCEPT !.pc = pc,
                      !.cache = IF @ = Null THEN [g \in Files |-> GenOf(g)] ELSE @]

LEMMA ConflictIs ==
  ASSUME TypeOK, NEW p, p = pass, NEW pc, NEW file, NEW q, Conflicted(p, pc, file, q)
  PROVE  /\ q.pc = pc /\ q.file = file /\ q.hash = p.hash /\ q.mine = p.mine
         /\ q.todo = p.todo /\ q.next = p.next
         /\ q.cache \in [Files -> Gens]
         /\ \A f \in Files : \/ q.cache[f] = GenOf(f)
                             \/ p.cache # Null /\ q.cache[f] = p.cache[f]
         /\ pc \in {"merge", "reput", "redrop"} /\ file \in Files => q \in PassType
<1>1. p \in PassType
  BY DEF TypeOK
<1>2. PICK now, cache : /\ now = [g \in Files |-> GenOf(g)]
                        /\ cache = IF p.cache = Null THEN now ELSE p.cache
  OBVIOUS
<1>3. cache \in [Files -> Gens]
  BY <1>1, <1>2, CacheType DEF PassType
<1>4. \/ q = [p EXCEPT !.pc = pc, !.file = file, !.cache = cache]
      \/ file = p.file /\ q = [p EXCEPT !.pc = pc, !.cache = cache]
  BY <1>1, <1>2 DEF Conflicted, PassType
<1>5. /\ q.pc = pc /\ q.file = file /\ q.hash = p.hash /\ q.mine = p.mine
      /\ q.todo = p.todo /\ q.next = p.next /\ q.cache = cache
  BY <1>1, <1>4 DEF PassType
<1>6. pc \in {"merge", "reput", "redrop"} /\ file \in Files => q \in PassType
  BY <1>1, <1>3, <1>4 DEF PassType
<1>7. \A f \in Files : \/ cache[f] = GenOf(f)
                       \/ p.cache # Null /\ cache[f] = p.cache[f]
  BY <1>2
<1> QED BY <1>3, <1>5, <1>6, <1>7

LEMMA TypePutConflicts ==
  ASSUME TypeOK, NEW f \in Files, pass.pc = "put", pass.file = f, PutConflicts(f)
  PROVE  TypeOK'
<1>1. PICK p, pc, q :
        /\ p = pass /\ pc = IF f \in Docs THEN "merge" ELSE "reput"
        /\ q = [p EXCEPT !.pc = pc,
                         !.cache = IF @ = Null THEN [g \in Files |-> GenOf(g)] ELSE @]
  OBVIOUS
<1>2. pass' = q
  BY <1>1 DEF PutConflicts
<1>3. p \in PassType /\ p.file = f /\ p.hash \in Bodies
  BY <1>1 DEF TypeOK, RequestType
<1>4. Conflicted(p, pc, f, q)
  BY <1>1, <1>3 DEF Conflicted
<1>5. /\ q.pc = pc /\ q.file = f /\ q.hash = p.hash
      /\ q.cache \in [Files -> Gens] /\ q \in PassType
  <2>1. pc \in {"merge", "reput"} /\ p = pass
    BY <1>1
  <2> QED BY <1>4, <2>1, ConflictIs
<1>6. RequestType(q)
  BY <1>1, <1>3, <1>5 DEF RequestType
<1> QED BY <1>5, <1>6, <1>2, TypeRequest DEF PutConflicts

LEMMA TypePut == ASSUME TypeOK, NEW f \in Files, Put(f) PROVE TypeOK'
<1>1. pass.pc = "put" /\ pass.file = f /\ pass.hash \in Bodies
  BY DEF Put, TypeOK, RequestType
<1> QED BY <1>1, TypeVanishes, TypeAccepted, TypeUnanswered, TypeTooLarge,
           TypePutConflicts, TypeRefused, TypeFailsBefore DEF Put

LEMMA TypeMergeRead == ASSUME TypeOK, NEW f \in Files, MergeRead(f) PROVE TypeOK'
<1>1. /\ Unpass /\ UNCHANGED <<remote, clean, owed, bounds>>
      /\ pass.pc = "merge" /\ pass.file = f
  BY DEF MergeRead
<1>2. CASE pass' = Todo(f, Null)
  <2>1. /\ remote' \in [Files -> Objects \cup {Null}] /\ clean' \subseteq Files
        /\ faults' \in 0 .. MaxFaults /\ UNCHANGED <<edits, foreign, owed>>
    BY <1>1 DEF TypeOK, bounds
  <2> QED BY <1>1, <1>2, <2>1, TypeTodo
<1>3. CASE /\ local[f] # Null
           /\ pass' = [pass EXCEPT !.pc = "mergeWrite", !.mine = local[f]]
  <2>1. PICK p, mine, q : /\ p = pass /\ mine = local[f]
                          /\ q = [p EXCEPT !.pc = "mergeWrite", !.mine = mine]
    OBVIOUS
  <2>2. /\ p \in PassType /\ p.file = f /\ p.cache \in [Files -> Gens]
        /\ mine \in Bodies
    BY <1>1, <1>3, <2>1 DEF TypeOK, RequestType
  <2>3. /\ q.pc = "mergeWrite" /\ q.file = f /\ q.mine = mine /\ q.cache = p.cache
    BY <2>1, <2>2 DEF PassType
  <2>4. q \in PassType
    BY <2>1, <2>2 DEF PassType
  <2>5. RequestType(q)
    BY <2>2, <2>3 DEF RequestType
  <2>6. pass' = q
    BY <1>3, <2>1
  <2> QED BY <1>1, <2>4, <2>5, <2>6, TypeRequest
<1> QED BY <1>2, <1>3 DEF MergeRead

\* The merged document, and the pass that goes on to upload it.
Merges(f, p, merged, q) ==
  /\ p = pass
  /\ merged = p.mine \cup remote[f].body
  /\ q = [p EXCEPT !.pc = "reput", !.hash = merged, !.mine = Null]

LEMMA MergedIs ==
  ASSUME TypeOK, NEW f \in Files, pass.pc = "mergeWrite", pass.file = f,
         remote[f] # Null, NEW p, NEW merged, NEW q, Merges(f, p, merged, q)
  PROVE  /\ merged \in Bodies /\ q \in PassType
         /\ q.pc = "reput" /\ q.file = f /\ q.hash = merged
         /\ q.todo = p.todo /\ q.next = p.next /\ q.cache = p.cache
         /\ q.cache \in [Files -> Gens]
<1>1. /\ p \in PassType /\ p.file = f /\ p.mine \in Bodies /\ p.cache \in [Files -> Gens]
  BY DEF Merges, TypeOK, RequestType
<1>2. merged \in Bodies
  <2>1. remote[f].body \in Bodies
    BY DEF TypeOK, Objects
  <2> QED BY <1>1, <2>1 DEF Merges, Bodies
<1>3. /\ q.pc = "reput" /\ q.file = f /\ q.hash = merged
      /\ q.todo = p.todo /\ q.next = p.next /\ q.cache = p.cache
  BY <1>1 DEF Merges, PassType
<1>4. q \in PassType
  BY <1>1, <1>2 DEF Merges, PassType
<1> QED BY <1>1, <1>2, <1>3, <1>4

LEMMA TypeMergeWrite == ASSUME TypeOK, NEW f \in Files, MergeWrite(f) PROVE TypeOK'
<1>1. CASE FailsBefore
  BY <1>1, TypeFailsBefore
<1>2. CASE /\ Fails /\ UNCHANGED <<local, remote, owner, history, bounds>>
  <2>1. /\ UNCHANGED <<local, owner, owed, seen, edits, foreign>>
        /\ remote' \in [Files -> Objects \cup {Null}] /\ clean' \subseteq Files
        /\ faults' \in 0 .. MaxFaults
    BY <1>2 DEF TypeOK, bounds, history
  <2> QED BY <1>2, <2>1, TypeWhenIdle
<1>3. CASE Mergeables(f, pass.mine) /\ ~ FailsBefore
  <2>0. remote[f] # Null
    BY <1>3 DEF Mergeables
  <2>1. PICK p, merged, q : Merges(f, p, merged, q)
    BY DEF Merges
  <2>2. /\ pass.pc = "mergeWrite" /\ pass.file = f
        /\ pass' = q /\ local' = [local EXCEPT ![f] = merged]
        /\ clean' = clean \ {f}
        /\ seen' = seen \cup (remote[f].body \ 0 .. MaxEdits)
        /\ UNCHANGED <<remote, owner, manifest, rerun, stopping, fenced,
                       final, tries, flush, owed, edits, foreign, faults>>
    BY <1>3, <2>1 DEF Merges, MergeWrite, bounds
  <2>3. /\ merged \in Bodies /\ q \in PassType
        /\ q.pc = "reput" /\ q.file = f /\ q.hash = merged
        /\ q.cache \in [Files -> Gens]
    BY <2>0, <2>1, <2>2, MergedIs
  <2>4. RequestType(q)'
    BY <2>3 DEF RequestType
  <2>5. local' \in [Files -> Bodies \cup {Null}]
    BY <2>2, <2>3 DEF TypeOK
  <2>6. seen' \subseteq 0 .. MaxEdits + MaxForeign
    BY <2>0, <2>2 DEF TypeOK, Objects, Bodies
  <2>7. /\ remote' \in [Files -> Objects \cup {Null}] /\ clean' \subseteq Files
        /\ faults' \in 0 .. MaxFaults
    BY <2>2 DEF TypeOK
  <2> QED BY <2>2, <2>3, <2>4, <2>5, <2>6, <2>7, TypeByPass
<1> QED BY <1>1, <1>2, <1>3 DEF MergeWrite

\* What a conflict or the delete pass keeps of an old entry.
LEMMA OldEntryType ==
  ASSUME TypeOK, NEW f \in Files, manifest[f] # Null, NEW g \in Gens
  PROVE  [manifest[f] EXCEPT !.gen = g] \in Entries
<1>1. PICK e : e = manifest[f]
  OBVIOUS
<1>2. e \in Entries
  BY <1>1 DEF TypeOK
<1> QED BY <1>1, <1>2 DEF Entries

LEMMA TypeReputConflicts ==
  ASSUME TypeOK, NEW f \in Files, ReputConflicts(f), pass.cache \in [Files -> Gens]
  PROVE  TypeOK'
<1>1. PICK e : e = IF manifest[f] = Null THEN Null
                   ELSE [manifest[f] EXCEPT !.gen = RetryGuard(f)]
  OBVIOUS
<1>2. e \in Entries \cup {Null}
  BY <1>1, OldEntryType DEF RetryGuard
<1>3. /\ pass' = Todo(f, e) /\ Unpass /\ Settles(f)
      /\ UNCHANGED <<remote, clean, edits, foreign, faults>>
  BY <1>1 DEF ReputConflicts, bounds
<1>4. /\ remote' \in [Files -> Objects \cup {Null}] /\ clean' \subseteq Files
      /\ faults' \in 0 .. MaxFaults
  BY <1>3 DEF TypeOK
<1> QED BY <1>2, <1>3, <1>4, TypeTodo

LEMMA TypeReput == ASSUME TypeOK, NEW f \in Files, Reput(f) PROVE TypeOK'
<1>1. pass.hash \in Bodies /\ pass.cache \in [Files -> Gens]
  BY DEF Reput, TypeOK, RequestType
<1> QED BY <1>1, TypeVanishes, TypeAccepted, TypeUnanswered, TypeReputConflicts,
           TypeRefused, TypeFailsBefore DEF Reput

LEMMA TypeDropPass == ASSUME TypeOK, DropPass PROVE TypeOK'
<1>1. PICK p, q : p = pass /\ q = [p EXCEPT !.pc = "drop"]
  OBVIOUS
<1>2. p \in PassType
  BY <1>1 DEF TypeOK
<1>3. q.pc = "drop" /\ q \in PassType
  BY <1>1, <1>2 DEF PassType
<1>4. RequestType(q)
  BY <1>3 DEF RequestType
<1> QED BY <1>1, <1>3, <1>4, TypeRequest DEF DropPass

LEMMA TypeDropConflicts ==
  ASSUME TypeOK, NEW f \in Gone, DropConflicts(f)
  PROVE  TypeOK'
<1>1. PICK p, q :
        /\ p = pass
        /\ q = [p EXCEPT !.pc = "redrop", !.file = f,
                         !.cache = IF @ = Null THEN [g \in Files |-> GenOf(g)] ELSE @]
  OBVIOUS
<1>2. pass' = q
  BY <1>1 DEF DropConflicts
<1>3. Conflicted(p, "redrop", f, q)
  BY <1>1 DEF Conflicted
<1>4. f \in Files /\ manifest[f] # Null /\ p = pass
  BY <1>1 DEF Gone
<1>5. q.pc = "redrop" /\ q.file = f /\ q.cache \in [Files -> Gens] /\ q \in PassType
  BY <1>3, <1>4, ConflictIs
<1>6. RequestType(q)
  BY <1>4, <1>5 DEF RequestType
<1> QED BY <1>2, <1>5, <1>6, TypeRequest DEF DropConflicts

LEMMA TypeDrop == ASSUME TypeOK, NEW f \in Files, Drop(f) PROVE TypeOK'
BY TypeDropAccepted, TypeDropUnanswered, TypeDropConflicts, TypeRefused,
   TypeFailsBefore DEF Drop

\* The delete pass keeps the old entry of an object that has changed meanwhile.
Keeps(f, e, q) ==
  /\ e = [manifest[f] EXCEPT !.gen = RetryGuard(f)]
  /\ q = [Dropped(f) EXCEPT !.next[f] = e]

LEMMA RedroppedIs ==
  ASSUME TypeOK, NEW f \in Files, manifest[f] # Null, pass.cache \in [Files -> Gens],
         NEW e, NEW q, Keeps(f, e, q)
  PROVE  /\ q \in PassType /\ q.pc = "drop" /\ q.todo = pass.todo \cup {f}
         /\ q.cache = pass.cache
         /\ \A g \in Files : q.next[g] = IF g = f THEN e ELSE pass.next[g]
<1>1. PICK d, n : d = Dropped(f) /\ n = [d.next EXCEPT ![f] = e]
  OBVIOUS
<1>2. /\ d \in PassType /\ d.pc = "drop" /\ d.todo = pass.todo \cup {f}
      /\ d.cache = pass.cache /\ d.next = pass.next
  BY <1>1, DroppedIs
<1>3. e \in Entries
  BY OldEntryType DEF RetryGuard, Keeps
<1>4. d.next \in [Files -> Entries \cup {Null}]
  BY <1>2 DEF PassType
<1>5. /\ n \in [Files -> Entries \cup {Null}]
      /\ \A g \in Files : n[g] = IF g = f THEN e ELSE d.next[g]
  BY <1>1, <1>3, <1>4
<1>6. q = [d EXCEPT !.next = n]
  BY <1>1, <1>2 DEF PassType, Keeps
<1>7. q.pc = d.pc /\ q.todo = d.todo /\ q.cache = d.cache /\ q.next = n
  BY <1>2, <1>6 DEF PassType
<1>8. q \in PassType
  BY <1>2, <1>5, <1>6 DEF PassType
<1> QED BY <1>2, <1>5, <1>7, <1>8

LEMMA TypeRedrop == ASSUME TypeOK, NEW f \in Files, Redrop(f) PROVE TypeOK'
<1>1. manifest[f] # Null /\ pass.cache \in [Files -> Gens]
  BY DEF Redrop, TypeOK, RequestType
<1>2. CASE RedropNothing(f)
  <2>1. /\ pass' = Dropped(f) /\ Unpass
        /\ UNCHANGED <<remote, clean, owed, edits, foreign, faults>>
    BY <1>2 DEF RedropNothing, bounds
  <2>2. remote' \in [Files -> Objects \cup {Null}] /\ clean' \subseteq Files
    BY <2>1 DEF TypeOK
  <2> QED BY <2>1, <2>2, TypeDropped
<1>3. CASE RedropConflicts(f)
  <2>1. PICK e, q : Keeps(f, e, q)
    BY DEF Keeps
  <2>2. pass' = q /\ Unpass /\ UNCHANGED <<remote, clean, owed, bounds>>
    BY <1>3, <2>1 DEF RedropConflicts, Keeps
  <2>3. q \in PassType /\ q.pc = "drop"
    BY <1>1, <2>1, RedroppedIs
  <2>4. RequestType(q)
    BY <2>3 DEF RequestType
  <2> QED BY <2>2, <2>3, <2>4, TypeRequest
<1>4. CASE \/ DropAccepted(f, RetryGuard(f)) \/ DropUnanswered(f, RetryGuard(f))
           \/ Refused \/ FailsBefore
  BY <1>4, TypeDropAccepted, TypeDropUnanswered, TypeRefused, TypeFailsBefore
<1> QED BY <1>2, <1>3, <1>4 DEF Redrop

LEMMA TypeEndPass == ASSUME TypeOK, EndPass PROVE TypeOK'
<1>1. pass' \in PassType /\ RequestType(pass)'
  <2>1. pass' = Idle \/ pass' = StartPass
    BY DEF EndPass
  <2> QED BY <2>1, IdleIs, StartIs DEF RequestType
<1>2. manifest' \in [Files -> Entries \cup {Null}]
  BY DEF EndPass, TypeOK, PassType
<1>3. /\ rerun' \in BOOLEAN
      /\ flush' \in {"none", "waits", "done", "failed", "cut"}
      /\ final' \in {"no", "waits", "runs", "done", "failed", "cut"}
  BY DEF EndPass, TypeOK, Again
<1> QED BY <1>1, <1>2, <1>3 DEF EndPass, TypeOK, history, bounds

LEMMA TypeDaemon ==
  ASSUME TypeOK, Tick \/ Flush \/ Stop \/ FinalSync PROVE TypeOK'
<1>1. /\ UNCHANGED <<local, remote, owner, manifest, fenced, tries, clean, seen,
                     edits, foreign, faults>>
      /\ pass' = pass \/ pass' = StartPass
  BY DEF Tick, Flush, Stop, FinalSync, RequestSync, history, bounds
<1>2. pass' \in PassType /\ RequestType(pass)'
  <2>1. CASE pass' = pass
    BY <1>1, <2>1 DEF TypeOK, RequestType
  <2>2. CASE pass' = StartPass
    BY <2>2, StartIs DEF RequestType
  <2> QED BY <1>1, <2>1, <2>2
<1>3. Unstored \subseteq Files
  BY DEF Unstored
<1>4. owed' \in [{"flush", "final"} -> SUBSET Files]
  BY <1>3 DEF TypeOK, Tick, Flush, Stop, FinalSync, history
<1>5. /\ rerun' \in BOOLEAN /\ stopping' \in BOOLEAN
      /\ flush' \in {"none", "waits", "done", "failed", "cut"}
      /\ final' \in {"no", "waits", "runs", "done", "failed", "cut"}
  BY DEF TypeOK, Tick, Flush, Stop, FinalSync, RequestSync
<1> QED BY <1>1, <1>2, <1>4, <1>5 DEF TypeOK

LEMMA TypeEdit ==
  ASSUME TypeOK, NEW f \in Files, Write(f) \/ Unlink(f) PROVE TypeOK'
<1>1. local' \in [Files -> Bodies \cup {Null}]
  <2>1. CASE Write(f)
    <3>1. edits + 1 \in 0 .. MaxEdits + MaxForeign
      BY <2>1, StoreSyncAssumption DEF Write, TypeOK
    <3>2. PICK new : new = Edited(f, local[f], edits + 1)
      OBVIOUS
    <3>3. new \in Bodies
      BY <3>1, <3>2, EditedType DEF TypeOK
    <3>4. local' = [local EXCEPT ![f] = new]
      BY <2>1, <3>2 DEF Write
    <3> QED BY <3>3, <3>4 DEF TypeOK
  <2>2. CASE Unlink(f)
    BY <2>2 DEF Unlink, TypeOK
  <2> QED BY <2>1, <2>2
<1>2. /\ edits' \in 0 .. MaxEdits /\ clean' \subseteq Files
  BY StoreSyncAssumption DEF Write, Unlink, TypeOK
<1>3. owed' \in [{"flush", "final"} -> SUBSET Files]
  BY DEF Write, Unlink, Settles, TypeOK
<1>4. UNCHANGED <<remote, owner, manifest, pass, rerun, stopping, fenced, final, tries,
                  flush, seen, foreign, faults>>
  BY DEF Write, Unlink, Unenv, daemon
<1> QED BY <1>1, <1>2, <1>3, <1>4 DEF TypeOK, RequestType

LEMMA TypeForeign ==
  ASSUME TypeOK, NEW f \in Files, ForeignWrite(f) \/ ForeignDelete(f) PROVE TypeOK'
<1>1. remote' \in [Files -> Objects \cup {Null}]
  <2>1. CASE ForeignWrite(f)
    <3>1. MaxEdits + foreign + 1 \in 0 .. MaxEdits + MaxForeign
      BY <2>1, StoreSyncAssumption DEF ForeignWrite, TypeOK
    <3>2. PICK old, n, new, g :
            /\ old = IF remote[f] = Null THEN Null ELSE remote[f].body
            /\ n = MaxEdits + foreign + 1
            /\ new = Edited(f, old, n) /\ g = Fresh
      OBVIOUS
    <3>3. old \in Bodies \cup {Null}
      BY <3>2 DEF TypeOK, Objects
    <3>4. new \in Bodies
      BY <3>1, <3>2, <3>3, EditedType
    <3>5. g \in Gens \ {0}
      BY <3>2, FreshIsNew
    <3>6. remote' = [remote EXCEPT ![f] = [body |-> new, gen |-> g]]
      BY <2>1, <3>2 DEF ForeignWrite
    <3> QED BY <3>4, <3>5, <3>6 DEF TypeOK, Objects
  <2>2. CASE ForeignDelete(f)
    BY <2>2 DEF ForeignDelete, TypeOK
  <2> QED BY <2>1, <2>2
<1>2. foreign' \in 0 .. MaxForeign
  BY StoreSyncAssumption DEF ForeignWrite, ForeignDelete, TypeOK
<1>3. UNCHANGED <<local, owner, manifest, pass, rerun, stopping, fenced, final, tries,
                  flush, clean, owed, seen, edits, faults>>
  BY DEF ForeignWrite, ForeignDelete, Unenv, daemon, history
<1> QED BY <1>1, <1>2, <1>3 DEF TypeOK, RequestType

LEMMA TypeStep == TypeOK /\ [Next]_vars => TypeOK'
<1> SUFFICES ASSUME TypeOK, [Next]_vars PROVE TypeOK'
  OBVIOUS
<1>1. CASE PassStep
  BY <1>1, TypeHash, TypePut, TypeMergeRead, TypeMergeWrite, TypeReput, TypeDrop,
     TypeRedrop, TypeDropPass, TypeEndPass DEF PassStep
<1>2. CASE Tick \/ Flush \/ Stop \/ FinalSync
  BY <1>2, TypeDaemon
<1>3. CASE Takeover \/ UNCHANGED vars
  <2>1. /\ owner' \in {FALSE, owner}
        /\ UNCHANGED <<local, remote, manifest, pass, rerun, stopping, fenced, final,
                       tries, flush, clean, owed, seen, edits, foreign, faults>>
    BY <1>3 DEF Takeover, vars, daemon, history, bounds
  <2> QED BY <2>1 DEF TypeOK, RequestType
<1>4. ASSUME NEW f \in Files,
             Write(f) \/ Unlink(f) \/ ForeignWrite(f) \/ ForeignDelete(f)
      PROVE  TypeOK'
  BY <1>4, TypeEdit, TypeForeign
<1> QED BY <1>1, <1>2, <1>3, <1>4 DEF Next

LEMMA TypeInit == Init => TypeOK
<1> SUFFICES ASSUME Init PROVE TypeOK
  OBVIOUS
<1>1. {0} \in Bodies /\ 1 \in Gens \ {0}
  BY StoreSyncAssumption, FS_CardinalityType DEF Bodies, Gens
<1>2. [body |-> {0}, gen |-> 1] \in Objects /\ [hash |-> {0}, gen |-> 1] \in Entries
  BY <1>1 DEF Objects, Entries
<1>3. pass \in PassType /\ RequestType(pass)
  BY IdleIs DEF Init, RequestType
<1>4. /\ local \in [Files -> Bodies \cup {Null}]
      /\ remote \in [Files -> Objects \cup {Null}]
      /\ manifest \in [Files -> Entries \cup {Null}]
      /\ clean \subseteq Files
  BY <1>1, <1>2 DEF Init
<1>5. /\ {owner, rerun, stopping, fenced} \subseteq BOOLEAN
      /\ final \in {"no", "waits", "runs", "done", "failed", "cut"}
      /\ tries \in 0..2
      /\ flush \in {"none", "waits", "done", "failed", "cut"}
      /\ owed \in [{"flush", "final"} -> SUBSET Files]
      /\ seen \subseteq 0 .. MaxEdits + MaxForeign
      /\ edits \in 0..MaxEdits /\ foreign \in 0..MaxForeign /\ faults \in 0..MaxFaults
  <2>1. /\ owner = TRUE /\ rerun = FALSE /\ stopping = FALSE /\ fenced = FALSE
        /\ final = "no" /\ tries = 2 /\ flush = "none" /\ seen = {}
        /\ edits = 0 /\ foreign = 0 /\ faults = 0
        /\ owed = [call \in {"flush", "final"} |-> {}]
    BY DEF Init
  <2>2. {owner, rerun, stopping, fenced} \subseteq BOOLEAN
    BY <2>1
  <2>3. owed \in [{"flush", "final"} -> SUBSET Files]
    BY <2>1
  <2> QED BY <2>1, <2>2, <2>3, StoreSyncAssumption
<1> QED BY <1>3, <1>4, <1>5 DEF TypeOK

\* The types of the sync, for any number of files, edits and faults.
THEOREM TypeCorrect == Spec => []TypeOK
BY TypeInit, TypeStep, PTL DEF Spec

-----------------------------------------------------------------------------
(* What the pod knows of the store.  A manifest entry, or one of the pass   *)
(* under way, stands for a body: either the file has something since that  *)
(* this body lacks, or the file is that body and the store has accepted it *)
(* (or refused it for its size).  And when the store still has the         *)
(* generation of the entry, the other writer's edits in the object were in *)
(* a file of the pod.                                                      *)

\* The edits made so far.
Known == 0 .. edits \cup (MaxEdits + 1) .. (MaxEdits + foreign)

Foreign(body) == body \ 0 .. MaxEdits

\* The file, if it is there, has an edit the hash lacks.
Moved(f, hash) == local[f] # Null => ~ (local[f] \subseteq hash)

\* What a write guarded by this generation can overwrite has been read.
Read(f, gen) ==
  remote[f] # Null /\ gen = remote[f].gen => Foreign(remote[f].body) \subseteq seen

EntryOK(f, e) ==
  /\ e.hash \subseteq Known
  /\ \/ Moved(f, e.hash)
     \/ local[f] = e.hash /\ (f \in clean \/ e.gen = NoGen)
  /\ f \in Docs => e.gen # NoGen /\ Read(f, e.gen)

FileOK(f) ==
  /\ local[f] # Null => /\ local[f] \subseteq Known
                        /\ f \in Docs => Foreign(local[f]) \subseteq seen
  /\ remote[f] # Null => remote[f].body \subseteq Known

Sending == {"put", "merge", "mergeWrite", "reput"}

\* The upload of a file: it differs from the manifest, and what its hash was
\* taken of it still is, unless the agent has edited it since.
SendOK(p, f) ==
  /\ f \in p.todo
  /\ manifest[f] # Null =>
       /\ Moved(f, manifest[f].hash)
       /\ p.pc # "put" => manifest[f].gen # NoGen
  /\ p.pc \in {"put", "reput"} =>
       p.hash \subseteq Known /\ (local[f] = p.hash \/ Moved(f, p.hash))
  /\ p.pc \in {"merge", "mergeWrite"} => f \in Docs
  /\ p.pc = "mergeWrite" =>
       /\ p.mine \subseteq Known /\ Foreign(p.mine) \subseteq seen
       /\ manifest[f] # Null => ~ (p.mine \subseteq manifest[f].hash)
  /\ p.pc = "reput" /\ f \in Docs => Read(f, p.cache[f])

PassOK(p) ==
  /\ \A f \in Files : p.next[f] # Null => EntryOK(f, p.next[f])
  /\ p.pc \in Sending \cup {"scan"} => \A f \in p.todo : p.next[f] = Null
  /\ p.pc \in Sending => SendOK(p, p.file)
  /\ p.pc = "redrop" => manifest[p.file].gen # NoGen

SyncInv ==
  /\ \A f \in Files : FileOK(f)
  /\ \A f \in Files : manifest[f] # Null => EntryOK(f, manifest[f])
  /\ PassOK(pass)

\* A step of the pass alone.
LEMMA PassGoesOn ==
  ASSUME SyncInv, NEW q, pass' = q, PassOK(q),
         UNCHANGED <<local, remote, manifest, clean, seen, edits, foreign>>
  PROVE  SyncInv'
<1>1. \A f, e : EntryOK(f, e)' <=> EntryOK(f, e)
  BY DEF EntryOK, Moved, Read, Known
<1>2. \A f : FileOK(f)' <=> FileOK(f)
  BY DEF FileOK, Known
<1>3. \A f : SendOK(q, f)' <=> SendOK(q, f)
  BY DEF SendOK, Moved, Read, Known
<1>4. PassOK(q)'
  BY <1>1, <1>3 DEF PassOK
<1>5. ASSUME NEW f \in Files, manifest[f] # Null PROVE EntryOK(f, manifest[f])'
  <2>1. PICK e : e = manifest[f]
    OBVIOUS
  <2>2. EntryOK(f, e)'
    BY <1>1, <1>5, <2>1 DEF SyncInv
  <2> QED BY <2>1, <2>2
<1>6. PassOK(pass)'
  BY <1>4
<1> QED BY <1>2, <1>5, <1>6 DEF SyncInv

\* An idle pass and one that starts know nothing yet.
LEMMA IdleOK == PassOK(Idle)
<1> HIDE DEF Idle
<1> QED BY IdleIs DEF PassOK, Sending

LEMMA StartOK == ASSUME NEW q, q = StartPass PROVE PassOK(q)
<1> HIDE DEF StartPass
<1> QED BY StartIs DEF PassOK, Sending

\* A pass that has put an entry for the file it was at goes on walking.
LEMMA TodoOK ==
  ASSUME TypeOK, PassOK(pass), NEW f \in Files, f \in pass.todo,
         pass.pc \in Sending \cup {"scan"},
         NEW e \in Entries \cup {Null}, e # Null => EntryOK(f, e),
         NEW q, q = Todo(f, e)
  PROVE  PassOK(q)
<1>1. /\ q.pc = "scan" /\ q.todo = pass.todo \ {f}
      /\ \A g \in Files : q.next[g] = IF g = f THEN e ELSE pass.next[g]
  BY TodoIs
<1>2. \A g \in Files : q.next[g] # Null => EntryOK(g, q.next[g])
  <2> SUFFICES ASSUME NEW g \in Files, q.next[g] # Null PROVE EntryOK(g, q.next[g])
    OBVIOUS
  <2>1. CASE g = f
    BY <1>1, <2>1
  <2>2. CASE g # f
    <3>1. q.next[g] = pass.next[g]
      BY <1>1, <2>2
    <3> QED BY <3>1 DEF PassOK
  <2> QED BY <2>1, <2>2
<1>3. \A g \in q.todo : q.next[g] = Null
  <2>1. pass.todo \subseteq Files
    BY DEF TypeOK, PassType
  <2> QED BY <1>1, <2>1 DEF PassOK
<1> QED BY <1>1, <1>2, <1>3 DEF PassOK, Sending

\* One that sends goes on sending.
LEMMA SendingOK ==
  ASSUME PassOK(pass), pass.pc \in Sending \cup {"scan"},
         NEW q, q.pc \in Sending, q.todo = pass.todo, q.next = pass.next,
         SendOK(q, q.file)
  PROVE  PassOK(q)
<1>1. \A f \in Files : q.next[f] # Null => EntryOK(f, q.next[f])
  BY DEF PassOK
<1>2. \A f \in q.todo : q.next[f] = Null
  BY DEF PassOK
<1> QED BY <1>1, <1>2 DEF PassOK, Sending

\* One that deletes has nothing to show but its entries.
LEMMA DroppingOK ==
  ASSUME NEW q, q.pc = "drop",
         \A f \in Files : q.next[f] # Null => EntryOK(f, q.next[f])
  PROVE  PassOK(q)
BY DEF PassOK, Sending

-----------------------------------------------------------------------------
(* What a step may do to the files and objects.                            *)

\* An object is replaced, with a new generation, or removed.
LEMMA ObjectChanges ==
  ASSUME TypeOK, NEW f \in Files, NEW object, NEW gen, gen = Fresh,
         object = Null \/ object.gen = gen,
         object # Null => (object.body \subseteq Known)',
         remote' = [remote EXCEPT ![f] = object],
         UNCHANGED <<local, edits, seen>>,
         foreign' = foreign \/ foreign' = foreign + 1, clean \subseteq clean'
  PROVE  /\ \A h : h \subseteq Known => (h \subseteq Known)'
         /\ \A g \in Files : FileOK(g) => FileOK(g)'
         /\ \A g \in Files : \A h : Moved(g, h)' <=> Moved(g, h)
         /\ \A g \in Files : \A n : n # gen /\ Read(g, n) => Read(g, n)'
         /\ \A g \in Files : \A e : e.gen # gen /\ EntryOK(g, e) => EntryOK(g, e)'
<1>1. \A g \in Files : remote'[g] = IF g = f THEN object ELSE remote[g]
  BY DEF TypeOK
<1>2. Known \subseteq Known'
  BY StoreSyncAssumption DEF Known, TypeOK
<1>3. \A h : h \subseteq Known => (h \subseteq Known)'
  BY <1>2
<1>4. ASSUME NEW g \in Files, FileOK(g) PROVE FileOK(g)'
  BY <1>1, <1>2, <1>4 DEF FileOK
<1>5. \A g, h : Moved(g, h)' <=> Moved(g, h)
  BY DEF Moved
<1>6. ASSUME NEW g \in Files, NEW n, n # gen, Read(g, n) PROVE Read(g, n)'
  BY <1>1, <1>6 DEF Read
<1>7. ASSUME NEW g \in Files, NEW e, e.gen # gen, EntryOK(g, e) PROVE EntryOK(g, e)'
  <2>1. (e.hash \subseteq Known)'
    BY <1>3, <1>7 DEF EntryOK
  <2>2. g \in Docs => (e.gen # NoGen /\ Read(g, e.gen))'
    BY <1>6, <1>7 DEF EntryOK
  <2>3. \/ Moved(g, e.hash)'
        \/ (local[g] = e.hash /\ (g \in clean \/ e.gen = NoGen))'
    BY <1>5, <1>7 DEF EntryOK
  <2> QED BY <2>1, <2>2, <2>3 DEF EntryOK
<1> QED BY <1>3, <1>4, <1>5, <1>6, <1>7

\* The agent edits or removes a file.
LEMMA FileChanges ==
  ASSUME TypeOK, NEW f \in Files, NEW body,
         \/ body = Null
         \/ /\ (body \subseteq Known)' /\ edits + 1 \in body
            /\ f \in Docs => Foreign(body) \subseteq seen,
         local' = [local EXCEPT ![f] = body], edits < MaxEdits, edits' = edits + 1,
         clean' = clean \ {f}, UNCHANGED <<remote, seen, foreign>>
  PROVE  /\ \A h : h \subseteq Known => (h \subseteq Known)'
         /\ \A g \in Files : FileOK(g) => FileOK(g)'
         /\ \A g \in Files : \A h : h \subseteq Known /\ Moved(g, h) => Moved(g, h)'
         /\ \A h : h \subseteq Known => Moved(f, h)'
         /\ \A g \in Files : g # f => local'[g] = local[g]
         /\ \A g, n : Read(g, n) => Read(g, n)'
         /\ \A g \in Files : \A e : EntryOK(g, e) => EntryOK(g, e)'
<1>1. \A g \in Files : local'[g] = IF g = f THEN body ELSE local[g]
  BY DEF TypeOK
<1>2. Known \subseteq Known' /\ edits + 1 \notin Known
  BY StoreSyncAssumption DEF Known, TypeOK
<1>3. \A h : h \subseteq Known => (h \subseteq Known)'
  BY <1>2
<1>4. ASSUME NEW g \in Files, FileOK(g) PROVE FileOK(g)'
  BY <1>1, <1>2, <1>4 DEF FileOK
<1>5. ASSUME NEW h, h \subseteq Known PROVE Moved(f, h)'
  BY <1>1, <1>2, <1>5 DEF Moved
<1>6. ASSUME NEW g \in Files, NEW h, h \subseteq Known, Moved(g, h) PROVE Moved(g, h)'
  BY <1>1, <1>5, <1>6 DEF Moved
<1>7. \A g, n : Read(g, n) => Read(g, n)'
  BY DEF Read
<1>8. ASSUME NEW g \in Files, NEW e, EntryOK(g, e) PROVE EntryOK(g, e)'
  <2>1. (e.hash \subseteq Known)' /\ e.hash \subseteq Known
    BY <1>3, <1>8 DEF EntryOK
  <2>2. g \in Docs => (e.gen # NoGen /\ Read(g, e.gen))'
    BY <1>7, <1>8 DEF EntryOK
  <2>3. \/ Moved(g, e.hash)'
        \/ (local[g] = e.hash /\ (g \in clean \/ e.gen = NoGen))'
    <3>1. CASE g = f
      BY <1>5, <2>1, <3>1
    <3>2. CASE g # f
      BY <1>1, <1>6, <1>8, <2>1, <3>2 DEF EntryOK
    <3> QED BY <3>1, <3>2
  <2> QED BY <2>1, <2>2, <2>3 DEF EntryOK
<1> QED BY <1>1, <1>3, <1>4, <1>5, <1>6, <1>7, <1>8

\* A document takes in the store's entries.
TakesIn(f, mine, merged) ==
  /\ merged = mine \cup remote[f].body
  /\ local' = [local EXCEPT ![f] = merged]
  /\ clean' = clean \ {f}
  /\ seen' = seen \cup Foreign(remote[f].body)
  /\ UNCHANGED <<remote, edits, foreign>>

LEMMA DocumentMerges ==
  ASSUME TypeOK, NEW f \in Files, FileOK(f), remote[f] # Null, NEW mine, NEW merged,
         mine \subseteq Known, Foreign(mine) \subseteq seen,
         TakesIn(f, mine, merged)
  PROVE  /\ merged \subseteq Known /\ local'[f] = merged
         /\ \A g \in Files : FileOK(g) => FileOK(g)'
         /\ \A h : ~ (mine \subseteq h) => Moved(f, h)'
         /\ \A n : Read(f, n)'
         /\ \A g \in Files : \A e : EntryOK(g, e) /\ (g = f => ~ (mine \subseteq e.hash))
                                    => EntryOK(g, e)'
<1>1. \A g \in Files : local'[g] = IF g = f THEN merged ELSE local[g]
  BY DEF TypeOK, TakesIn
<1>2. Known' = Known /\ merged \subseteq Known
  BY DEF Known, FileOK, TakesIn
<1>3. Foreign(merged) \subseteq seen'
  BY DEF Foreign, TakesIn
<1>4. ASSUME NEW g \in Files, FileOK(g) PROVE FileOK(g)'
  <2>1. CASE g = f
    BY <1>1, <1>2, <1>3, <1>4, <2>1 DEF FileOK, TakesIn
  <2>2. CASE g # f
    BY <1>1, <1>2, <1>4, <2>2 DEF FileOK, TakesIn
  <2> QED BY <2>1, <2>2
<1>5. \A h : ~ (mine \subseteq h) => Moved(f, h)'
  BY <1>1 DEF Moved, TakesIn
<1>6. \A g, n : (g = f \/ Read(g, n)) => Read(g, n)'
  BY DEF Read, TakesIn
<1>7. ASSUME NEW g \in Files, NEW e, EntryOK(g, e), g = f => ~ (mine \subseteq e.hash)
      PROVE  EntryOK(g, e)'
  <2>1. (e.hash \subseteq Known)'
    BY <1>2, <1>7 DEF EntryOK
  <2>2. g \in Docs => (e.gen # NoGen /\ Read(g, e.gen))'
    BY <1>6, <1>7 DEF EntryOK
  <2>3. \/ Moved(g, e.hash)'
        \/ (local[g] = e.hash /\ (g \in clean \/ e.gen = NoGen))'
    <3>1. CASE g = f
      BY <1>5, <1>7, <3>1
    <3>2. CASE g # f
      BY <1>1, <1>7, <3>2 DEF EntryOK, Moved, TakesIn
    <3> QED BY <3>1, <3>2
  <2> QED BY <2>1, <2>2, <2>3 DEF EntryOK
<1> QED BY <1>1, <1>2, <1>4, <1>5, <1>6, <1>7

\* A file that is uploaded has an entry for what its hash was taken of.
LEMMA FileIsStored ==
  ASSUME TypeOK, NEW f \in Files, FileOK(f), local[f] # Null, Stores(f),
         NEW gen, gen = Fresh, UNCHANGED <<local, edits, foreign, seen>>
  PROVE  /\ \A h : h \subseteq Known => (h \subseteq Known)'
         /\ \A g \in Files : FileOK(g) => FileOK(g)'
         /\ \A g \in Files : \A h : Moved(g, h)' <=> Moved(g, h)
         /\ \A g \in Files : \A e : e.gen # gen /\ EntryOK(g, e) => EntryOK(g, e)'
         /\ \A e : e.hash \subseteq Known /\ (local[f] = e.hash \/ Moved(f, e.hash))
                   /\ e.gen = gen => EntryOK(f, e)'
<1>1. PICK object : object = [body |-> local[f], gen |-> gen]
  OBVIOUS
<1>2. object.body = local[f] /\ object.gen = gen
  BY <1>1
<1>3. /\ remote' = [remote EXCEPT ![f] = object] /\ clean' = clean \cup {f}
  BY <1>1 DEF Stores
<1>4. /\ \A h : h \subseteq Known => (h \subseteq Known)'
      /\ object.body \subseteq Known
  BY <1>2 DEF FileOK, Known
<1>5. /\ \A g \in Files : FileOK(g) => FileOK(g)'
      /\ \A g \in Files : \A h : Moved(g, h)' <=> Moved(g, h)
      /\ \A g \in Files : \A e : e.gen # gen /\ EntryOK(g, e) => EntryOK(g, e)'
  BY <1>2, <1>3, <1>4, ObjectChanges
<1>6. ASSUME NEW e, e.hash \subseteq Known, local[f] = e.hash \/ Moved(f, e.hash),
             e.gen = gen
      PROVE  EntryOK(f, e)'
  <2>1. (e.hash \subseteq Known)'
    BY <1>4, <1>6
  <2>2. \/ Moved(f, e.hash)'
        \/ (local[f] = e.hash /\ (f \in clean \/ e.gen = NoGen))'
    BY <1>3, <1>5, <1>6
  <2>3. remote'[f] = object
    BY <1>3 DEF TypeOK
  <2>4. f \in Docs => Read(f, e.gen)'
    BY <1>2, <2>3 DEF FileOK, Read
  <2>5. e.gen # NoGen
    BY <1>6, FreshIsNew
  <2> QED BY <2>1, <2>2, <2>4, <2>5 DEF EntryOK
<1> QED BY <1>4, <1>5, <1>6

-----------------------------------------------------------------------------
(* Each step keeps it.                                                     *)

\* An object changes under the pass.
LEMMA PassKept ==
  ASSUME TypeOK, SyncInv, NEW gen, gen = Fresh,
         \A h : h \subseteq Known => (h \subseteq Known)',
         \A g \in Files : FileOK(g) => FileOK(g)',
         \A g \in Files : \A h : Moved(g, h)' <=> Moved(g, h),
         \A g \in Files : \A n : n # gen /\ Read(g, n) => Read(g, n)',
         \A g \in Files : \A e : e.gen # gen /\ EntryOK(g, e) => EntryOK(g, e)',
         UNCHANGED <<local, manifest, pass, seen>>
  PROVE  SyncInv'
<1>1. \A g \in Files : FileOK(g)'
  BY DEF SyncInv
<1>2. ASSUME NEW g \in Files, manifest[g] # Null PROVE EntryOK(g, manifest[g])'
  <2>1. PICK e : e = manifest[g]
    OBVIOUS
  <2>2. EntryOK(g, e) /\ e.gen # gen
    BY <1>2, <2>1, FreshIsNew DEF SyncInv
  <2>3. EntryOK(g, e)'
    BY <2>2
  <2> QED BY <2>1, <2>3
<1>3. PICK p : p = pass
  OBVIOUS
<1>4. p \in PassType /\ PassOK(p) /\ RequestType(p)
  BY <1>3 DEF SyncInv, TypeOK
<1>5. ASSUME NEW g \in Files, p.next[g] # Null PROVE EntryOK(g, p.next[g])'
  <2>1. PICK e : e = p.next[g]
    OBVIOUS
  <2>2. EntryOK(g, e) /\ e.gen # gen
    BY <1>3, <1>4, <1>5, <2>1, FreshIsNew DEF PassOK
  <2>3. EntryOK(g, e)'
    BY <2>2
  <2> QED BY <2>1, <2>3
<1>6. ASSUME p.pc \in Sending PROVE SendOK(p, p.file)'
  <2>1. PICK f : f = p.file
    OBVIOUS
  <2>2. f \in Files /\ SendOK(p, f)
    BY <1>4, <1>6, <2>1 DEF PassOK, Sending, RequestType
  <2>3. p.pc = "reput" /\ f \in Docs => Read(f, p.cache[f])'
    <3>1. p.pc = "reput" => p.cache # Null
      BY <1>4, NullAssumption DEF RequestType
    <3>2. p.pc = "reput" => p.cache[f] # gen
      BY <1>3, <2>2, <3>1, FreshIsNew
    <3> QED BY <2>2, <3>2 DEF SendOK
  <2>4. SendOK(p, f)'
    BY <2>2, <2>3 DEF SendOK
  <2> QED BY <2>1, <2>4
<1>7. PassOK(p)'
  BY <1>4, <1>5, <1>6 DEF PassOK
<1> QED BY <1>1, <1>2, <1>3, <1>7 DEF SyncInv

LEMMA SyncForeign ==
  ASSUME TypeOK, SyncInv, NEW f \in Files, ForeignWrite(f) \/ ForeignDelete(f)
  PROVE  SyncInv'
<1>1. PICK gen : gen = Fresh
  OBVIOUS
<1>2. PICK object :
        /\ object = Null \/ object.gen = gen
        /\ object # Null => (object.body \subseteq Known)'
        /\ remote' = [remote EXCEPT ![f] = object]
  <2>1. CASE ForeignDelete(f)
    BY <2>1 DEF ForeignDelete
  <2>2. CASE ForeignWrite(f)
    <3>1. PICK old, n, body, object :
            /\ old = IF remote[f] = Null THEN Null ELSE remote[f].body
            /\ n = MaxEdits + foreign + 1
            /\ body = Edited(f, old, n)
            /\ object = [body |-> body, gen |-> gen]
      OBVIOUS
    <3>2. remote' = [remote EXCEPT ![f] = object] /\ edits' = edits /\ foreign' = foreign + 1
      BY <1>1, <2>2, <3>1 DEF ForeignWrite
    <3>3. Known \subseteq Known' /\ n \in Known'
      BY <3>1, <3>2, StoreSyncAssumption DEF Known, TypeOK
    <3>4. old # Null => old \subseteq Known
      BY <3>1 DEF SyncInv, FileOK
    <3>5. body \subseteq Known'
      BY <3>1, <3>3, <3>4 DEF Edited
    <3>6. object.body = body /\ object.gen = gen
      BY <3>1
    <3> QED BY <3>2, <3>5, <3>6
  <2> QED BY <2>1, <2>2
<1>3. /\ UNCHANGED <<local, manifest, pass, clean, seen, edits>>
      /\ foreign' = foreign \/ foreign' = foreign + 1
  BY DEF ForeignWrite, ForeignDelete, Unenv, daemon, history
<1>4. /\ \A h : h \subseteq Known => (h \subseteq Known)'
      /\ \A g \in Files : FileOK(g) => FileOK(g)'
      /\ \A g \in Files : \A h : Moved(g, h)' <=> Moved(g, h)
      /\ \A g \in Files : \A n : n # gen /\ Read(g, n) => Read(g, n)'
      /\ \A g \in Files : \A e : e.gen # gen /\ EntryOK(g, e) => EntryOK(g, e)'
  BY <1>1, <1>2, <1>3, ObjectChanges
<1> QED BY <1>1, <1>3, <1>4, PassKept

LEMMA SyncEdit ==
  ASSUME TypeOK, SyncInv, NEW f \in Files, Write(f) \/ Unlink(f)
  PROVE  SyncInv'
<1>1. PICK body :
        /\ \/ body = Null
           \/ /\ (body \subseteq Known)' /\ edits + 1 \in body
              /\ f \in Docs => Foreign(body) \subseteq seen
        /\ local' = [local EXCEPT ![f] = body]
  <2>1. CASE Unlink(f)
    BY <2>1 DEF Unlink
  <2>2. CASE Write(f)
    <3>1. PICK old, n, body : old = local[f] /\ n = edits + 1 /\ body = Edited(f, old, n)
      OBVIOUS
    <3>2. /\ local' = [local EXCEPT ![f] = body] /\ edits' = n /\ foreign' = foreign
          /\ edits < MaxEdits
      BY <2>2, <3>1 DEF Write
    <3>3. Known \subseteq Known' /\ n \in Known' /\ n \in 0 .. MaxEdits
      BY <3>1, <3>2, StoreSyncAssumption DEF Known, TypeOK
    <3>4. old # Null => old \subseteq Known /\ (f \in Docs => Foreign(old) \subseteq seen)
      BY <3>1 DEF SyncInv, FileOK
    <3>5. body \subseteq Known' /\ n \in body
      BY <3>1, <3>3, <3>4 DEF Edited
    <3>6. f \in Docs => Foreign(body) \subseteq seen
      BY <3>1, <3>3, <3>4 DEF Edited, Foreign
    <3> QED BY <3>1, <3>2, <3>5, <3>6
  <2> QED BY <2>1, <2>2
<1>2. /\ edits < MaxEdits /\ edits' = edits + 1 /\ clean' = clean \ {f}
      /\ UNCHANGED <<remote, manifest, pass, seen, foreign>>
  BY DEF Write, Unlink, Unenv, daemon
<1>3. /\ \A h : h \subseteq Known => (h \subseteq Known)'
      /\ \A g \in Files : FileOK(g) => FileOK(g)'
      /\ \A g \in Files : \A h : h \subseteq Known /\ Moved(g, h) => Moved(g, h)'
      /\ \A h : h \subseteq Known => Moved(f, h)'
      /\ \A g \in Files : g # f => local'[g] = local[g]
      /\ \A g, n : Read(g, n) => Read(g, n)'
      /\ \A g \in Files : \A e : EntryOK(g, e) => EntryOK(g, e)'
  BY <1>1, <1>2, FileChanges
<1>4. ASSUME NEW g \in Files, manifest[g] # Null
      PROVE  EntryOK(g, manifest[g])' /\ manifest[g].hash \subseteq Known
  <2>1. PICK e : e = manifest[g]
    OBVIOUS
  <2>2. EntryOK(g, e)
    BY <1>4, <2>1 DEF SyncInv
  <2>3. EntryOK(g, e)' /\ e.hash \subseteq Known
    BY <1>3, <2>2 DEF EntryOK
  <2> QED BY <1>2, <2>1, <2>3
<1>5. PICK p : p = pass
  OBVIOUS
<1>6. p \in PassType /\ PassOK(p) /\ RequestType(p)
  BY <1>5 DEF SyncInv, TypeOK
<1>7. ASSUME NEW g \in Files, p.next[g] # Null PROVE EntryOK(g, p.next[g])'
  <2>1. PICK e : e = p.next[g]
    OBVIOUS
  <2>2. EntryOK(g, e)
    BY <1>6, <1>7, <2>1 DEF PassOK
  <2>3. EntryOK(g, e)'
    BY <1>3, <2>2
  <2> QED BY <2>1, <2>3
<1>8. ASSUME p.pc \in Sending PROVE SendOK(p, p.file)'
  <2>1. PICK g, m : g = p.file /\ m = manifest[g]
    OBVIOUS
  <2>2. g \in Files /\ SendOK(p, g)
    BY <1>6, <1>8, <2>1 DEF PassOK, Sending, RequestType
  <2>3. m # Null => Moved(g, m.hash)'
    BY <1>3, <1>4, <2>1, <2>2 DEF SendOK
  <2>4. p.pc \in {"put", "reput"} => /\ (p.hash \subseteq Known)'
                                     /\ (local[g] = p.hash \/ Moved(g, p.hash))'
    <3>1. CASE g = f
      BY <1>3, <2>2, <3>1 DEF SendOK
    <3>2. CASE g # f
      BY <1>3, <2>2, <3>2 DEF SendOK
    <3> QED BY <3>1, <3>2
  <2>5. p.pc = "mergeWrite" => (p.mine \subseteq Known)'
    BY <1>3, <2>2 DEF SendOK
  <2>6. p.pc = "reput" /\ g \in Docs => Read(g, p.cache[g])'
    BY <1>3, <2>2 DEF SendOK
  <2>7. manifest' = manifest /\ seen' = seen
    BY <1>2
  <2>8. SendOK(p, g)'
    BY <2>1, <2>2, <2>3, <2>4, <2>5, <2>6, <2>7 DEF SendOK
  <2> QED BY <2>1, <2>8
<1>9. PassOK(p)'
  BY <1>2, <1>6, <1>7, <1>8 DEF PassOK
<1>10. pass' = p
  BY <1>2, <1>5
<1>11. \A g \in Files : FileOK(g)'
  BY <1>3 DEF SyncInv
<1> QED BY <1>2, <1>4, <1>9, <1>10, <1>11 DEF SyncInv

\* A pass that ends, however it does.
LEMMA SyncIdle ==
  ASSUME SyncInv, pass' = Idle,
         UNCHANGED <<local, remote, manifest, clean, seen, edits, foreign>>
  PROVE  SyncInv'
<1>1. PICK q : q = Idle
  OBVIOUS
<1>2. PassOK(q)
  BY <1>1, IdleOK
<1> QED BY <1>1, <1>2, PassGoesOn

\* A pass that has dealt with the file it was at, and stored nothing.
LEMMA SyncTodo ==
  ASSUME TypeOK, SyncInv, NEW f \in Files, f \in pass.todo,
         pass.pc \in Sending \cup {"scan"},
         NEW e \in Entries \cup {Null}, e # Null => EntryOK(f, e), pass' = Todo(f, e),
         UNCHANGED <<local, remote, manifest, clean, seen, edits, foreign>>
  PROVE  SyncInv'
<1>1. PICK q : q = Todo(f, e)
  OBVIOUS
<1>2. PassOK(q)
  BY <1>1, TodoOK DEF SyncInv
<1> QED BY <1>1, <1>2, PassGoesOn

\* The file a request is about is one the pass has still to deal with.
LEMMA SendingFile ==
  ASSUME TypeOK, SyncInv, pass.pc \in Sending
  PROVE  /\ pass.file \in Files /\ pass.file \in pass.todo
         /\ SendOK(pass, pass.file) /\ FileOK(pass.file)
BY DEF TypeOK, RequestType, SyncInv, PassOK, SendOK, Sending

LEMMA SyncRefused == ASSUME SyncInv, Refused PROVE SyncInv'
BY SyncIdle DEF Refused, Fenced, history, bounds

LEMMA SyncFailsBefore == ASSUME SyncInv, FailsBefore PROVE SyncInv'
BY SyncIdle DEF FailsBefore, Fault, Fails, history

LEMMA SyncHash == ASSUME TypeOK, SyncInv, NEW f \in Files, Hash(f) PROVE SyncInv'
<1>1. /\ pass.pc = "scan" /\ f \in pass.todo
      /\ UNCHANGED <<local, remote, manifest, clean, seen, edits, foreign>>
  BY DEF Hash, Unpass, bounds
<1>2. CASE pass' = Todo(f, Null)
  BY <1>1, <1>2, SyncTodo
<1>3. CASE manifest[f] # Null /\ pass' = Todo(f, manifest[f])
  <2>1. PICK e : e = manifest[f]
    OBVIOUS
  <2>2. e \in Entries \cup {Null} /\ EntryOK(f, e)
    BY <1>3, <2>1 DEF TypeOK, SyncInv
  <2> QED BY <1>1, <1>3, <2>1, <2>2, SyncTodo
<1>4. CASE /\ local[f] # Null
           /\ ~ (manifest[f] # Null /\ manifest[f].hash = local[f])
           /\ pass' = [pass EXCEPT !.pc = "put", !.file = f, !.hash = local[f]]
  <2>1. PICK p, hash, q : p = pass /\ hash = local[f]
                          /\ q = [p EXCEPT !.pc = "put", !.file = f, !.hash = hash]
    OBVIOUS
  <2>2. p \in PassType
    BY <2>1 DEF TypeOK
  <2>3. q.pc = "put" /\ q.file = f /\ q.hash = hash /\ q.todo = p.todo /\ q.next = p.next
    BY <2>1, <2>2 DEF PassType
  <2>4. manifest[f] # Null => Moved(f, manifest[f].hash)
    BY <1>4 DEF SyncInv, EntryOK
  <2>5. SendOK(q, f)
    BY <1>1, <1>4, <2>1, <2>3, <2>4 DEF SendOK, SyncInv, FileOK
  <2>6. PassOK(q)
    <3>1. /\ PassOK(pass) /\ pass.pc \in Sending \cup {"scan"} /\ q.pc \in Sending
          /\ q.todo = pass.todo /\ q.next = pass.next
      BY <1>1, <2>1, <2>3 DEF SyncInv, Sending
    <3>2. SendOK(q, q.file)
      BY <2>3, <2>5
    <3> QED BY <3>1, <3>2, SendingOK
  <2>7. pass' = q
    BY <1>4, <2>1
  <2> QED BY <1>1, <2>6, <2>7, PassGoesOn
<1> QED BY <1>2, <1>3, <1>4 DEF Hash

LEMMA SyncVanishes ==
  ASSUME TypeOK, SyncInv, NEW f \in Files, f = pass.file, pass.pc \in Sending,
         PutVanishes(f)
  PROVE  SyncInv'
<1>1. f \in pass.todo /\ pass.pc \in Sending \cup {"scan"}
  BY SendingFile
<1>2. /\ pass' = Todo(f, Null)
      /\ UNCHANGED <<local, remote, manifest, clean, seen, edits, foreign>>
  BY DEF PutVanishes, Unpass, bounds
<1> QED BY <1>1, <1>2, SyncTodo

\* The file is stored: what the manifest and the pass knew of others stays.
LEMMA SyncStored ==
  ASSUME TypeOK, SyncInv, NEW f \in Files, local[f] # Null, Stores(f),
         UNCHANGED <<local, manifest, edits, foreign, seen>>,
         NEW q, pass' = q, PassOK(q)'
  PROVE  SyncInv'
<1>1. PICK gen : gen = Fresh
  OBVIOUS
<1>2. FileOK(f)
  BY DEF SyncInv
<1>3. /\ \A g \in Files : FileOK(g) => FileOK(g)'
      /\ \A g \in Files : \A e : e.gen # gen /\ EntryOK(g, e) => EntryOK(g, e)'
  BY <1>1, <1>2, FileIsStored
<1>4. ASSUME NEW g \in Files, manifest[g] # Null PROVE EntryOK(g, manifest[g])'
  <2>1. PICK e : e = manifest[g]
    OBVIOUS
  <2>2. EntryOK(g, e) /\ e.gen # gen
    BY <1>1, <1>4, <2>1, FreshIsNew DEF SyncInv
  <2>3. EntryOK(g, e)'
    BY <1>3, <2>2
  <2> QED BY <2>1, <2>3
<1>5. \A g \in Files : FileOK(g)'
  BY <1>3 DEF SyncInv
<1> QED BY <1>4, <1>5 DEF SyncInv

LEMMA SyncAccepted ==
  ASSUME TypeOK, SyncInv, NEW f \in Files, f = pass.file,
         pass.pc \in {"put", "reput"}, NEW guard, PutAccepted(f, guard)
  PROVE  SyncInv'
<1>1. PICK gen, e, p, q :
        /\ gen = Fresh /\ e = [hash |-> pass.hash, gen |-> gen]
        /\ p = pass /\ q = Todo(f, e)
  OBVIOUS
<1>2. /\ local[f] # Null /\ Stores(f) /\ pass' = q
      /\ UNCHANGED <<local, manifest, edits, foreign, seen>>
  BY <1>1 DEF PutAccepted, Unpass, bounds
<1>3. /\ f \in pass.todo /\ SendOK(pass, f) /\ FileOK(f)
      /\ pass.pc \in Sending \cup {"scan"} /\ pass.hash \in Bodies
  BY SendingFile DEF Sending, TypeOK, RequestType
<1>4. e.hash = pass.hash /\ e.gen = gen /\ e \in Entries
  BY <1>1, <1>3, FreshIsNew DEF Entries
<1>5. /\ \A g \in Files : \A x : x.gen # gen /\ EntryOK(g, x) => EntryOK(g, x)'
      /\ \A x : x.hash \subseteq Known /\ (local[f] = x.hash \/ Moved(f, x.hash))
                /\ x.gen = gen => EntryOK(f, x)'
  BY <1>1, <1>2, <1>3, FileIsStored
<1>6. EntryOK(f, e)'
  BY <1>3, <1>4, <1>5 DEF SendOK
<1>7. /\ q.pc = "scan" /\ q.todo = p.todo \ {f}
      /\ \A g \in Files : q.next[g] = IF g = f THEN e ELSE p.next[g]
  BY <1>1, <1>4, TodoIs
<1>8. ASSUME NEW g \in Files, q.next[g] # Null PROVE EntryOK(g, q.next[g])'
  <2>1. CASE g = f
    BY <1>6, <1>7, <2>1
  <2>2. CASE g # f
    <3>1. PICK x : x = p.next[g]
      OBVIOUS
    <3>2. q.next[g] = x /\ x # Null
      BY <1>7, <1>8, <2>2, <3>1
    <3>3. EntryOK(g, x) /\ x.gen # gen
      BY <1>1, <3>1, <3>2, FreshIsNew DEF SyncInv, PassOK
    <3>4. EntryOK(g, x)'
      BY <1>5, <3>3
    <3> QED BY <3>2, <3>4
  <2> QED BY <2>1, <2>2
<1>9. \A g \in q.todo : q.next[g] = Null
  <2>1. p.todo \subseteq Files /\ p.pc \in Sending \cup {"scan"} /\ PassOK(p)
    BY <1>1, <1>3 DEF TypeOK, PassType, SyncInv
  <2> QED BY <1>7, <2>1 DEF PassOK
<1>10. PassOK(q)'
  BY <1>7, <1>8, <1>9 DEF PassOK, Sending
<1> QED BY <1>2, <1>10, SyncStored

LEMMA SyncUnanswered ==
  ASSUME TypeOK, SyncInv, NEW f \in Files, NEW guard, PutUnanswered(f, guard)
  PROVE  SyncInv'
<1>1. PICK q : q = Idle
  OBVIOUS
<1>2. /\ local[f] # Null /\ Stores(f) /\ pass' = q
      /\ UNCHANGED <<local, manifest, edits, foreign, seen>>
  BY <1>1 DEF PutUnanswered, Fault, Fails
<1>3. PassOK(q)'
  BY <1>1, IdleIs DEF PassOK, Sending
<1> QED BY <1>2, <1>3, SyncStored

LEMMA SyncTooLarge ==
  ASSUME TypeOK, SyncInv, NEW f \in Files, f = pass.file, pass.pc = "put", PutTooLarge(f)
  PROVE  SyncInv'
<1>1. PICK e : e = [hash |-> pass.hash, gen |-> NoGen]
  OBVIOUS
<1>2. /\ f \in pass.todo /\ SendOK(pass, f) /\ pass.hash \in Bodies
      /\ pass.pc \in Sending \cup {"scan"}
  BY SendingFile DEF Sending, TypeOK, RequestType
<1>3. e.hash = pass.hash /\ e.gen = NoGen /\ e \in Entries
  BY <1>1, <1>2 DEF Entries
<1>4. f \notin Docs
  BY DEF PutTooLarge
<1>5. EntryOK(f, e)
  BY <1>2, <1>3, <1>4 DEF SendOK, EntryOK
<1>6. /\ pass' = Todo(f, e)
      /\ UNCHANGED <<local, remote, manifest, clean, seen, edits, foreign>>
  BY <1>1 DEF PutTooLarge, Unpass, Fault
<1> QED BY <1>2, <1>3, <1>5, <1>6, SyncTodo

\* A guard that is not accepted is a generation, and not the store's.
LEMMA RefusedGuard ==
  ASSUME TypeOK, NEW f \in Files, NEW guard, ~ Accepts(f, guard)
  PROVE  guard # NoGen /\ Read(f, guard)
BY DEF Accepts, GenOf, Read

LEMMA SyncPutConflicts ==
  ASSUME TypeOK, SyncInv, NEW f \in Files, f = pass.file, pass.pc = "put",
         PutConflicts(f)
  PROVE  SyncInv'
<1>1. PICK p, pc, q :
        /\ p = pass /\ pc = IF f \in Docs THEN "merge" ELSE "reput"
        /\ q = [p EXCEPT !.pc = pc,
                         !.cache = IF @ = Null THEN [g \in Files |-> GenOf(g)] ELSE @]
  OBVIOUS
<1>2. /\ pass' = q
      /\ UNCHANGED <<local, remote, manifest, clean, seen, edits, foreign>>
  BY <1>1 DEF PutConflicts, Unpass, bounds
<1>3. Conflicted(p, pc, f, q) /\ p = pass
  BY <1>1 DEF Conflicted
<1>4. /\ q.pc = pc /\ q.file = f /\ q.hash = p.hash
      /\ q.todo = p.todo /\ q.next = p.next
  BY <1>3, ConflictIs
<1>5. SendOK(p, f)
  BY <1>3, SendingFile DEF Sending
<1>6. manifest[f] # Null => manifest[f].gen # NoGen
  BY RefusedGuard DEF PutConflicts, FirstGuard
<1>7. pc \in {"merge", "reput"} /\ (pc = "merge" <=> f \in Docs)
  BY <1>1
<1>8. SendOK(q, f)
  BY <1>3, <1>4, <1>5, <1>6, <1>7 DEF SendOK
<1>9. PassOK(q)
  BY <1>3, <1>4, <1>7, <1>8, SendingOK DEF SyncInv, Sending
<1> QED BY <1>2, <1>9, PassGoesOn

LEMMA SyncPut == ASSUME TypeOK, SyncInv, NEW f \in Files, Put(f) PROVE SyncInv'
<1>1. pass.pc = "put" /\ f = pass.file /\ pass.pc \in Sending
  BY DEF Put, Sending
<1> QED BY <1>1, SyncVanishes, SyncAccepted, SyncUnanswered, SyncTooLarge,
           SyncPutConflicts, SyncRefused, SyncFailsBefore DEF Put

LEMMA SyncMergeRead ==
  ASSUME TypeOK, SyncInv, NEW f \in Files, MergeRead(f) PROVE SyncInv'
<1>1. /\ pass.pc = "merge" /\ f = pass.file /\ pass.pc \in Sending
      /\ UNCHANGED <<local, remote, manifest, clean, seen, edits, foreign>>
  BY DEF MergeRead, Unpass, bounds, Sending
<1>2. /\ f \in pass.todo /\ SendOK(pass, f) /\ FileOK(f)
      /\ pass.pc \in Sending \cup {"scan"}
  BY <1>1, SendingFile
<1>3. CASE pass' = Todo(f, Null)
  BY <1>1, <1>2, <1>3, SyncTodo
<1>4. CASE /\ local[f] # Null
           /\ pass' = [pass EXCEPT !.pc = "mergeWrite", !.mine = local[f]]
  <2>1. PICK p, mine, q : /\ p = pass /\ mine = local[f]
                          /\ q = [p EXCEPT !.pc = "mergeWrite", !.mine = mine]
    OBVIOUS
  <2>2. p \in PassType
    BY <2>1 DEF TypeOK
  <2>3. /\ q.pc = "mergeWrite" /\ q.file = p.file /\ q.mine = mine
        /\ q.todo = p.todo /\ q.next = p.next
    BY <2>1, <2>2 DEF PassType
  <2>4. f \in Docs /\ mine \subseteq Known /\ Foreign(mine) \subseteq seen
    BY <1>1, <1>2, <1>4, <2>1 DEF SendOK, FileOK
  <2>5. manifest[f] # Null => /\ Moved(f, manifest[f].hash) /\ manifest[f].gen # NoGen
                              /\ ~ (mine \subseteq manifest[f].hash)
    BY <1>1, <1>2, <1>4, <2>1 DEF SendOK, Moved
  <2>6. SendOK(q, f)
    BY <1>2, <2>1, <2>3, <2>4, <2>5 DEF SendOK
  <2>7. /\ PassOK(pass) /\ q.pc \in Sending /\ q.file = f
        /\ q.todo = pass.todo /\ q.next = pass.next
    BY <1>1, <2>1, <2>3 DEF SyncInv, Sending
  <2>8. PassOK(q)
    BY <1>2, <2>6, <2>7, SendingOK
  <2>9. pass' = q
    BY <1>4, <2>1
  <2> QED BY <1>1, <2>8, <2>9, PassGoesOn
<1> QED BY <1>3, <1>4 DEF MergeRead

LEMMA SyncMergeWrite ==
  ASSUME TypeOK, SyncInv, NEW f \in Files, MergeWrite(f) PROVE SyncInv'
<1>1. pass.pc = "mergeWrite" /\ f = pass.file /\ pass.pc \in Sending
  BY DEF MergeWrite, Sending
<1>2. f \in pass.todo /\ SendOK(pass, f) /\ FileOK(f)
  BY <1>1, SendingFile
<1>3. CASE FailsBefore
  BY <1>3, SyncFailsBefore
<1>4. CASE Fails /\ UNCHANGED <<local, remote, owner, history, bounds>>
  BY <1>4, SyncIdle DEF Fails, history, bounds
<1>5. ASSUME NEW p, NEW merged, NEW q, Merges(f, p, merged, q), remote[f] # Null,
             local' = [local EXCEPT ![f] = merged], pass' = q,
             clean' = clean \ {f}, seen' = seen \cup Foreign(remote[f].body),
             UNCHANGED <<remote, manifest, edits, foreign>>
      PROVE  SyncInv'
  <2>1. /\ q.pc = "reput" /\ q.file = f /\ q.hash = merged
        /\ q.todo = p.todo /\ q.next = p.next /\ p = pass
    <3>1. p = pass
      BY <1>5 DEF Merges
    <3> QED BY <1>1, <1>5, <3>1, MergedIs
  <2>2. PICK mine : mine = p.mine
    OBVIOUS
  <2>3. /\ mine \subseteq Known /\ Foreign(mine) \subseteq seen /\ f \in Docs
        /\ manifest[f] # Null => ~ (mine \subseteq manifest[f].hash)
                                 /\ manifest[f].gen # NoGen
    BY <1>1, <1>2, <2>1, <2>2 DEF SendOK
  <2>4. merged = mine \cup remote[f].body
    BY <1>5, <2>2 DEF Merges
  <2>5. /\ merged \subseteq Known /\ local'[f] = merged
        /\ \A g \in Files : FileOK(g) => FileOK(g)'
        /\ \A h : ~ (mine \subseteq h) => Moved(f, h)'
        /\ \A n : Read(f, n)'
        /\ \A g \in Files : \A e : EntryOK(g, e) /\ (g = f => ~ (mine \subseteq e.hash))
                                   => EntryOK(g, e)'
    <3>1. TakesIn(f, mine, merged)
      BY <1>5, <2>4 DEF TakesIn
    <3>2. remote[f] # Null
      BY <1>5
    <3> QED BY <1>2, <2>3, <3>1, <3>2, DocumentMerges
  <2>6. \A g \in Files : FileOK(g)'
    BY <2>5 DEF SyncInv
  <2>7. ASSUME NEW g \in Files, manifest[g] # Null PROVE EntryOK(g, manifest[g])'
    <3>1. PICK e : e = manifest[g]
      OBVIOUS
    <3>2. EntryOK(g, e) /\ (g = f => ~ (mine \subseteq e.hash))
      BY <2>3, <2>7, <3>1 DEF SyncInv
    <3>3. EntryOK(g, e)'
      BY <2>5, <3>2
    <3> QED BY <1>5, <3>1, <3>3
  <2>8. PassOK(p) /\ p.pc \in Sending \cup {"scan"} /\ f \in p.todo
    BY <1>1, <1>2, <2>1 DEF SyncInv
  <2>9. ASSUME NEW g \in Files, q.next[g] # Null PROVE EntryOK(g, q.next[g])'
    <3>1. PICK e : e = q.next[g]
      OBVIOUS
    <3>2. e = p.next[g] /\ e # Null
      BY <2>1, <2>9, <3>1
    <3>3. g # f
      BY <2>8, <3>2 DEF PassOK
    <3>4. EntryOK(g, e)
      BY <2>8, <3>2 DEF PassOK
    <3>5. EntryOK(g, e)'
      BY <2>5, <3>3, <3>4
    <3> QED BY <3>1, <3>5
  <2>10. \A g \in q.todo : q.next[g] = Null
    BY <2>1, <2>8 DEF PassOK
  <2>11. SendOK(q, f)'
    <3>1. (manifest[f] # Null => Moved(f, manifest[f].hash) /\ manifest[f].gen # NoGen)'
      <4>1. PICK e : e = manifest[f]
        OBVIOUS
      <4>2. e # Null => Moved(f, e.hash)' /\ e.gen # NoGen
        BY <2>3, <2>5, <4>1
      <4> QED BY <1>5, <4>1, <4>2
    <3>2. (q.hash \subseteq Known /\ local[f] = q.hash)'
      BY <1>5, <2>1, <2>5 DEF Known
    <3>3. Read(f, q.cache[f])'
      BY <2>5
    <3>4. f \in q.todo
      BY <2>1, <2>8
    <3> QED BY <2>1, <3>1, <3>2, <3>3, <3>4 DEF SendOK
  <2>12. PassOK(q)'
    BY <2>1, <2>9, <2>10, <2>11 DEF PassOK, Sending
  <2> QED BY <1>5, <2>6, <2>7, <2>12 DEF SyncInv
<1>6. CASE /\ remote[f] # Null
           /\ LET merged == pass.mine \cup remote[f].body
              IN  /\ local' = [local EXCEPT ![f] = merged]
                  /\ pass' = [pass EXCEPT !.pc = "reput", !.hash = merged,
                                         !.mine = Null]
           /\ clean' = clean \ {f}
           /\ seen' = seen \cup (remote[f].body \ 0 .. MaxEdits)
           /\ UNCHANGED <<remote, owner, manifest, rerun, stopping, fenced,
                          final, tries, flush, owed, bounds>>
  <2>1. PICK p, merged, q : Merges(f, p, merged, q)
    BY DEF Merges
  <2>2. local' = [local EXCEPT ![f] = merged] /\ pass' = q
    BY <1>6, <2>1 DEF Merges
  <2> QED BY <1>5, <1>6, <2>1, <2>2 DEF bounds, Foreign
<1> QED BY <1>3, <1>4, <1>6 DEF MergeWrite, Mergeables

\* The entry that a conflict leaves: the hash the manifest had.
LEMMA OldEntryIs ==
  ASSUME TypeOK, NEW f \in Files, manifest[f] # Null, NEW g \in Gens, NEW e,
         e = [manifest[f] EXCEPT !.gen = g]
  PROVE  e \in Entries /\ e.hash = manifest[f].hash /\ e.gen = g
<1>1. PICK m : m = manifest[f]
  OBVIOUS
<1>2. m \in Entries
  BY <1>1 DEF TypeOK
<1> QED BY <1>1, <1>2 DEF Entries

LEMMA SyncReputConflicts ==
  ASSUME TypeOK, SyncInv, NEW f \in Files, f = pass.file, pass.pc = "reput",
         ReputConflicts(f)
  PROVE  SyncInv'
<1>1. PICK e : e = IF manifest[f] = Null THEN Null
                   ELSE [manifest[f] EXCEPT !.gen = RetryGuard(f)]
  OBVIOUS
<1>2. /\ f \in pass.todo /\ SendOK(pass, f) /\ RetryGuard(f) \in Gens
      /\ pass.pc \in Sending \cup {"scan"}
  BY SendingFile DEF Sending, TypeOK, RequestType, RetryGuard
<1>3. RetryGuard(f) # NoGen /\ Read(f, RetryGuard(f))
  BY RefusedGuard DEF ReputConflicts
<1>4. e \in Entries \cup {Null} /\ (e # Null => EntryOK(f, e))
  <2>1. CASE manifest[f] = Null
    BY <1>1, <2>1
  <2>2. CASE manifest[f] # Null
    <3>1. e \in Entries /\ e.hash = manifest[f].hash /\ e.gen = RetryGuard(f)
      BY <1>1, <1>2, <2>2, OldEntryIs
    <3>2. e.hash \subseteq Known /\ Moved(f, e.hash)
      BY <1>2, <2>2, <3>1 DEF SyncInv, EntryOK, SendOK
    <3> QED BY <1>3, <3>1, <3>2 DEF EntryOK
  <2> QED BY <2>1, <2>2
<1>5. /\ pass' = Todo(f, e)
      /\ UNCHANGED <<local, remote, manifest, clean, seen, edits, foreign>>
  BY <1>1 DEF ReputConflicts, Unpass, bounds
<1> QED BY <1>2, <1>4, <1>5, SyncTodo

LEMMA SyncReput == ASSUME TypeOK, SyncInv, NEW f \in Files, Reput(f) PROVE SyncInv'
<1>1. pass.pc = "reput" /\ f = pass.file /\ pass.pc \in Sending
  BY DEF Reput, Sending
<1> QED BY <1>1, SyncVanishes, SyncAccepted, SyncUnanswered, SyncReputConflicts,
           SyncRefused, SyncFailsBefore DEF Reput

\* An object is deleted: what the manifest and the pass knew of others stays.
LEMMA ObjectIsRemoved ==
  ASSUME TypeOK, SyncInv, NEW p, p = pass, NEW f \in Files, Removes(f),
         UNCHANGED <<local, manifest, edits, foreign, seen>>
  PROVE  /\ \A g \in Files : FileOK(g)'
         /\ \A g \in Files : manifest[g] # Null => EntryOK(g, manifest[g])'
         /\ \A g \in Files : p.next[g] # Null => EntryOK(g, p.next[g])'
<1>1. PICK gen, object : gen = Fresh /\ object = Null
  OBVIOUS
<1>2. remote' = [remote EXCEPT ![f] = object] /\ clean' = clean
  BY <1>1 DEF Removes
<1>3. /\ \A g \in Files : FileOK(g) => FileOK(g)'
      /\ \A g \in Files : \A e : e.gen # gen /\ EntryOK(g, e) => EntryOK(g, e)'
  BY <1>1, <1>2, ObjectChanges
<1>4. ASSUME NEW g \in Files, manifest[g] # Null PROVE EntryOK(g, manifest[g])'
  <2>1. PICK e : e = manifest[g]
    OBVIOUS
  <2>2. EntryOK(g, e) /\ e.gen # gen
    BY <1>1, <1>4, <2>1, FreshIsNew DEF SyncInv
  <2>3. EntryOK(g, e)'
    BY <1>3, <2>2
  <2> QED BY <2>1, <2>3
<1>5. ASSUME NEW g \in Files, p.next[g] # Null PROVE EntryOK(g, p.next[g])'
  <2>1. PICK e : e = p.next[g]
    OBVIOUS
  <2>2. EntryOK(g, e) /\ e.gen # gen
    BY <1>1, <1>5, <2>1, FreshIsNew DEF SyncInv, PassOK
  <2>3. EntryOK(g, e)'
    BY <1>3, <2>2
  <2> QED BY <2>1, <2>3
<1> QED BY <1>3, <1>4, <1>5 DEF SyncInv

LEMMA SyncDropAccepted ==
  ASSUME TypeOK, SyncInv, NEW f \in Files, NEW guard, DropAccepted(f, guard)
  PROVE  SyncInv'
<1>1. PICK p, q : p = pass /\ q = Dropped(f)
  OBVIOUS
<1>2. Removes(f) /\ pass' = q /\ UNCHANGED <<local, manifest, edits, foreign, seen>>
  BY <1>1 DEF DropAccepted, Unpass, bounds
<1>3. q.pc = "drop" /\ q.next = p.next
  BY <1>1, DroppedIs
<1>4. /\ \A g \in Files : FileOK(g)'
      /\ \A g \in Files : manifest[g] # Null => EntryOK(g, manifest[g])'
      /\ \A g \in Files : p.next[g] # Null => EntryOK(g, p.next[g])'
  BY <1>1, <1>2, ObjectIsRemoved
<1>5. PassOK(q)'
  BY <1>3, <1>4 DEF PassOK, Sending
<1> QED BY <1>2, <1>4, <1>5 DEF SyncInv

LEMMA SyncDropUnanswered ==
  ASSUME TypeOK, SyncInv, NEW f \in Files, NEW guard, DropUnanswered(f, guard)
  PROVE  SyncInv'
<1>1. PICK p, q : p = pass /\ q = Idle
  OBVIOUS
<1>2. Removes(f) /\ pass' = q /\ UNCHANGED <<local, manifest, edits, foreign, seen>>
  BY <1>1 DEF DropUnanswered, Fault, Fails
<1>3. /\ \A g \in Files : FileOK(g)'
      /\ \A g \in Files : manifest[g] # Null => EntryOK(g, manifest[g])'
  BY <1>1, <1>2, ObjectIsRemoved
<1>4. PassOK(q)'
  BY <1>1, IdleIs DEF PassOK, Sending
<1> QED BY <1>2, <1>3, <1>4 DEF SyncInv

\* A pass that deletes and does nothing to an object.
LEMMA SyncDropping ==
  ASSUME SyncInv, NEW q, pass' = q, q.pc = "drop", q.next = pass.next,
         UNCHANGED <<local, remote, manifest, clean, seen, edits, foreign>>
  PROVE  SyncInv'
<1>1. PassOK(q)
  BY DroppingOK DEF SyncInv, PassOK
<1> QED BY <1>1, PassGoesOn

LEMMA SyncDropPass == ASSUME TypeOK, SyncInv, DropPass PROVE SyncInv'
<1>1. PICK p, q : p = pass /\ q = [p EXCEPT !.pc = "drop"]
  OBVIOUS
<1>2. q.pc = "drop" /\ q.next = p.next
  BY <1>1 DEF TypeOK, PassType
<1>3. /\ pass' = q /\ q.next = pass.next
      /\ UNCHANGED <<local, remote, manifest, clean, seen, edits, foreign>>
  BY <1>1, <1>2 DEF DropPass, Unpass, bounds
<1> QED BY <1>2, <1>3, SyncDropping

LEMMA SyncDropConflicts ==
  ASSUME TypeOK, SyncInv, NEW f \in Gone, DropConflicts(f) PROVE SyncInv'
<1>1. PICK p, q :
        /\ p = pass
        /\ q = [p EXCEPT !.pc = "redrop", !.file = f,
                         !.cache = IF @ = Null THEN [g \in Files |-> GenOf(g)] ELSE @]
  OBVIOUS
<1>2. /\ pass' = q
      /\ UNCHANGED <<local, remote, manifest, clean, seen, edits, foreign>>
  BY <1>1 DEF DropConflicts, Unpass, bounds
<1>3. Conflicted(p, "redrop", f, q) /\ p = pass
  BY <1>1 DEF Conflicted
<1>4. f \in Files /\ manifest[f] # Null
  BY DEF Gone
<1>5. q.pc = "redrop" /\ q.file = f /\ q.next = p.next
  BY <1>3, ConflictIs
<1>6. manifest[f].gen # NoGen
  BY <1>4, RefusedGuard DEF DropConflicts, FirstGuard
<1>7. \A g \in Files : q.next[g] # Null => EntryOK(g, q.next[g])
  BY <1>3, <1>5 DEF SyncInv, PassOK
<1>8. PassOK(q)
  BY <1>5, <1>6, <1>7 DEF PassOK, Sending
<1> QED BY <1>2, <1>8, PassGoesOn

LEMMA SyncDrop == ASSUME TypeOK, SyncInv, NEW f \in Files, Drop(f) PROVE SyncInv'
<1>1. f \in Gone
  BY DEF Drop
<1> QED BY <1>1, SyncDropAccepted, SyncDropUnanswered, SyncDropConflicts, SyncRefused,
           SyncFailsBefore DEF Drop

\* The entry that is kept: its hash is that of the manifest, and its generation,
\* which the store refused, is not the store's.
LEMMA SyncRedropConflicts ==
  ASSUME TypeOK, SyncInv, NEW f \in Files, manifest[f] # Null, manifest[f].gen # NoGen,
         pass.cache \in [Files -> Gens], RedropConflicts(f)
  PROVE  SyncInv'
<1>1. PICK e, q : e = [manifest[f] EXCEPT !.gen = RetryGuard(f)]
                  /\ q = [Dropped(f) EXCEPT !.next[f] = e]
  OBVIOUS
<1>2. /\ pass' = q
      /\ UNCHANGED <<local, remote, manifest, clean, seen, edits, foreign>>
  BY <1>1 DEF RedropConflicts, Unpass, bounds
<1>3. Keeps(f, e, q)
  BY <1>1 DEF Keeps
<1>4. /\ q.pc = "drop"
      /\ \A g \in Files : q.next[g] = IF g = f THEN e ELSE pass.next[g]
  BY <1>3, RedroppedIs
<1>5. e.hash = manifest[f].hash /\ e.gen = RetryGuard(f)
  BY <1>1, OldEntryIs DEF RetryGuard
<1>6. RetryGuard(f) # NoGen /\ Read(f, RetryGuard(f))
  BY RefusedGuard DEF RedropConflicts
<1>7. PICK m : m = manifest[f]
  OBVIOUS
<1>8. EntryOK(f, m) /\ m.gen # NoGen /\ e.hash = m.hash
  BY <1>5, <1>7 DEF SyncInv
<1>9. EntryOK(f, e)
  BY <1>5, <1>6, <1>8 DEF EntryOK
<1>10. ASSUME NEW g \in Files, q.next[g] # Null PROVE EntryOK(g, q.next[g])
  <2>1. CASE g = f
    BY <1>4, <1>9, <2>1
  <2>2. CASE g # f
    <3>1. q.next[g] = pass.next[g]
      BY <1>4, <2>2
    <3> QED BY <1>10, <3>1 DEF SyncInv, PassOK
  <2> QED BY <2>1, <2>2
<1>11. PassOK(q)
  BY <1>4, <1>10, DroppingOK
<1> QED BY <1>2, <1>11, PassGoesOn

LEMMA SyncRedrop == ASSUME TypeOK, SyncInv, NEW f \in Files, Redrop(f) PROVE SyncInv'
<1>1. pass.pc = "redrop" /\ f = pass.file
  BY DEF Redrop
<1>2. /\ manifest[f] # Null /\ manifest[f].gen # NoGen
      /\ pass.cache \in [Files -> Gens]
  BY <1>1 DEF TypeOK, RequestType, SyncInv, PassOK
<1>3. CASE RedropNothing(f)
  <2>1. PICK q : q = Dropped(f)
    OBVIOUS
  <2>2. q.pc = "drop" /\ q.next = pass.next
    BY <2>1, DroppedIs
  <2>3. /\ pass' = q
        /\ UNCHANGED <<local, remote, manifest, clean, seen, edits, foreign>>
    BY <1>3, <2>1 DEF RedropNothing, Unpass, bounds
  <2> QED BY <2>2, <2>3, SyncDropping
<1> QED BY <1>2, <1>3, SyncDropAccepted, SyncDropUnanswered, SyncRedropConflicts,
           SyncRefused, SyncFailsBefore DEF Redrop

LEMMA SyncEndPass == ASSUME TypeOK, SyncInv, EndPass PROVE SyncInv'
<1>1. PICK p, q : p = pass /\ q = pass'
  OBVIOUS
<1>2. /\ manifest' = p.next /\ (q = Idle \/ q = StartPass)
      /\ UNCHANGED <<local, remote, clean, seen, edits, foreign>>
  BY <1>1 DEF EndPass, history, bounds
<1>3. \A g, e : EntryOK(g, e)' <=> EntryOK(g, e)
  BY <1>2 DEF EntryOK, Moved, Read, Known
<1>4. ASSUME NEW g \in Files, p.next[g] # Null PROVE EntryOK(g, p.next[g])'
  <2>1. PICK e : e = p.next[g]
    OBVIOUS
  <2>2. EntryOK(g, e)
    BY <1>1, <1>4, <2>1 DEF SyncInv, PassOK
  <2>3. EntryOK(g, e)'
    BY <1>3, <2>2
  <2> QED BY <2>1, <2>3
<1>5. \A g \in Files : FileOK(g)'
  BY <1>2 DEF SyncInv, FileOK, Known
<1>6. PassOK(q)'
  <2>1. q.pc \in {"idle", "scan"} /\ \A g \in Files : q.next[g] = Null
    BY <1>2, IdleIs, StartIs
  <2>2. q.todo \subseteq Files
    BY <1>2, IdleIs, StartIs DEF PassType
  <2> QED BY <2>1, <2>2 DEF PassOK, Sending
<1> QED BY <1>1, <1>2, <1>4, <1>5, <1>6 DEF SyncInv

LEMMA SyncDaemon ==
  ASSUME SyncInv, Tick \/ Flush \/ Stop \/ FinalSync \/ Takeover \/ UNCHANGED vars
  PROVE  SyncInv'
<1>1. UNCHANGED <<local, remote, manifest, clean, seen, edits, foreign>>
  BY DEF Tick, Flush, Stop, FinalSync, Takeover, vars, daemon, history, bounds
<1>2. PICK q : q = pass'
  OBVIOUS
<1>3. q = pass \/ q = StartPass
  BY <1>2 DEF Tick, Flush, Stop, FinalSync, Takeover, RequestSync, vars, daemon
<1>4. PassOK(q)
  <2>1. CASE q = pass
    BY <2>1 DEF SyncInv
  <2>2. CASE q = StartPass
    BY <2>2, StartOK
  <2> QED BY <1>3, <2>1, <2>2
<1> QED BY <1>1, <1>2, <1>4, PassGoesOn

LEMMA SyncStep == TypeOK /\ SyncInv /\ [Next]_vars => SyncInv'
<1> SUFFICES ASSUME TypeOK, SyncInv, [Next]_vars PROVE SyncInv'
  OBVIOUS
<1>1. ASSUME NEW f \in Files, Hash(f) PROVE SyncInv'
  BY <1>1, SyncHash
<1>2. ASSUME NEW f \in Files, Put(f) PROVE SyncInv'
  BY <1>2, SyncPut
<1>3. ASSUME NEW f \in Files, MergeRead(f) PROVE SyncInv'
  BY <1>3, SyncMergeRead
<1>4. ASSUME NEW f \in Files, MergeWrite(f) PROVE SyncInv'
  BY <1>4, SyncMergeWrite
<1>5. ASSUME NEW f \in Files, Reput(f) PROVE SyncInv'
  BY <1>5, SyncReput
<1>6. ASSUME NEW f \in Files, Drop(f) PROVE SyncInv'
  BY <1>6, SyncDrop
<1>7. ASSUME NEW f \in Files, Redrop(f) PROVE SyncInv'
  BY <1>7, SyncRedrop
<1>8. ASSUME NEW f \in Files, Write(f) \/ Unlink(f) PROVE SyncInv'
  BY <1>8, SyncEdit
<1>9. ASSUME NEW f \in Files, ForeignWrite(f) \/ ForeignDelete(f) PROVE SyncInv'
  BY <1>9, SyncForeign
<1>10. CASE DropPass
  BY <1>10, SyncDropPass
<1>11. CASE EndPass
  BY <1>11, SyncEndPass
<1>12. CASE Tick \/ Flush \/ Stop \/ FinalSync \/ Takeover \/ UNCHANGED vars
  BY <1>12, SyncDaemon
<1> QED BY <1>1, <1>2, <1>3, <1>4, <1>5, <1>6, <1>7, <1>8, <1>9, <1>10, <1>11, <1>12
        DEF Next, PassStep

LEMMA SyncInit == Init => SyncInv
<1> SUFFICES ASSUME NEW hydrated \in SUBSET Files,
                    local = [f \in Files |-> IF f \in hydrated THEN {0} ELSE Null],
                    remote = [f \in Files |-> IF f \in hydrated
                                              THEN [body |-> {0}, gen |-> 1] ELSE Null],
                    manifest = [f \in Files |-> IF f \in hydrated
                                                THEN [hash |-> {0}, gen |-> 1] ELSE Null],
                    clean = hydrated, pass = Idle, edits = 0, foreign = 0
             PROVE  SyncInv
  BY DEF Init
<1>1. 0 \in Known /\ 0 \in 0 .. MaxEdits /\ NoGen # 1
  BY StoreSyncAssumption DEF Known, NoGen
<1>2. PICK body, object, entry : /\ body = {0}
                                 /\ object = [body |-> body, gen |-> 1]
                                 /\ entry = [hash |-> body, gen |-> 1]
  OBVIOUS
<1>3. /\ object.body = body /\ object.gen = 1 /\ entry.hash = body /\ entry.gen = 1
      /\ body \subseteq Known /\ Foreign(body) = {}
  BY <1>1, <1>2 DEF Foreign
<1>4. ASSUME NEW f \in Files
      PROVE  /\ local[f] = IF f \in hydrated THEN body ELSE Null
             /\ remote[f] = IF f \in hydrated THEN object ELSE Null
             /\ manifest[f] = IF f \in hydrated THEN entry ELSE Null
  BY <1>2
<1>5. ASSUME NEW f \in Files PROVE FileOK(f)
  BY <1>3, <1>4 DEF FileOK
<1>6. ASSUME NEW f \in Files, manifest[f] # Null PROVE EntryOK(f, manifest[f])
  <2>1. f \in hydrated /\ manifest[f] = entry
    BY <1>4, <1>6
  <2>2. Read(f, entry.gen)
    BY <1>3, <1>4 DEF Read
  <2>3. EntryOK(f, entry)
    BY <1>1, <1>3, <1>4, <2>1, <2>2 DEF EntryOK
  <2> QED BY <2>1, <2>3
<1>7. PassOK(pass)
  BY IdleOK
<1> QED BY <1>5, <1>6, <1>7 DEF SyncInv

\* What the manifest and the pass know of the store is so at all times.
THEOREM KnowledgeIsTrue == Spec => []SyncInv
<1>1. Spec => []TypeOK
  BY TypeCorrect
<1> QED BY <1>1, SyncInit, SyncStep, PTL DEF Spec

-----------------------------------------------------------------------------
(* An upload overwrites only what the pod has had.                         *)

\* The guard of the upload is a generation of the manifest or of the refreshed
\* manifest, and whatever the store holds under it has been read.
LEMMA GuardWasRead ==
  ASSUME TypeOK, SyncInv, NEW f \in Files, f \in Docs, pass.file = f, NEW guard,
         \/ pass.pc = "put" /\ guard = FirstGuard(f)
         \/ pass.pc = "reput" /\ guard = RetryGuard(f),
         Accepts(f, guard), remote[f] # Null
  PROVE  Foreign(remote[f].body) \subseteq seen
<1>1. CASE pass.pc = "put" /\ guard = FirstGuard(f)
  <2>1. manifest[f] # Null
    <3>1. remote[f].gen # 0
      BY DEF TypeOK, Objects
    <3> QED BY <1>1, <3>1 DEF FirstGuard, Accepts, GenOf, NoGen
  <2>2. EntryOK(f, manifest[f]) /\ guard = manifest[f].gen
    BY <1>1, <2>1 DEF SyncInv, FirstGuard
  <2> QED BY <2>2 DEF EntryOK, Read, Accepts, GenOf
<1>2. CASE pass.pc = "reput" /\ guard = RetryGuard(f)
  <2>1. Read(f, guard)
    BY <1>2, SendingFile DEF SendOK, Sending, RetryGuard
  <2>2. guard # NoGen
    <3>1. guard \in Gens
      BY <1>2 DEF TypeOK, RequestType, RetryGuard
    <3> QED BY <3>1, StoreSyncAssumption, FS_CardinalityType DEF Gens, NoGen
  <2> QED BY <2>1, <2>2 DEF Read, Accepts, GenOf
<1> QED BY <1>1, <1>2

\* A step of the pass that changes an object in "put" or "reput" is an upload
\* that the store accepts.
LEMMA OnlyUploadsStore ==
  ASSUME TypeOK, [Next]_vars, pass.pc \in {"put", "reput"}, NEW f \in Files,
         remote'[f] # remote[f], foreign' = foreign
  PROVE  /\ pass.file = f /\ local[f] # Null
         /\ \E guard : /\ \/ pass.pc = "put" /\ guard = FirstGuard(f)
                          \/ pass.pc = "reput" /\ guard = RetryGuard(f)
                       /\ Accepts(f, guard)
<1>1. remote' # remote
  OBVIOUS
<1>2. ~ (Tick \/ Flush \/ Stop \/ FinalSync \/ Takeover \/ UNCHANGED vars)
  BY <1>1 DEF Tick, Flush, Stop, FinalSync, Takeover, vars, daemon, history, bounds
<1>3. ~ \E g \in Files : Write(g) \/ Unlink(g) \/ ForeignWrite(g) \/ ForeignDelete(g)
  BY <1>1 DEF Write, Unlink, ForeignWrite, ForeignDelete, Unenv, TypeOK
<1>4. ~ \E g \in Files : Hash(g) \/ MergeRead(g) \/ MergeWrite(g) \/ Drop(g) \/ Redrop(g)
  BY DEF Hash, MergeRead, MergeWrite, Drop, Redrop
<1>5. ~ (DropPass \/ EndPass)
  BY DEF DropPass, EndPass
<1>6. PICK g \in Files : Put(g) \/ Reput(g)
  BY <1>2, <1>3, <1>4, <1>5 DEF Next, PassStep
<1>7. ~ (PutVanishes(g) \/ PutTooLarge(g) \/ PutConflicts(g) \/ ReputConflicts(g)
         \/ Refused \/ FailsBefore)
  BY <1>1 DEF PutVanishes, PutTooLarge, PutConflicts, ReputConflicts, Refused, FailsBefore
<1>8. PICK guard : /\ pass.file = g
                   /\ \/ pass.pc = "put" /\ guard = FirstGuard(g)
                      \/ pass.pc = "reput" /\ guard = RetryGuard(g)
                   /\ PutAccepted(g, guard) \/ PutUnanswered(g, guard)
  BY <1>6, <1>7 DEF Put, Reput
<1>9. local[g] # Null /\ Accepts(g, guard) /\ Stores(g)
  BY <1>8 DEF PutAccepted, PutUnanswered
<1>10. g = f
  BY <1>9 DEF Stores, TypeOK
<1> QED BY <1>8, <1>9, <1>10

\* The step keeps the other writer's entries, unless they had reached the pod.
LEMMA ForeignStep ==
  ASSUME TypeOK, SyncInv, [Next]_vars, NEW f \in Docs, pass.pc \in {"put", "reput"},
         remote[f] # Null, remote'[f] # Null, foreign' = foreign
  PROVE  (remote[f].body \ remote'[f].body) \subseteq 0 .. MaxEdits \cup seen
<1>0. f \in Files
  BY StoreSyncAssumption
<1>1. CASE remote'[f] = remote[f]
  BY <1>1
<1>2. CASE remote'[f] # remote[f]
  <2>1. Foreign(remote[f].body) \subseteq seen
    BY <1>0, <1>2, OnlyUploadsStore, GuardWasRead
  <2> QED BY <2>1 DEF Foreign
<1> QED BY <1>1, <1>2

\* No upload drops an entry of a document that the pod never had
\* (sync-back-conflicts.ts 112-140), for any number of files, edits and faults.
THEOREM ForeignSurvives == Spec => ForeignEntriesSurvive
<1>1. TypeOK /\ SyncInv /\ [Next]_vars =>
        [\A f \in Docs :
           pass.pc \in {"put", "reput"} /\ remote[f] # Null /\ remote'[f] # Null
             /\ foreign' = foreign
           => (remote[f].body \ remote'[f].body) \subseteq 0 .. MaxEdits \cup seen]_vars
  BY ForeignStep
<1>2. Spec => []TypeOK
  BY TypeCorrect
<1>3. Spec => []SyncInv
  BY KnowledgeIsTrue
<1> QED BY <1>1, <1>2, <1>3, PTL DEF Spec, ForeignEntriesSurvive

-----------------------------------------------------------------------------
(* What a flush or the final sync was called for is still to come.  A file  *)
(* owed to it is there and not stored, and the pass it waits for has not    *)
(* dealt with that file, or another pass follows.                           *)

Calls == {"flush", "final"}

\* The files the pass has still to deal with.
Left(p) == IF p.pc \in {"drop", "redrop"} THEN {} ELSE p.todo

LandInv ==
  /\ \A call \in Calls : \A f \in owed[call] : local[f] # Null /\ f \notin clean
  /\ flush = "waits" => pass.pc # "idle" /\ (rerun \/ owed.flush \subseteq Left(pass))
  /\ final = "runs" => pass.pc # "idle" /\ owed.final \subseteq Left(pass)
  /\ final # "no" => stopping
  /\ LandedMeansStored

\* What is still owed is kept by a pass that goes on, or another one.
LEMMA LandGoesOn ==
  ASSUME LandInv, NEW q, pass' = q, q.pc = "idle" => pass.pc = "idle",
         UNCHANGED <<flush, final, rerun, stopping>>,
         \A call \in Calls : owed'[call] \subseteq owed[call],
         \A call \in Calls : \A f \in owed'[call] :
            local'[f] # Null /\ f \notin clean' /\ (f \in Left(pass) => f \in Left(q))
  PROVE  LandInv'
<1>1. (\A call \in Calls : \A f \in owed[call] : local[f] # Null /\ f \notin clean)'
  OBVIOUS
<1>2. /\ owed'.flush \subseteq owed.flush /\ owed'.final \subseteq owed.final
      /\ \A f \in owed'.flush \cup owed'.final : f \in Left(pass) => f \in Left(q)
  BY DEF Calls
<1>3. /\ owed.flush \subseteq Left(pass) => owed'.flush \subseteq Left(q)
      /\ owed.final \subseteq Left(pass) => owed'.final \subseteq Left(q)
  BY <1>2
<1>4. Left(pass)' = Left(q)
  BY DEF Left
<1>5. /\ (flush = "waits" => pass.pc # "idle" /\ (rerun \/ owed.flush \subseteq Left(pass)))'
      /\ (final = "runs" => pass.pc # "idle" /\ owed.final \subseteq Left(pass))'
      /\ (final # "no" => stopping)'
  BY <1>3, <1>4 DEF LandInv
<1>6. LandedMeansStored'
  BY <1>2 DEF LandInv, LandedMeansStored
<1> QED BY <1>1, <1>5, <1>6 DEF LandInv

\* A pass that ends before its time leaves nobody who believes it has landed.
LEMMA LandFails ==
  ASSUME LandInv, Fails \/ Fenced, UNCHANGED local,
         \A call \in Calls : owed'[call] \subseteq owed[call],
         \A call \in Calls : \A f \in owed'[call] : f \notin clean'
  PROVE  LandInv'
<1>1. (\A call \in Calls : \A f \in owed[call] : local[f] # Null /\ f \notin clean)'
  BY DEF LandInv
<1>2. owed'.flush \subseteq owed.flush /\ owed'.final \subseteq owed.final
  BY DEF Calls
<1>3. /\ flush' # "waits" /\ (flush' = "done" => flush = "done")
      /\ final' # "runs" /\ (final' = "done" => final = "done")
      /\ (final' # "no" => final # "no") /\ stopping' = stopping
  BY DEF Fails, Fenced
<1> QED BY <1>1, <1>2, <1>3 DEF LandInv, LandedMeansStored

LEMMA SettlesIs ==
  ASSUME TypeOK, NEW f, Settles(f)
  PROVE  \A call \in Calls : owed'[call] = owed[call] \ {f}
BY DEF Settles, TypeOK, Calls

\* A pass that has dealt with a file to which nothing is owed any more.
LEMMA LandTodo ==
  ASSUME TypeOK, LandInv, NEW f \in Files, NEW e \in Entries \cup {Null},
         pass.pc \in Sending \cup {"scan"}, pass' = Todo(f, e),
         UNCHANGED <<local, flush, final, rerun, stopping>>,
         \A call \in Calls : owed'[call] \subseteq owed[call] \ {f},
         clean' \subseteq clean \cup {f}
  PROVE  LandInv'
<1>1. PICK q : q = Todo(f, e)
  OBVIOUS
<1>2. q.pc = "scan" /\ q.todo = pass.todo \ {f}
  BY <1>1, TodoIs
<1>3. Left(q) = pass.todo \ {f} /\ Left(pass) = pass.todo
  BY <1>2 DEF Left, Sending
<1>4. ASSUME NEW call \in Calls, NEW g \in owed'[call]
      PROVE  local'[g] # Null /\ g \notin clean' /\ (g \in Left(pass) => g \in Left(q))
  BY <1>3, <1>4 DEF LandInv
<1> QED BY <1>1, <1>2, <1>4, LandGoesOn

\* One that has as much left as before.
LEMMA LandStays ==
  ASSUME LandInv, NEW q, pass' = q, q.pc # "idle", Left(pass) \subseteq Left(q),
         UNCHANGED <<local, clean, owed, flush, final, rerun, stopping>>
  PROVE  LandInv'
<1>1. ASSUME NEW call \in Calls, NEW g \in owed'[call]
      PROVE  local'[g] # Null /\ g \notin clean' /\ (g \in Left(pass) => g \in Left(q))
  BY <1>1 DEF LandInv
<1> QED BY <1>1, LandGoesOn

\* Nothing is owed for a file that is not there or is stored.
LEMMA NotOwed ==
  ASSUME LandInv, NEW f, local[f] = Null \/ f \in clean
  PROVE  \A call \in Calls : f \notin owed[call]
BY DEF LandInv

LEMMA LandRefused == ASSUME LandInv, Refused PROVE LandInv'
<1>1. Fenced /\ UNCHANGED <<local, owed, clean>>
  BY DEF Refused, history
<1>2. \A call \in Calls : \A f \in owed'[call] : f \notin clean'
  BY <1>1 DEF LandInv
<1> QED BY <1>1, <1>2, LandFails

LEMMA LandFailsBefore == ASSUME LandInv, FailsBefore PROVE LandInv'
<1>1. Fails /\ UNCHANGED <<local, owed, clean>>
  BY DEF FailsBefore, history
<1>2. \A call \in Calls : \A f \in owed'[call] : f \notin clean'
  BY <1>1 DEF LandInv
<1> QED BY <1>1, <1>2, LandFails

\* A file the walk finds unchanged is stored, or was refused for its size.
LEMMA LandHash ==
  ASSUME TypeOK, SyncInv, LandInv, NEW f \in Files, Hash(f) PROVE LandInv'
<1>1. /\ pass.pc = "scan" /\ f \in pass.todo
      /\ UNCHANGED <<local, clean, flush, final, rerun, stopping>>
  BY DEF Hash, Unpass
<1>2. \A call \in Calls : owed'[call] = IF OverCap(f) THEN owed[call] \ {f} ELSE owed[call]
  BY SettlesIs DEF Hash
<1>3. CASE local[f] = Null /\ pass' = Todo(f, Null)
  <2>1. \A call \in Calls : owed'[call] \subseteq owed[call] \ {f}
    BY <1>2, <1>3, NotOwed
  <2>2. pass.pc \in Sending \cup {"scan"}
    BY <1>1
  <2> QED BY <1>1, <1>3, <2>1, <2>2, LandTodo
<1>4. CASE /\ local[f] # Null /\ manifest[f] # Null /\ manifest[f].hash = local[f]
           /\ pass' = Todo(f, manifest[f])
  <2>1. PICK e : e = manifest[f]
    OBVIOUS
  <2>2. e \in Entries \cup {Null} /\ EntryOK(f, e) /\ e.hash = local[f]
    BY <1>4, <2>1 DEF TypeOK, SyncInv
  <2>3. f \in clean \/ OverCap(f)
    BY <1>4, <2>1, <2>2 DEF EntryOK, Moved, OverCap
  <2>4. \A call \in Calls : owed'[call] \subseteq owed[call] \ {f}
    BY <1>2, <2>3, NotOwed
  <2>5. pass.pc \in Sending \cup {"scan"}
    BY <1>1
  <2> QED BY <1>1, <1>4, <2>1, <2>2, <2>4, <2>5, LandTodo
<1>5. CASE /\ ~ (manifest[f] # Null /\ manifest[f].hash = local[f])
           /\ pass' = [pass EXCEPT !.pc = "put", !.file = f, !.hash = local[f]]
  <2>1. PICK p, hash, q : p = pass /\ hash = local[f]
                          /\ q = [p EXCEPT !.pc = "put", !.file = f, !.hash = hash]
    OBVIOUS
  <2>2. p \in PassType
    BY <2>1 DEF TypeOK
  <2>3. q.pc = "put" /\ q.todo = p.todo
    BY <2>1, <2>2 DEF PassType
  <2>4. Left(pass) \subseteq Left(q) /\ q.pc # "idle" /\ pass' = q
    BY <1>1, <1>5, <2>1, <2>3 DEF Left
  <2>5. ~ OverCap(f) /\ owed' = owed
    BY <1>5 DEF OverCap, Hash
  <2> QED BY <1>1, <2>4, <2>5, LandStays
<1> QED BY <1>3, <1>4, <1>5 DEF Hash

LEMMA LandVanishes ==
  ASSUME TypeOK, LandInv, NEW f \in Files, pass.pc \in Sending, local[f] = Null,
         pass' = Todo(f, Null),
         UNCHANGED <<local, clean, owed, flush, final, rerun, stopping>>
  PROVE  LandInv'
<1>1. \A call \in Calls : owed'[call] \subseteq owed[call] \ {f}
  BY NotOwed
<1> QED BY <1>1, LandTodo

LEMMA LandAccepted ==
  ASSUME TypeOK, LandInv, NEW f \in Files, NEW guard, PutAccepted(f, guard),
         pass.pc \in Sending, pass.hash \in Bodies
  PROVE  LandInv'
<1>1. PICK e : e = [hash |-> pass.hash, gen |-> Fresh]
  OBVIOUS
<1>2. e \in Entries
  BY <1>1, FreshIsNew DEF Entries
<1>3. /\ pass' = Todo(f, e) /\ Stores(f)
      /\ UNCHANGED <<local, flush, final, rerun, stopping>>
  BY <1>1 DEF PutAccepted, Unpass
<1>4. /\ \A call \in Calls : owed'[call] \subseteq owed[call] \ {f}
      /\ clean' \subseteq clean \cup {f}
  BY <1>3, SettlesIs DEF Stores
<1> QED BY <1>2, <1>3, <1>4, LandTodo

LEMMA LandUnanswered ==
  ASSUME TypeOK, LandInv, NEW f \in Files, NEW guard, PutUnanswered(f, guard)
  PROVE  LandInv'
<1>1. Fails /\ Stores(f) /\ UNCHANGED local
  BY DEF PutUnanswered
<1>2. (\A call \in Calls : owed'[call] = owed[call] \ {f}) /\ clean' = clean \cup {f}
  BY <1>1, SettlesIs DEF Stores
<1>3. \A call \in Calls : \A g \in owed'[call] : g \notin clean'
  BY <1>2 DEF LandInv
<1> QED BY <1>1, <1>2, <1>3, LandFails

LEMMA LandTooLarge ==
  ASSUME TypeOK, LandInv, NEW f \in Files, PutTooLarge(f), pass.pc \in Sending,
         pass.hash \in Bodies
  PROVE  LandInv'
<1>1. PICK e : e = [hash |-> pass.hash, gen |-> NoGen]
  OBVIOUS
<1>2. e \in Entries
  BY <1>1 DEF Entries
<1>3. /\ pass' = Todo(f, e) /\ Settles(f)
      /\ UNCHANGED <<local, clean, flush, final, rerun, stopping>>
  BY <1>1 DEF PutTooLarge, Unpass
<1>4. \A call \in Calls : owed'[call] \subseteq owed[call] \ {f}
  BY <1>3, SettlesIs
<1> QED BY <1>2, <1>3, <1>4, LandTodo

LEMMA LandPutConflicts ==
  ASSUME TypeOK, LandInv, NEW f \in Files, pass.pc = "put", pass.file = f,
         PutConflicts(f)
  PROVE  LandInv'
<1>1. PICK p, pc, q :
        /\ p = pass /\ pc = IF f \in Docs THEN "merge" ELSE "reput"
        /\ q = [p EXCEPT !.pc = pc,
                         !.cache = IF @ = Null THEN [g \in Files |-> GenOf(g)] ELSE @]
  OBVIOUS
<1>2. /\ pass' = q
      /\ UNCHANGED <<local, clean, owed, flush, final, rerun, stopping>>
  BY <1>1 DEF PutConflicts, Unpass
<1>3. Conflicted(p, pc, f, q) /\ p = pass /\ pc \in {"merge", "reput"}
  BY <1>1 DEF Conflicted
<1>4. q.pc = pc /\ q.todo = p.todo
  BY <1>3, ConflictIs
<1>5. Left(pass) \subseteq Left(q) /\ q.pc # "idle"
  BY <1>3, <1>4 DEF Left
<1> QED BY <1>2, <1>5, LandStays

LEMMA LandPut ==
  ASSUME TypeOK, LandInv, NEW f \in Files, Put(f) PROVE LandInv'
<1>1. pass.pc = "put" /\ pass.file = f /\ pass.pc \in Sending /\ pass.hash \in Bodies
  BY DEF Put, Sending, TypeOK, RequestType
<1>2. CASE PutVanishes(f)
  BY <1>1, <1>2, LandVanishes DEF PutVanishes, Unpass
<1> QED BY <1>1, <1>2, LandAccepted, LandUnanswered, LandTooLarge, LandPutConflicts,
           LandRefused, LandFailsBefore DEF Put

LEMMA LandMergeRead ==
  ASSUME TypeOK, LandInv, NEW f \in Files, MergeRead(f) PROVE LandInv'
<1>1. /\ pass.pc = "merge" /\ pass.pc \in Sending
      /\ UNCHANGED <<local, clean, owed, flush, final, rerun, stopping>>
  BY DEF MergeRead, Unpass, Sending
<1>2. CASE local[f] = Null /\ pass' = Todo(f, Null)
  BY <1>1, <1>2, LandVanishes
<1>3. CASE pass' = [pass EXCEPT !.pc = "mergeWrite", !.mine = local[f]]
  <2>1. PICK p, mine, q : /\ p = pass /\ mine = local[f]
                          /\ q = [p EXCEPT !.pc = "mergeWrite", !.mine = mine]
    OBVIOUS
  <2>2. p \in PassType
    BY <2>1 DEF TypeOK
  <2>3. q.pc = "mergeWrite" /\ q.todo = p.todo
    BY <2>1, <2>2 DEF PassType
  <2>4. Left(pass) \subseteq Left(q) /\ q.pc # "idle" /\ pass' = q
    BY <1>1, <1>3, <2>1, <2>3 DEF Left
  <2> QED BY <1>1, <2>4, LandStays
<1> QED BY <1>2, <1>3 DEF MergeRead

\* The merge writes the file: what was owed for it still is.
LEMMA LandMergeWrite ==
  ASSUME TypeOK, LandInv, NEW f \in Files, MergeWrite(f) PROVE LandInv'
<1>1. pass.pc = "mergeWrite" /\ pass.file = f
  BY DEF MergeWrite
<1>2. CASE FailsBefore
  BY <1>2, LandFailsBefore
<1>3. CASE Fails /\ UNCHANGED <<local, remote, owner, history, bounds>>
  <2>1. \A call \in Calls : owed'[call] = owed[call]
    BY <1>3 DEF history
  <2>2. \A call \in Calls : \A g \in owed'[call] : g \notin clean'
    BY <1>3 DEF LandInv, history
  <2> QED BY <1>3, <2>1, <2>2, LandFails
<1>4. CASE /\ remote[f] # Null
           /\ LET merged == pass.mine \cup remote[f].body
              IN  /\ local' = [local EXCEPT ![f] = merged]
                  /\ pass' = [pass EXCEPT !.pc = "reput", !.hash = merged,
                                         !.mine = Null]
           /\ clean' = clean \ {f}
           /\ seen' = seen \cup (remote[f].body \ 0 .. MaxEdits)
           /\ UNCHANGED <<remote, owner, manifest, rerun, stopping, fenced,
                          final, tries, flush, owed, bounds>>
  <2>1. PICK p, merged, q : Merges(f, p, merged, q)
    BY DEF Merges
  <2>2. local' = [local EXCEPT ![f] = merged] /\ pass' = q /\ p = pass
    BY <1>4, <2>1 DEF Merges
  <2>3. q.pc = "reput" /\ q.todo = p.todo /\ merged \in Bodies
    BY <1>1, <1>4, <2>1, <2>2, MergedIs
  <2>4. Left(pass) = Left(q)
    BY <1>1, <2>2, <2>3 DEF Left
  <2>5. \A g : local[g] # Null => local'[g] # Null
    BY <2>2, <2>3, NullAssumption DEF TypeOK
  <2>6. ASSUME NEW call \in Calls, NEW g \in owed'[call]
        PROVE  local'[g] # Null /\ g \notin clean' /\ (g \in Left(pass) => g \in Left(q))
    BY <1>4, <2>4, <2>5, <2>6 DEF LandInv
  <2> QED BY <1>4, <2>2, <2>3, <2>6, LandGoesOn
<1> QED BY <1>2, <1>3, <1>4 DEF MergeWrite, Mergeables

LEMMA LandReputConflicts ==
  ASSUME TypeOK, LandInv, NEW f \in Files, ReputConflicts(f), pass.pc \in Sending,
         pass.cache \in [Files -> Gens]
  PROVE  LandInv'
<1>1. PICK e : e = IF manifest[f] = Null THEN Null
                   ELSE [manifest[f] EXCEPT !.gen = RetryGuard(f)]
  OBVIOUS
<1>2. e \in Entries \cup {Null}
  BY <1>1, OldEntryType DEF RetryGuard
<1>3. /\ pass' = Todo(f, e) /\ Settles(f)
      /\ UNCHANGED <<local, clean, flush, final, rerun, stopping>>
  BY <1>1 DEF ReputConflicts, Unpass
<1>4. \A call \in Calls : owed'[call] \subseteq owed[call] \ {f}
  BY <1>3, SettlesIs
<1> QED BY <1>2, <1>3, <1>4, LandTodo

LEMMA LandReput ==
  ASSUME TypeOK, LandInv, NEW f \in Files, Reput(f) PROVE LandInv'
<1>1. /\ pass.pc \in Sending /\ pass.hash \in Bodies /\ pass.cache \in [Files -> Gens]
  BY DEF Reput, Sending, TypeOK, RequestType
<1>2. CASE PutVanishes(f)
  BY <1>1, <1>2, LandVanishes DEF PutVanishes, Unpass
<1> QED BY <1>1, <1>2, LandAccepted, LandUnanswered, LandReputConflicts,
           LandRefused, LandFailsBefore DEF Reput

\* Once the walk is over nothing is left, and nothing may be owed.
LEMMA LandDropPass == ASSUME TypeOK, LandInv, DropPass PROVE LandInv'
<1>1. PICK p, q : p = pass /\ q = [p EXCEPT !.pc = "drop"]
  OBVIOUS
<1>2. q.pc = "drop"
  BY <1>1 DEF TypeOK, PassType
<1>3. Left(pass) = {} /\ Left(q) = {}
  BY <1>2 DEF DropPass, Left
<1>4. pass' = q /\ UNCHANGED <<local, clean, owed, flush, final, rerun, stopping>>
  BY <1>1 DEF DropPass, Unpass
<1> QED BY <1>2, <1>3, <1>4, LandStays

\* The delete pass goes on with nothing left.
LEMMA LandDropping ==
  ASSUME LandInv, pass.pc \in {"drop", "redrop"}, NEW q, pass' = q, q.pc # "idle",
         UNCHANGED <<local, clean, owed, flush, final, rerun, stopping>>
  PROVE  LandInv'
<1>1. Left(pass) = {}
  BY DEF Left
<1> QED BY <1>1, LandStays

LEMMA LandDropAccepted ==
  ASSUME TypeOK, LandInv, NEW f \in Files, NEW guard, DropAccepted(f, guard),
         pass.pc \in {"drop", "redrop"}
  PROVE  LandInv'
<1>1. PICK q : q = Dropped(f)
  OBVIOUS
<1>2. q.pc # "idle"
  BY <1>1, DroppedIs
<1>3. pass' = q /\ UNCHANGED <<local, clean, owed, flush, final, rerun, stopping>>
  BY <1>1 DEF DropAccepted, Removes, Unpass
<1> QED BY <1>2, <1>3, LandDropping

LEMMA LandDropUnanswered ==
  ASSUME LandInv, NEW f \in Files, NEW guard, DropUnanswered(f, guard)
  PROVE  LandInv'
<1>1. Fails /\ UNCHANGED <<local, owed, clean>>
  BY DEF DropUnanswered, Removes
<1>2. \A call \in Calls : \A g \in owed'[call] : g \notin clean'
  BY <1>1 DEF LandInv
<1> QED BY <1>1, <1>2, LandFails

LEMMA LandDrop ==
  ASSUME TypeOK, LandInv, NEW f \in Files, Drop(f) PROVE LandInv'
<1>1. pass.pc = "drop"
  BY DEF Drop
<1>2. CASE DropConflicts(f)
  <2>1. PICK p, q :
          /\ p = pass
          /\ q = [p EXCEPT !.pc = "redrop", !.file = f,
                           !.cache = IF @ = Null THEN [g \in Files |-> GenOf(g)] ELSE @]
    OBVIOUS
  <2>2. pass' = q /\ UNCHANGED <<local, clean, owed, flush, final, rerun, stopping>>
    BY <1>2, <2>1 DEF DropConflicts, Unpass
  <2>3. Conflicted(p, "redrop", f, q) /\ p = pass
    BY <2>1 DEF Conflicted
  <2>4. q.pc # "idle"
    BY <2>3, ConflictIs
  <2> QED BY <1>1, <2>2, <2>4, LandDropping
<1> QED BY <1>1, <1>2, LandDropAccepted, LandDropUnanswered, LandRefused,
           LandFailsBefore DEF Drop

LEMMA LandRedrop ==
  ASSUME TypeOK, LandInv, NEW f \in Files, Redrop(f) PROVE LandInv'
<1>1. pass.pc = "redrop" /\ manifest[f] # Null /\ pass.cache \in [Files -> Gens]
  BY DEF Redrop, TypeOK, RequestType
<1>2. CASE RedropNothing(f)
  <2>1. PICK q : q = Dropped(f)
    OBVIOUS
  <2>2. q.pc # "idle"
    BY <2>1, DroppedIs
  <2>3. pass' = q /\ UNCHANGED <<local, clean, owed, flush, final, rerun, stopping>>
    BY <1>2, <2>1 DEF RedropNothing, Unpass
  <2> QED BY <1>1, <2>2, <2>3, LandDropping
<1>3. CASE RedropConflicts(f)
  <2>1. PICK e, q : /\ e = [manifest[f] EXCEPT !.gen = RetryGuard(f)]
                    /\ q = [Dropped(f) EXCEPT !.next[f] = e]
    OBVIOUS
  <2>2. Keeps(f, e, q)
    BY <2>1 DEF Keeps
  <2>3. q.pc # "idle"
    BY <1>1, <2>2, RedroppedIs
  <2>4. pass' = q /\ UNCHANGED <<local, clean, owed, flush, final, rerun, stopping>>
    BY <1>3, <2>1 DEF RedropConflicts, Unpass
  <2> QED BY <1>1, <2>3, <2>4, LandDropping
<1> QED BY <1>1, <1>2, <1>3, LandDropAccepted, LandDropUnanswered, LandRefused,
           LandFailsBefore DEF Redrop

\* A pass that follows starts from every file that is there.
LEMMA StartLeaves ==
  ASSUME LandInv
  PROVE  /\ StartPass.pc # "idle"
         /\ \A call \in Calls : owed[call] \subseteq Files =>
               owed[call] \subseteq Left(StartPass)
BY StartIs DEF Left, LandInv

\* The end of a pass: nothing was left of it, so that what a call is told has
\* landed has, or a pass that was asked for meanwhile follows.
LEMMA LandEndPass == ASSUME TypeOK, LandInv, EndPass PROVE LandInv'
<1>1. Left(pass) = {} /\ UNCHANGED <<local, clean, owed, stopping>>
  BY DEF EndPass, Left, history
<1>2. owed.flush \subseteq Files /\ owed.final \subseteq Files
  BY DEF TypeOK
<1>3. (\A call \in Calls : \A f \in owed[call] : local[f] # Null /\ f \notin clean)'
  BY <1>1 DEF LandInv
<1>4. CASE Again
  <2>1. PICK q : q = StartPass
    OBVIOUS
  <2>2. pass' = q /\ q.pc # "idle" /\ owed.flush \subseteq Left(q)
    BY <1>2, <1>4, <2>1, StartLeaves DEF EndPass, Calls
  <2>3. Left(pass)' = Left(q)
    BY <2>2 DEF Left
  <2>4. final' = final /\ final = "no" /\ flush' = flush
    BY <1>4 DEF EndPass, Again, LandInv
  <2> QED BY <1>1, <1>3, <2>2, <2>3, <2>4 DEF LandInv, LandedMeansStored
<1>5. CASE ~ Again
  <2>1. /\ flush' # "waits" /\ final' # "runs"
        /\ flush' = "done" => flush = "done" \/ (flush = "waits" /\ ~ rerun)
        /\ final' = "done" => final \in {"runs", "done"}
        /\ final' # "no" => final # "no"
    BY <1>5 DEF EndPass
  <2> QED BY <1>1, <1>3, <2>1 DEF LandInv, LandedMeansStored
<1> QED BY <1>4, <1>5

\* A call that meets a pass asks for another, and one that does not starts it.
LEMMA RequestIs ==
  ASSUME RequestSync
  PROVE  \/ pass.pc # "idle" /\ rerun' = TRUE /\ pass' = pass
         \/ pass.pc = "idle" /\ rerun' = FALSE /\ pass' = StartPass
BY DEF RequestSync, Running

LEMMA LandTick == ASSUME TypeOK, LandInv, Tick PROVE LandInv'
<1>1. UNCHANGED <<local, clean, owed, flush, final, stopping>> /\ ~ stopping
  BY DEF Tick, history
<1>2. (\A call \in Calls : \A f \in owed[call] : local[f] # Null /\ f \notin clean)'
  BY <1>1 DEF LandInv
<1>3. final = "no"
  BY <1>1 DEF LandInv
<1>4. flush = "waits" => rerun' = TRUE /\ pass'.pc # "idle"
  BY RequestIs DEF Tick, LandInv
<1> QED BY <1>1, <1>2, <1>3, <1>4 DEF LandInv, LandedMeansStored

LEMMA LandFlush == ASSUME TypeOK, LandInv, Flush PROVE LandInv'
<1>1. /\ UNCHANGED <<local, clean, final, stopping>> /\ ~ stopping
      /\ flush' = "waits" /\ owed' = [owed EXCEPT !.flush = Unstored]
  BY DEF Flush
<1>2. owed'.flush = Unstored /\ owed'.final = owed.final
  BY <1>1 DEF TypeOK
<1>3. (\A call \in Calls : \A f \in owed[call] : local[f] # Null /\ f \notin clean)'
  BY <1>1, <1>2 DEF LandInv, Calls, Unstored
<1>4. final = "no"
  BY <1>1 DEF LandInv
<1>5. CASE pass.pc # "idle" /\ rerun' = TRUE /\ pass' = pass
  BY <1>1, <1>3, <1>4, <1>5 DEF LandInv, LandedMeansStored
<1>6. CASE pass' = StartPass
  <2>1. PICK q : q = StartPass
    OBVIOUS
  <2>2. q.pc # "idle" /\ Unstored \subseteq Left(q)
    BY <2>1, StartIs DEF Left, Unstored
  <2>3. Left(pass)' = Left(q)
    BY <1>6, <2>1 DEF Left
  <2>4. pass' = q
    BY <1>6, <2>1
  <2> QED BY <1>1, <1>2, <1>3, <1>4, <2>2, <2>3, <2>4 DEF LandInv, LandedMeansStored
<1> QED BY <1>5, <1>6, RequestIs DEF Flush

LEMMA LandStop == ASSUME TypeOK, LandInv, Stop PROVE LandInv'
<1>1. /\ UNCHANGED <<local, clean, pass, rerun, flush>>
      /\ stopping' = TRUE /\ final' = "waits" /\ owed' = [owed EXCEPT !.final = Unstored]
  BY DEF Stop
<1>2. owed'.final = Unstored /\ owed'.flush = owed.flush
  BY <1>1 DEF TypeOK
<1>3. (\A call \in Calls : \A f \in owed[call] : local[f] # Null /\ f \notin clean)'
  BY <1>1, <1>2 DEF LandInv, Calls, Unstored
<1>4. Left(pass)' = Left(pass)
  BY <1>1 DEF Left
<1> QED BY <1>1, <1>2, <1>3, <1>4 DEF LandInv, LandedMeansStored

LEMMA LandFinalSync == ASSUME TypeOK, LandInv, FinalSync PROVE LandInv'
<1>1. /\ UNCHANGED <<local, clean, owed, rerun, flush, stopping>>
      /\ final = "waits" /\ pass.pc = "idle"
  BY DEF FinalSync, history, Running
<1>2. flush # "waits" /\ stopping
  BY <1>1 DEF LandInv
<1>3. (\A call \in Calls : \A f \in owed[call] : local[f] # Null /\ f \notin clean)'
  BY <1>1 DEF LandInv
<1>4. CASE fenced
  BY <1>1, <1>2, <1>3, <1>4 DEF FinalSync, LandInv, LandedMeansStored
<1>5. CASE ~ fenced
  <2>1. PICK q : q = StartPass
    OBVIOUS
  <2>2. owed.final \subseteq Files
    BY DEF TypeOK
  <2>3. q.pc # "idle" /\ owed.final \subseteq Left(q)
    BY <2>1, <2>2, StartLeaves DEF Calls
  <2>4. pass' = q /\ final' = "runs"
    BY <1>5, <2>1 DEF FinalSync
  <2>5. Left(pass)' = Left(q)
    BY <2>4 DEF Left
  <2> QED BY <1>1, <1>2, <1>3, <2>3, <2>4, <2>5 DEF LandInv, LandedMeansStored
<1> QED BY <1>4, <1>5

\* An edit ends what was owed for the file.
LEMMA LandEdit ==
  ASSUME TypeOK, LandInv, NEW f \in Files, Write(f) \/ Unlink(f) PROVE LandInv'
<1>1. PICK body : local' = [local EXCEPT ![f] = body]
  BY DEF Write, Unlink
<1>2. /\ Settles(f) /\ clean' = clean \ {f}
      /\ UNCHANGED <<pass, flush, final, rerun, stopping>>
  BY DEF Write, Unlink, Unenv, daemon
<1>3. \A call \in Calls : owed'[call] = owed[call] \ {f}
  BY <1>2, SettlesIs
<1>4. PICK q : q = pass
  OBVIOUS
<1>5. \A g : g # f => local'[g] = local[g]
  BY <1>1 DEF TypeOK
<1>6. ASSUME NEW call \in Calls, NEW g \in owed'[call]
      PROVE  local'[g] # Null /\ g \notin clean' /\ (g \in Left(pass) => g \in Left(q))
  BY <1>2, <1>3, <1>4, <1>5, <1>6 DEF LandInv
<1>7. /\ pass' = q /\ (q.pc = "idle" => pass.pc = "idle")
      /\ \A call \in Calls : owed'[call] \subseteq owed[call]
  BY <1>2, <1>3, <1>4
<1> QED BY <1>2, <1>6, <1>7, LandGoesOn

LEMMA LandElsewhere ==
  ASSUME LandInv, UNCHANGED <<local, clean, owed, pass, flush, final, rerun, stopping>>
  PROVE  LandInv'
BY DEF LandInv, LandedMeansStored, Left

LEMMA LandStep == TypeOK /\ SyncInv /\ LandInv /\ [Next]_vars => LandInv'
<1> SUFFICES ASSUME TypeOK, SyncInv, LandInv, [Next]_vars PROVE LandInv'
  OBVIOUS
<1>1. ASSUME NEW f \in Files, Hash(f) PROVE LandInv'
  BY <1>1, LandHash
<1>2. ASSUME NEW f \in Files, Put(f) PROVE LandInv'
  BY <1>2, LandPut
<1>3. ASSUME NEW f \in Files, MergeRead(f) PROVE LandInv'
  BY <1>3, LandMergeRead
<1>4. ASSUME NEW f \in Files, MergeWrite(f) PROVE LandInv'
  BY <1>4, LandMergeWrite
<1>5. ASSUME NEW f \in Files, Reput(f) PROVE LandInv'
  BY <1>5, LandReput
<1>6. ASSUME NEW f \in Files, Drop(f) PROVE LandInv'
  BY <1>6, LandDrop
<1>7. ASSUME NEW f \in Files, Redrop(f) PROVE LandInv'
  BY <1>7, LandRedrop
<1>8. ASSUME NEW f \in Files, Write(f) \/ Unlink(f) PROVE LandInv'
  BY <1>8, LandEdit
<1>9. ASSUME NEW f \in Files, ForeignWrite(f) \/ ForeignDelete(f) PROVE LandInv'
  BY <1>9, LandElsewhere DEF ForeignWrite, ForeignDelete, Unenv, daemon, history
<1>10. CASE DropPass
  BY <1>10, LandDropPass
<1>11. CASE EndPass
  BY <1>11, LandEndPass
<1>12. CASE Tick
  BY <1>12, LandTick
<1>13. CASE Flush
  BY <1>13, LandFlush
<1>14. CASE Stop
  BY <1>14, LandStop
<1>15. CASE FinalSync
  BY <1>15, LandFinalSync
<1>16. CASE Takeover \/ UNCHANGED vars
  BY <1>16, LandElsewhere DEF Takeover, vars, daemon, history
<1> QED BY <1>1, <1>2, <1>3, <1>4, <1>5, <1>6, <1>7, <1>8, <1>9, <1>10, <1>11, <1>12,
           <1>13, <1>14, <1>15, <1>16 DEF Next, PassStep

LEMMA LandInit == Init => LandInv
<1> SUFFICES ASSUME owed = [call \in {"flush", "final"} |-> {}], flush = "none",
                    final = "no"
             PROVE  LandInv
  BY DEF Init
<1> QED BY DEF LandInv, LandedMeansStored, Calls

\* A flush that resolves, or a final sync that reports no failure, has stored
\* every file it was called for that has not changed since, unless a conflict,
\* the size cap or the lost lease was reported: for any number of files, edits
\* and faults (daemon.ts flush and stop, sync-back.ts).
THEOREM LandedAlways == Spec => []LandedMeansStored
<1>1. LandInv => LandedMeansStored
  BY DEF LandInv
<1>2. Spec => []TypeOK
  BY TypeCorrect
<1>3. Spec => []SyncInv
  BY KnowledgeIsTrue
<1> QED BY <1>1, <1>2, <1>3, LandInit, LandStep, PTL DEF Spec
=============================================================================
