------------------------------- MODULE StoreSync -------------------------------
(***************************************************************************)
(* The pod's store sync: StoreSyncDaemon (host/src/store-sync/daemon.ts)   *)
(* driving syncBack (runtime-client/src/object-sync/sync-back.ts).  The    *)
(* agent edits files of the pod while a pass walks them, hashes each, and  *)
(* uploads what differs from the manifest under a generation precondition; *)
(* another writer (the gateway) edits the same objects; a request may fail *)
(* before or after the store has applied it; a newer boot may take the     *)
(* write lease.                                                            *)
(*                                                                         *)
(* A body is the set of the edits it holds, and every edit is new, so two  *)
(* bodies are equal only when they are the same text: a hash is the body.  *)
(* A document (routines, learnings, custom definitions) is edited by       *)
(* adding an entry and merged entry by entry; any other file is replaced,  *)
(* and so is a document by an edit that leaves it malformed, or mends it.  *)
(* The state starts after hydrate(): the manifest is what was downloaded.  *)
(***************************************************************************)
EXTENDS Integers, FiniteSets

CONSTANTS
  Null,
  Files,       \* paths under the pod's root
  Docs,        \* those that mergeSyncBackDocument merges
  MaxEdits,    \* bound: writes and deletes of the agent
  MaxForeign,  \* bound: writes and deletes of another writer
  MaxFaults,   \* bound: requests that fail
  BadEdits     \* edits that leave text no document of its kind: it does not
               \* parse, has the wrong shape, or an unknown version

ASSUME StoreSyncAssumption ==
  /\ IsFiniteSet(Files) /\ Docs \subseteq Files
  /\ MaxEdits \in Nat /\ MaxForeign \in Nat /\ MaxFaults \in Nat
  /\ BadEdits \subseteq 0 .. MaxEdits + MaxForeign
  /\ Null \notin Files

VARIABLES
  local,     \* file -> body on the pod's disk, or Null
  remote,    \* object -> [body, gen] in the store, or Null
  owner,     \* the pod holds the write lease
  manifest,  \* file -> [hash, gen] of the last pass that succeeded, or Null
  pass,      \* the pass under way
  rerun,     \* rerunRequested
  stopping, fenced,
  final,     \* stop()'s final sync: "no", "waits", "runs", "done", "failed", "cut"
  tries,     \* attempts it has left
  flush,     \* the caller of flush(): "none", "waits", "done", "failed", "cut"
  clean,     \* files whose body on disk the store has accepted (history)
  owed,      \* files a flush or the final sync was called for and has not stored
  seen,      \* edits of the other writer that were in a file of the pod (history)
  edits, foreign, faults

daemon  == <<manifest, pass, rerun, stopping, fenced, final, tries, flush>>
history == <<clean, owed, seen>>
bounds  == <<edits, foreign, faults>>
vars    == <<local, remote, owner, daemon, history, bounds>>

NoGen == -1      \* an entry without a generation: the next write is unguarded
Bodies == SUBSET (0 .. MaxEdits + MaxForeign)
Gens   == 0 .. 4 * Cardinality(Files) + 1
Entries == [hash: Bodies, gen: Gens \cup {NoGen}]
Objects == [body: Bodies, gen: Gens \ {0}]

\* Null is no body, entry or object, nor the manifest that refresh() returns.
ASSUME NullAssumption ==
  /\ \A body \in Bodies : body # Null
  /\ \A entry \in Entries : entry # Null
  /\ \A object \in Objects : object # Null
  /\ \A cache \in [Files -> Gens] : cache # Null

Idle == [pc |-> "idle", file |-> Null, hash |-> Null, mine |-> Null,
         todo |-> {}, next |-> [f \in Files |-> Null], cache |-> Null]

-----------------------------------------------------------------------------
(* What a pass sends and what the store makes of it. *)

\* The generation the store holds for an object; 0 stands for "absent".
GenOf(f) == IF remote[f] = Null THEN 0 ELSE remote[f].gen

\* A generation is only ever compared with another: the store gives out one that
\* neither it nor the pod still holds, which keeps the model finite.
Held == {GenOf(f) : f \in Files}
        \cup {pass.cache[f] : f \in IF pass.cache = Null THEN {} ELSE Files}
        \cup {entry.gen : entry \in
               ({manifest[f] : f \in Files} \cup {pass.next[f] : f \in Files}) \ {Null}}
Fresh == CHOOSE g \in Gens \ Held : g > 0 /\ \A h \in 1 .. g - 1 : h \in Held

\* initialWriteOptions: the manifest's generation, "0" for a new file, and no
\* precondition for an entry without one.
FirstGuard(f) == IF manifest[f] = Null THEN 0 ELSE manifest[f].gen

\* (mutant) the retry carries no precondition.
UnguardedRetry(f) == NoGen

\* refresh() is cached for the whole pass, so a later conflict of the same
\* pass is retried with what the first one read.
RetryGuard(f) == pass.cache[f]

\* Nothing is owed for a file that is stored, changed again or reported.
Settles(f) == owed' = [call \in DOMAIN owed |-> owed[call] \ {f}]

Accepts(f, guard) == guard \in {NoGen, GenOf(f)}

Todo(f, entry) == [pass EXCEPT !.pc = "scan", !.file = Null, !.hash = Null,
                               !.mine = Null, !.todo = @ \ {f},
                               !.next[f] = entry]

\* The bytes are read from the disk when the request is sent, after the hash.
Stores(f) ==
  /\ remote' = [remote EXCEPT ![f] = [body |-> local[f], gen |-> Fresh]]
  /\ clean' = clean \cup {f}
  /\ Settles(f)

Removes(f) ==
  /\ remote' = [remote EXCEPT ![f] = Null]
  /\ UNCHANGED <<clean, owed>>

-----------------------------------------------------------------------------
(* The end of a pass. *)

Again == rerun /\ ~stopping /\ ~fenced

StartPass == [Idle EXCEPT !.pc = "scan",
                          !.todo = {f \in Files : local[f] # Null}]

\* A pass that throws: requestSync's loop rejects with it, and runFinalSync
\* tries again while it has attempts left.
Fails ==
  /\ pass' = Idle
  /\ flush' = IF flush = "waits" THEN "failed" ELSE flush
  /\ final' = IF final # "runs" THEN final
              ELSE IF tries = 0 THEN "failed" ELSE "waits"
  /\ tries' = IF final = "runs" /\ tries > 0 THEN tries - 1 ELSE tries
  /\ UNCHANGED <<manifest, rerun, stopping, fenced>>

Fault == /\ faults < MaxFaults
         /\ faults' = faults + 1
         /\ UNCHANGED <<edits, foreign>>

\* 409: loseFence latches for good; the pass ends without an error.
Fenced ==
  /\ pass' = Idle
  /\ fenced' = TRUE
  /\ rerun' = FALSE
  /\ flush' = IF flush = "waits" THEN "cut" ELSE flush
  /\ final' = IF final = "runs" THEN "cut" ELSE final
  /\ UNCHANGED <<manifest, stopping, tries>>

\* What a request other than a read may meet.
Refused == /\ ~owner
           /\ Fenced
           /\ UNCHANGED <<local, remote, owner, history, bounds>>

FailsBefore == /\ Fault
               /\ Fails
               /\ UNCHANGED <<local, remote, owner, history>>

-----------------------------------------------------------------------------
(* syncBack, file by file. *)

Unpass == UNCHANGED <<local, owner, manifest, rerun, stopping, fenced, final,
                      tries, flush, seen>>

\* A file the store refused for its size, unchanged since.
OverCap(f) == /\ manifest[f] # Null /\ manifest[f].gen = NoGen
              /\ manifest[f].hash = local[f]

\* Mutant: a file the manifest has is taken to be unchanged.
HashNewOnly(f) ==
  /\ pass.pc = "scan" /\ f \in pass.todo
  /\ pass' = IF local[f] = Null THEN Todo(f, Null)
             ELSE IF manifest[f] # Null THEN Todo(f, manifest[f])
             ELSE [pass EXCEPT !.pc = "put", !.file = f, !.hash = local[f]]
  /\ IF OverCap(f) THEN Settles(f) ELSE owed' = owed
  /\ Unpass
  /\ UNCHANGED <<remote, clean, bounds>>

\* A walked file is hashed; one that vanished or has not changed needs nothing.
Hash(f) ==
  /\ pass.pc = "scan" /\ f \in pass.todo
  /\ pass' = IF local[f] = Null THEN Todo(f, Null)
             ELSE IF manifest[f] # Null /\ manifest[f].hash = local[f]
             THEN Todo(f, manifest[f])
             ELSE [pass EXCEPT !.pc = "put", !.file = f, !.hash = local[f]]
  /\ IF OverCap(f) THEN Settles(f) ELSE owed' = owed
  /\ Unpass
  /\ UNCHANGED <<remote, clean, bounds>>

PutVanishes(f) ==
  /\ local[f] = Null
  /\ pass' = Todo(f, Null)
  /\ Unpass
  /\ UNCHANGED <<remote, clean, owed, bounds>>

PutAccepted(f, guard) ==
  /\ local[f] # Null /\ owner /\ Accepts(f, guard)
  /\ Stores(f)
  /\ pass' = Todo(f, [hash |-> pass.hash, gen |-> Fresh])
  /\ Unpass
  /\ UNCHANGED bounds

\* The store applied the write and the answer was lost: guarded writes are not
\* retried, so the pass fails and the manifest does not learn of it.
PutUnanswered(f, guard) ==
  /\ local[f] # Null /\ owner /\ Accepts(f, guard)
  /\ Stores(f)
  /\ Fault
  /\ Fails
  /\ UNCHANGED <<local, owner, seen>>

\* 413: the file stays local until it changes.
PutTooLarge(f) ==
  /\ local[f] # Null /\ owner /\ f \notin Docs
  /\ Fault
  /\ pass' = Todo(f, [hash |-> pass.hash, gen |-> NoGen])
  /\ Settles(f)
  /\ Unpass
  /\ UNCHANGED <<remote, clean>>

PutConflicts(f) ==
  /\ local[f] # Null /\ owner /\ ~Accepts(f, FirstGuard(f))
  /\ pass' = [pass EXCEPT !.pc = IF f \in Docs THEN "merge" ELSE "reput",
                          !.cache = IF @ = Null THEN [g \in Files |-> GenOf(g)]
                                    ELSE @]
  /\ Unpass
  /\ UNCHANGED <<remote, clean, owed, bounds>>

Put(f) ==
  /\ pass.pc = "put" /\ pass.file = f
  /\ \/ PutVanishes(f)
     \/ PutAccepted(f, FirstGuard(f))
     \/ PutUnanswered(f, FirstGuard(f))
     \/ PutTooLarge(f)
     \/ PutConflicts(f)
     \/ local[f] # Null /\ (Refused \/ FailsBefore)

\* mergeSyncBackDocument reads the file, then waits for the download.
MergeRead(f) ==
  /\ pass.pc = "merge" /\ pass.file = f
  /\ pass' = IF local[f] = Null THEN Todo(f, Null)
             ELSE [pass EXCEPT !.pc = "mergeWrite", !.mine = local[f]]
  /\ Unpass
  /\ UNCHANGED <<remote, clean, owed, bounds>>

\* What mergeDocumentBodies parses without an error.
Mergeable(body) == body \cap BadEdits = {}

\* What is in the store can be merged with this body of the pod's.
Mergeables(f, body) ==
  remote[f] # Null /\ Mergeable(body) /\ Mergeable(remote[f].body)

\* Then it overwrites the file with both sides' entries.  A document that is
\* gone from the store is an ObjectNotFoundError, one that is malformed on
\* either side an error of its own: they fail the pass.
MergeWrite(f) ==
  /\ pass.pc = "mergeWrite" /\ pass.file = f
  /\ \/ /\ Mergeables(f, pass.mine)
        /\ LET merged == pass.mine \cup remote[f].body
           IN  /\ local' = [local EXCEPT ![f] = merged]
               /\ pass' = [pass EXCEPT !.pc = "reput", !.hash = merged,
                                      !.mine = Null]
        /\ clean' = clean \ {f}
        /\ seen' = seen \cup (remote[f].body \ 0 .. MaxEdits)
        /\ UNCHANGED <<remote, owner, manifest, rerun, stopping, fenced,
                       final, tries, flush, owed, bounds>>
     \/ /\ ~Mergeables(f, pass.mine)
        /\ Fails
        /\ UNCHANGED <<local, remote, owner, history, bounds>>
     \/ FailsBefore

\* The second conflict is recorded: the old entry with the refreshed generation.
ReputConflicts(f) ==
  /\ local[f] # Null /\ owner /\ ~Accepts(f, RetryGuard(f))
  /\ pass' = Todo(f, IF manifest[f] = Null THEN Null
                     ELSE [manifest[f] EXCEPT !.gen = RetryGuard(f)])
  /\ Settles(f)
  /\ Unpass
  /\ UNCHANGED <<remote, clean, bounds>>

Reput(f) ==
  /\ pass.pc = "reput" /\ pass.file = f
  /\ \/ PutVanishes(f)
     \/ PutAccepted(f, RetryGuard(f))
     \/ PutUnanswered(f, RetryGuard(f))
     \/ ReputConflicts(f)
     \/ local[f] # Null /\ (Refused \/ FailsBefore)

\* Objects of the manifest that the walk did not meet are deleted: only they.
Gone == {f \in Files : manifest[f] # Null /\ pass.next[f] = Null}

Dropped(f) == [pass EXCEPT !.pc = "drop", !.file = Null, !.todo = @ \cup {f}]

\* After the walk, todo collects what the delete pass has dealt with.
DropPass ==
  /\ pass.pc = "scan" /\ pass.todo = {}
  /\ pass' = [pass EXCEPT !.pc = "drop"]
  /\ Unpass
  /\ UNCHANGED <<remote, clean, owed, bounds>>

DropAccepted(f, guard) ==
  /\ owner /\ (remote[f] = Null \/ Accepts(f, guard))
  /\ Removes(f)
  /\ pass' = Dropped(f)
  /\ Unpass
  /\ UNCHANGED bounds

DropUnanswered(f, guard) ==
  /\ owner /\ Accepts(f, guard)
  /\ Removes(f)
  /\ Fault
  /\ Fails
  /\ UNCHANGED <<local, owner, seen>>

DropConflicts(f) ==
  /\ owner /\ remote[f] # Null /\ ~Accepts(f, FirstGuard(f))
  /\ pass' = [pass EXCEPT !.pc = "redrop", !.file = f,
                          !.cache = IF @ = Null THEN [g \in Files |-> GenOf(g)]
                                    ELSE @]
  /\ Unpass
  /\ UNCHANGED <<remote, clean, owed, bounds>>

Drop(f) ==
  /\ pass.pc = "drop" /\ f \in Gone \ pass.todo
  /\ \/ DropAccepted(f, FirstGuard(f))
     \/ DropUnanswered(f, FirstGuard(f))
     \/ DropConflicts(f)
     \/ Refused
     \/ FailsBefore

RedropConflicts(f) ==
  /\ owner /\ RetryGuard(f) # 0 /\ remote[f] # Null /\ ~Accepts(f, RetryGuard(f))
  /\ pass' = [Dropped(f) EXCEPT
                !.next[f] = [manifest[f] EXCEPT !.gen = RetryGuard(f)]]
  /\ Unpass
  /\ UNCHANGED <<remote, clean, owed, bounds>>

\* The refreshed manifest may say that the object is gone already.
RedropNothing(f) ==
  /\ RetryGuard(f) = 0
  /\ pass' = Dropped(f)
  /\ Unpass
  /\ UNCHANGED <<remote, clean, owed, bounds>>

Redrop(f) ==
  /\ pass.pc = "redrop" /\ pass.file = f
  /\ \/ RedropNothing(f)
     \/ /\ RetryGuard(f) # 0
        /\ \/ DropAccepted(f, RetryGuard(f))
           \/ DropUnanswered(f, RetryGuard(f))
           \/ Refused
           \/ FailsBefore
     \/ RedropConflicts(f)

\* The pass succeeded: its manifest becomes the daemon's.  A pass asked for
\* meanwhile follows at once, unless the daemon stops or lost the lease.
EndPass ==
  /\ pass.pc = "drop" /\ Gone \subseteq pass.todo
  /\ manifest' = pass.next
  /\ pass' = IF Again THEN StartPass ELSE Idle
  /\ rerun' = (rerun /\ ~Again)
  /\ flush' = CASE flush # "waits" \/ Again -> flush
                [] OTHER -> IF rerun THEN "cut" ELSE "done"
  /\ final' = IF final = "runs" THEN "done" ELSE final
  /\ UNCHANGED <<local, remote, owner, stopping, fenced, tries, history,
                 bounds>>

PassStep == \/ \E f \in Files : \/ Hash(f) \/ Put(f) \/ MergeRead(f)
                                \/ MergeWrite(f) \/ Reput(f)
                                \/ Drop(f) \/ Redrop(f)
            \/ DropPass
            \/ EndPass

-----------------------------------------------------------------------------
(* The daemon. *)

Running == pass.pc # "idle"

\* (mutant) a request that meets a pass only waits for its end.
JoinsOnly ==
  IF Running THEN UNCHANGED <<rerun, pass>>
             ELSE /\ rerun' = FALSE
                  /\ pass' = StartPass

\* requestSync: one pass at a time; a request that meets one asks for another.
RequestSync ==
  IF Running THEN /\ rerun' = TRUE
                  /\ pass' = pass
             ELSE /\ rerun' = FALSE
                  /\ pass' = StartPass

\* The periodic timer, and the debounced one after a change.
Tick ==
  /\ ~stopping /\ ~fenced
  /\ RequestSync
  /\ UNCHANGED <<local, remote, owner, manifest, stopping, fenced, final,
                 tries, flush, history, bounds>>

Unstored == {f \in Files : local[f] # Null} \ clean

\* flush(): resolves when the pass it joined or started has ended.
Flush ==
  /\ ~stopping /\ ~fenced /\ flush = "none"
  /\ RequestSync
  /\ flush' = "waits"
  /\ owed' = [owed EXCEPT !.flush = Unstored]
  /\ UNCHANGED <<local, remote, owner, manifest, stopping, fenced, final,
                 tries, clean, seen, bounds>>

\* stop(): no more timers; what is under way ends first.
Stop ==
  /\ ~stopping
  /\ stopping' = TRUE
  /\ final' = "waits"
  /\ owed' = [owed EXCEPT !.final = Unstored]
  /\ UNCHANGED <<local, remote, owner, manifest, pass, rerun, fenced,
                 tries, flush, clean, seen, bounds>>

\* A fenced pod skips the final sync; any other makes an attempt of it.
FinalSync ==
  /\ final = "waits" /\ ~Running
  /\ final' = IF fenced THEN "cut" ELSE "runs"
  /\ pass' = IF fenced THEN pass ELSE StartPass
  /\ UNCHANGED <<local, remote, owner, manifest, rerun, stopping, fenced,
                 tries, flush, history, bounds>>

-----------------------------------------------------------------------------
(* The environment: the agent, the other writer, a newer boot. *)

Unenv == UNCHANGED <<owner, daemon, seen, faults>>

\* An entry is added to a document; the rest is a new text.
Edited(f, old, n) ==
  IF f \in Docs /\ old # Null /\ Mergeable(old \cup {n}) THEN old \cup {n} ELSE {n}

Write(f) ==
  /\ edits < MaxEdits
  /\ edits' = edits + 1
  /\ local' = [local EXCEPT ![f] = Edited(f, @, edits + 1)]
  /\ clean' = clean \ {f}
  /\ Settles(f)
  /\ Unenv /\ UNCHANGED <<remote, foreign>>

Unlink(f) ==
  /\ edits < MaxEdits /\ local[f] # Null
  /\ edits' = edits + 1
  /\ local' = [local EXCEPT ![f] = Null]
  /\ clean' = clean \ {f}
  /\ Settles(f)
  /\ Unenv /\ UNCHANGED <<remote, foreign>>

ForeignWrite(f) ==
  /\ foreign < MaxForeign
  /\ foreign' = foreign + 1
  /\ LET old == IF remote[f] = Null THEN Null ELSE remote[f].body
     IN  remote' = [remote EXCEPT ![f] =
                      [body |-> Edited(f, old, MaxEdits + foreign + 1),
                       gen |-> Fresh]]
  /\ UNCHANGED <<local, owner, daemon, history, edits, faults>>

ForeignDelete(f) ==
  /\ foreign < MaxForeign /\ remote[f] # Null
  /\ foreign' = foreign + 1
  /\ remote' = [remote EXCEPT ![f] = Null]
  /\ Unenv /\ UNCHANGED <<local, clean, owed, edits>>

\* A newer boot claims the lease: the store refuses this pod from now on.
Takeover ==
  /\ owner
  /\ owner' = FALSE
  /\ UNCHANGED <<local, remote, daemon, history, bounds>>

-----------------------------------------------------------------------------
Init ==
  \E hydrated \in SUBSET Files :
    /\ local = [f \in Files |-> IF f \in hydrated THEN {0} ELSE Null]
    /\ remote = [f \in Files |-> IF f \in hydrated
                                 THEN [body |-> {0}, gen |-> 1] ELSE Null]
    /\ manifest = [f \in Files |-> IF f \in hydrated
                                   THEN [hash |-> {0}, gen |-> 1] ELSE Null]
    /\ clean = hydrated
    /\ owner = TRUE
    /\ pass = Idle /\ rerun = FALSE /\ stopping = FALSE /\ fenced = FALSE
    /\ final = "no" /\ tries = 2 /\ flush = "none"
    /\ owed = [call \in {"flush", "final"} |-> {}] /\ seen = {}
    /\ edits = 0 /\ foreign = 0 /\ faults = 0

Next == \/ PassStep \/ Tick \/ Flush \/ Stop \/ FinalSync \/ Takeover
        \/ \E f \in Files : \/ Write(f) \/ Unlink(f)
                            \/ ForeignWrite(f) \/ ForeignDelete(f)

Spec == Init /\ [][Next]_vars

\* Requests are answered or fail, and the periodic timer goes on ticking.
FairSpec == Spec /\ WF_vars(PassStep) /\ WF_vars(Tick)

-----------------------------------------------------------------------------
PassType ==
  [pc : {"idle", "scan", "put", "merge", "mergeWrite", "reput", "drop", "redrop"},
   file : Files \cup {Null}, hash : Bodies \cup {Null}, mine : Bodies \cup {Null},
   todo : SUBSET Files, next : [Files -> Entries \cup {Null}],
   cache : [Files -> Gens] \cup {Null}]

\* What the request under way needs.
RequestType(p) ==
  /\ p.pc \in {"put", "merge", "mergeWrite", "reput", "redrop"} => p.file \in Files
  /\ p.pc \in {"put", "reput"} => p.hash \in Bodies
  /\ p.pc = "mergeWrite" => p.mine \in Bodies
  /\ p.pc \in {"merge", "mergeWrite", "reput", "redrop"} => p.cache \in [Files -> Gens]
  /\ p.pc = "redrop" => manifest[p.file] # Null

\* Every variable stays within its type.
TypeOK ==
  /\ local \in [Files -> Bodies \cup {Null}]
  /\ remote \in [Files -> Objects \cup {Null}]
  /\ manifest \in [Files -> Entries \cup {Null}]
  /\ pass \in PassType
  /\ {owner, rerun, stopping, fenced} \subseteq BOOLEAN
  /\ final \in {"no", "waits", "runs", "done", "failed", "cut"}
  /\ tries \in 0..2
  /\ flush \in {"none", "waits", "done", "failed", "cut"}
  /\ clean \subseteq Files
  /\ owed \in [{"flush", "final"} -> SUBSET Files]
  /\ seen \subseteq 0 .. MaxEdits + MaxForeign
  /\ edits \in 0..MaxEdits /\ foreign \in 0..MaxForeign /\ faults \in 0..MaxFaults
  /\ RequestType(pass)

\* flush() "resolve[s] once it landed", and a final sync that reports no
\* failure stored what the pod had when stop() was called: every file unchanged
\* since then is in the store, unless a conflict, the size cap or the lost
\* lease was reported.  It needs the rerun of a pass that was already past the
\* file, a manifest that only records what was stored, and hash before upload.
LandedMeansStored == /\ flush = "done" => owed.flush = {}
                     /\ final = "done" => owed.final = {}

\* No upload drops an entry of a document that the pod never had: a conflict
\* is merged, and its retry is guarded by a generation no newer than the body
\* that was merged (sync-back-conflicts.ts 112-140).
ForeignEntriesSurvive ==
  [][\A f \in Docs :
       pass.pc \in {"put", "reput"} /\ remote[f] # Null /\ remote'[f] # Null
         /\ foreign' = foreign
       => (remote[f].body \ remote'[f].body) \subseteq 0 .. MaxEdits \cup seen]_vars

\* A changed document that needs a merge and cannot have one fails every pass:
\* its object is gone, or one of the two texts is malformed.
Stuck(d) == /\ local[d] # Null
            /\ ~Accepts(d, FirstGuard(d))
            /\ ~Mergeables(d, local[d])

AllStored == \A f \in Files : f \in clean \/ local[f] = Null \/ OverCap(f)

\* While the pod owns its store and is not told to stop, a change reaches the
\* store whatever request fails: the periodic pass finds it again.  The one thing
\* that holds it up is a document that cannot be merged, with which every pass
\* fails until its text, or the object, is another.
EveryEditIsStored ==
  []<>(AllStored \/ stopping \/ ~owner \/ \E d \in Docs : Stuck(d))

\* "the periodic pass guarantees eventual sync regardless" (daemon-policy.ts
\* 62-63): the same without the exception for documents.
PeriodicPassGuaranteesSync ==
  []<>(AllStored \/ stopping \/ ~owner)
=============================================================================
