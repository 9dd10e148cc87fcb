---------------------------- MODULE LearningStore ---------------------------
(***************************************************************************)
(* How the engine keeps what it learned: corrections (CorrectionStore) and *)
(* candidates for the dedicated learner are taken into RAM on the request  *)
(* threads, written to the learning directory by jobs of the maintenance   *)
(* lane, erased by ClearLearning, moved or switched off by ReloadConfig    *)
(* and saved once more before a graceful stop.                             *)
(*                                                                         *)
(* Request handlers hold serviceLock, except ClearLearning, which runs     *)
(* beside them.  converterLock is held over several steps only by a clear; *)
(* every other critical section of it is one action.  File writes happen   *)
(* under no lock.  The lane is what BackgroundMaintenance shows it to be:  *)
(* one job at a time, at most one waiting per label, and a fence that      *)
(* passes when everything runnable on its arrival has run.                 *)
(***************************************************************************)
EXTENDS Integers, Sequences, FiniteSets

CONSTANTS
  Dirs,            \* learning directories
  MaxSerial,       \* bound: things learned
  MaxGeneration,   \* bound: clears and reloads
  Attempts         \* tries of one persistence job ("for _ in 0..<3")

ASSUME StoreAssumption ==
  /\ Dirs # {} /\ MaxSerial \in Nat /\ MaxGeneration \in Nat /\ Attempts \in Nat \ {0}

VARIABLES
  serial,      \* things learned so far: the n-th correction or candidate is n
  dir,         \* learningDirectory
  enabled,     \* learning.enabled
  generation,  \* learningGeneration
  store,       \* corrections: [no, entries, dirty, version, loaded]
  pendingLearning,  \* sequence of [id, generation, dir]
  runnable,    \* labels waiting on the maintenance lane
  executing,   \* what the lane executes: "none", a label or "shutdown"
  batch,       \* the candidates drainLearningPersistence still has to write
  writing,     \* it holds learningPersistenceLock and has passed its check
  snapshot,    \* the correction job's snapshot, in a sequence
  tries,       \* tries the correction job has left
  persisted,   \* its snapshot is on disk
  clear,       \* phase of the running ClearLearning, or "no"
  shutdown,    \* phase of the graceful stop, or "no"
  awaits,      \* fence -> labels it waits for
  files,       \* directory -> corrections.json: <<>>, or its entries in a sequence
  trie,        \* directory -> candidates in the learner's files
  erased,      \* history: <<directory, thing>> a successful clear has erased
  retired,     \* history: the last store a reload replaced while it was dirty
  wiped,       \* history: a clear has emptied this process's RAM
  writeFailed  \* history: the last write of corrections failed

settingsVars == <<dir, enabled, generation>>
ramVars == <<store, pendingLearning>>
jobVars == <<batch, writing, snapshot, tries, persisted>>
laneVars == <<runnable, executing, jobVars>>
diskVars == <<files, trie>>
historyVars == <<erased, retired, wiped, writeFailed>>
vars == <<serial, settingsVars, ramVars, laneVars, clear, shutdown, awaits, diskVars, historyVars>>

Labels == {"learning", "correction"}
FreshStore(no) == [no |-> no, entries |-> {}, dirty |-> FALSE, version |-> 0, loaded |-> FALSE]

ServiceFree == shutdown \in {"no", "flushed"}
ConverterFree_ThroughFence ==   \* mutant: converterLock is taken before the barrier
  clear \notin {"fencing", "fenced", "wiped", "removed"}

ConverterFree == clear \notin {"wiped", "removed"}
-----------------------------------------------------------------------------
(* CorrectionStore.loadIfNeeded: the file is read once, before first use.  *)
Loaded ==
  IF store.loaded THEN store
  ELSE [store EXCEPT !.loaded = TRUE,
                     !.entries = IF files[dir] = <<>> THEN {} ELSE files[dir][1]]

Changed(entries) ==
  [Loaded EXCEPT !.entries = entries, !.dirty = TRUE, !.version = @ + 1]

Request == ServiceFree /\ ConverterFree /\ enabled /\ serial < MaxSerial

(* recordCorrection, and the correction a legacy commit records.           *)
RecordCorrection ==
  /\ Request
  /\ serial' = serial + 1
  /\ store' = Changed(Loaded.entries \cup {serial + 1})
  /\ runnable' = runnable \cup {"correction"}
  /\ UNCHANGED <<settingsVars, pendingLearning, executing, jobVars, clear, shutdown, awaits,
                 diskVars, historyVars>>

(* The same for a rejected promotion: the correction is un-learned.        *)
Unlearn(i) ==
  /\ Request /\ i \in Loaded.entries
  /\ serial' = serial + 1
  /\ store' = Changed(Loaded.entries \ {i})
  /\ runnable' = runnable \cup {"correction"}
  /\ UNCHANGED <<settingsVars, pendingLearning, executing, jobVars, clear, shutdown, awaits,
                 diskVars, historyVars>>

(* commitReceipt accepting a candidate, chosen explicitly or not: unlike   *)
(* the two above it is refused while a clear runs (see CommitLedger).      *)
CommitReceipt(explicit) ==
  /\ Request /\ clear = "no"
  /\ serial' = serial + 1
  /\ pendingLearning' = Append(pendingLearning, [id |-> serial + 1, generation |-> generation, dir |-> dir])
  /\ store' = IF explicit THEN Changed(Loaded.entries \cup {serial + 1}) ELSE store
  /\ runnable' = runnable \cup (IF explicit THEN Labels ELSE {"learning"})
  /\ UNCHANGED <<settingsVars, executing, jobVars, clear, shutdown, awaits, diskVars, historyVars>>

(* reload with learningChanged.  It is answered "busy" while a candidate   *)
(* is being written.                                                       *)
Reload(d, on) ==
  /\ ServiceFree /\ ConverterFree /\ generation < MaxGeneration
  /\ d # dir \/ on # enabled
  /\ ~writing
  /\ dir' = d /\ enabled' = on /\ generation' = generation + 1
  /\ runnable' = IF d # dir \/ (enabled /\ ~on) THEN runnable \cup {"correction"} ELSE runnable
  /\ store' = IF d # dir THEN FreshStore(store.no + 1) ELSE store
  /\ pendingLearning' = <<>>
  /\ retired' = IF d # dir /\ store.dirty THEN <<[dir |-> dir, entries |-> store.entries]>> ELSE retired
  /\ UNCHANGED <<serial, executing, jobVars, clear, shutdown, awaits, diskVars, erased, wiped,
                 writeFailed>>
-----------------------------------------------------------------------------
(* The lane starts a job; the learning job takes everything pending.       *)
StartJob(label) ==
  /\ executing = "none" /\ label \in runnable
  /\ executing' = label /\ runnable' = runnable \ {label}
  /\ awaits' = [f \in DOMAIN awaits |-> awaits[f] \ {label}]
  /\ IF label = "learning"
     THEN batch' = pendingLearning /\ pendingLearning' = <<>> /\ UNCHANGED tries
     ELSE tries' = Attempts /\ UNCHANGED <<batch, pendingLearning>>
  /\ UNCHANGED <<serial, settingsVars, store, writing, snapshot, persisted, clear, shutdown,
                 diskVars, historyVars>>

LaneOnly == UNCHANGED <<serial, settingsVars, pendingLearning, runnable, clear, awaits>>

Draining == executing \in {"learning", "shutdown"} /\ batch # <<>>

(* drainLearningPersistence, for each candidate, holding                   *)
(* learningPersistenceLock: is its generation current,                     *)
CheckCandidate ==
  /\ Draining /\ ~writing
  /\ IF clear = "no" /\ Head(batch).generation = generation
     THEN writing' = TRUE /\ UNCHANGED batch
     ELSE batch' = Tail(batch) /\ UNCHANGED writing
  /\ LaneOnly /\ UNCHANGED <<store, executing, snapshot, tries, persisted, shutdown, diskVars, historyVars>>

(* then the learner writes it.                                             *)
WriteCandidate ==
  /\ writing
  /\ trie' = [trie EXCEPT ![Head(batch).dir] = @ \cup {Head(batch).id}]
  /\ batch' = Tail(batch) /\ writing' = FALSE
  /\ LaneOnly /\ UNCHANGED <<store, executing, snapshot, tries, persisted, shutdown, files, historyVars>>

DrainEnds ==
  /\ executing \in {"learning", "shutdown"} /\ batch = <<>>
  /\ executing' = "none"
  /\ shutdown' = IF executing = "shutdown" THEN "drained" ELSE shutdown
  /\ LaneOnly /\ UNCHANGED <<store, jobVars, diskVars, historyVars>>

(* The correction job: a snapshot of the store there is now, if dirty,     *)
TakeSnapshot ==
  /\ executing = "correction" /\ snapshot = <<>> /\ ConverterFree
  /\ IF store.dirty
     THEN /\ snapshot' = <<[no |-> store.no, dir |-> dir, entries |-> store.entries,
                            version |-> store.version]>>
          /\ UNCHANGED executing
     ELSE executing' = "none" /\ UNCHANGED snapshot
  /\ LaneOnly /\ UNCHANGED <<store, batch, writing, tries, persisted, shutdown, diskVars, historyVars>>

(* written outside the lock; a failed write is tried again,                *)
PersistSnapshot ==
  /\ snapshot # <<>> /\ ~persisted
  /\ \/ /\ files' = [files EXCEPT ![snapshot[1].dir] = <<snapshot[1].entries>>]
        /\ persisted' = TRUE /\ writeFailed' = FALSE
        /\ UNCHANGED <<executing, snapshot, tries>>
     \/ /\ snapshot' = <<>> /\ tries' = tries - 1
        /\ executing' = IF tries = 1 THEN "none" ELSE executing
        /\ writeFailed' = (tries = 1 \/ writeFailed)
        /\ UNCHANGED <<files, persisted>>
  /\ LaneOnly /\ UNCHANGED <<store, batch, writing, shutdown, trie, erased, retired, wiped>>

Acknowledge_AnyVersion ==   \* mutant: newer changes count as saved
  /\ persisted /\ ConverterFree
  /\ store' = IF store.no = snapshot[1].no THEN [store EXCEPT !.dirty = FALSE] ELSE store
  /\ executing' = "none" /\ snapshot' = <<>> /\ persisted' = FALSE
  /\ LaneOnly /\ UNCHANGED <<batch, writing, tries, shutdown, diskVars, historyVars>>

(* and acknowledged to that store, unless it changed in between.           *)
Acknowledge ==
  /\ persisted /\ ConverterFree
  /\ store' = IF store.no = snapshot[1].no /\ store.version = snapshot[1].version
              THEN [store EXCEPT !.dirty = FALSE] ELSE store
  /\ executing' = "none" /\ snapshot' = <<>> /\ persisted' = FALSE
  /\ LaneOnly /\ UNCHANGED <<batch, writing, tries, shutdown, diskVars, historyVars>>

FencePasses(f) == executing = "none" /\ awaits[f] = {}
-----------------------------------------------------------------------------
ClearOnly == UNCHANGED <<serial, runnable, executing, jobVars, shutdown>>

(* clearLearningForIPC: one at a time.                                     *)
BeginClear ==
  /\ clear = "no" /\ generation < MaxGeneration
  /\ clear' = "accepted"
  /\ generation' = generation + 1 /\ pendingLearning' = <<>>
  /\ ClearOnly /\ UNCHANGED <<dir, enabled, store, awaits, diskVars, historyVars>>

EnterClearFence_Skipped ==   \* mutant: no barrier
  /\ clear = "accepted"
  /\ clear' = "fenced"
  /\ ClearOnly /\ UNCHANGED <<settingsVars, ramVars, awaits, diskVars, historyVars>>

(* clearLearningAccepted: the barrier,                                     *)
EnterClearFence ==
  /\ clear = "accepted"
  /\ clear' = "fencing" /\ awaits' = [awaits EXCEPT !["clear"] = runnable]
  /\ ClearOnly /\ UNCHANGED <<settingsVars, ramVars, diskVars, historyVars>>

PassClearFence ==
  /\ clear = "fencing" /\ FencePasses("clear")
  /\ clear' = "fenced"
  /\ ClearOnly /\ UNCHANGED <<settingsVars, ramVars, awaits, diskVars, historyVars>>

(* then converterLock, and RAM is emptied even if the files will not be.   *)
WipeRam ==
  /\ clear = "fenced"
  /\ clear' = "wiped" /\ wiped' = TRUE
  /\ store' = [store EXCEPT !.entries = {}, !.dirty = FALSE, !.loaded = TRUE]
  /\ ClearOnly
  /\ UNCHANGED <<settingsVars, pendingLearning, awaits, diskVars, erased, retired, writeFailed>>

(* A preflight that finds an unsafe target deletes nothing.                *)
ClearRefused ==
  /\ clear = "wiped"
  /\ clear' = "no"
  /\ ClearOnly /\ UNCHANGED <<settingsVars, ramVars, awaits, diskVars, historyVars>>

(* The files are removed; those that resist stay.                          *)
RemoveFiles ==
  /\ clear = "wiped"
  /\ clear' = "removed"
  /\ files' \in {[files EXCEPT ![dir] = <<>>], files}
  /\ trie' \in {[trie EXCEPT ![dir] = {}], trie}
  /\ ClearOnly /\ UNCHANGED <<settingsVars, ramVars, awaits, historyVars>>

(* The directory is listed again: success only if nothing is left.         *)
VerifyCleared ==
  /\ clear = "removed"
  /\ clear' = "no"
  /\ erased' = IF files[dir] = <<>> /\ trie[dir] = {}
               THEN erased \cup {<<dir, i>> : i \in 1..serial} ELSE erased
  /\ ClearOnly /\ UNCHANGED <<settingsVars, ramVars, awaits, diskVars, retired, wiped, writeFailed>>
-----------------------------------------------------------------------------
StopOnly == UNCHANGED <<serial, settingsVars, clear, trie, erased, retired, wiped>>

RequestShutdown_NoFence ==   \* mutant: the lane is not waited for
  /\ shutdown = "no"
  /\ shutdown' = "drained"
  /\ StopOnly /\ UNCHANGED <<ramVars, laneVars, awaits, files, writeFailed>>

(* Shutdown and PrepareMaintenance: prepareForShutdown under serviceLock.  *)
RequestShutdown ==
  /\ shutdown = "no"
  /\ shutdown' = "fencing" /\ awaits' = [awaits EXCEPT !["shutdown"] = runnable]
  /\ StopOnly /\ UNCHANGED <<ramVars, laneVars, files, writeFailed>>

(* Its barrier drains what is still pending,                               *)
DrainForShutdown ==
  /\ shutdown = "fencing" /\ FencePasses("shutdown")
  /\ shutdown' = "draining" /\ executing' = "shutdown"
  /\ batch' = pendingLearning /\ pendingLearning' = <<>>
  /\ StopOnly
  /\ UNCHANGED <<store, runnable, writing, snapshot, tries, persisted, awaits, files, writeFailed>>

(* and then, holding converterLock, the corrections are flushed.           *)
FlushCorrections ==
  /\ shutdown = "drained" /\ ConverterFree
  /\ shutdown' = "flushed"
  /\ \/ /\ ~store.dirty
        /\ UNCHANGED <<store, files, writeFailed>>
     \/ /\ store.dirty
        /\ files' = [files EXCEPT ![dir] = <<store.entries>>]
        /\ store' = [store EXCEPT !.dirty = FALSE] /\ writeFailed' = FALSE
     \/ /\ store.dirty
        /\ writeFailed' = TRUE /\ UNCHANGED <<store, files>>
  /\ StopOnly /\ UNCHANGED <<pendingLearning, laneVars, awaits>>

(* The process ends, after its reply or at any time, and another starts.   *)
NewProcess ==
  /\ store' = FreshStore(0) /\ pendingLearning' = <<>>
  /\ runnable' = {} /\ executing' = "none"
  /\ batch' = <<>> /\ writing' = FALSE /\ snapshot' = <<>> /\ tries' = 0 /\ persisted' = FALSE
  /\ clear' = "no" /\ shutdown' = "no" /\ awaits' = [f \in DOMAIN awaits |-> {}]
  /\ wiped' = FALSE /\ writeFailed' = FALSE /\ retired' = <<>>
  /\ UNCHANGED <<serial, settingsVars, diskVars, erased>>

Exit == shutdown = "flushed" /\ NewProcess
Crash == NewProcess
-----------------------------------------------------------------------------
Init ==
  /\ serial = 0 /\ dir \in Dirs /\ enabled \in BOOLEAN /\ generation = 0
  /\ store = FreshStore(0) /\ pendingLearning = <<>>
  /\ runnable = {} /\ executing = "none"
  /\ batch = <<>> /\ writing = FALSE /\ snapshot = <<>> /\ tries = 0 /\ persisted = FALSE
  /\ clear = "no" /\ shutdown = "no" /\ awaits = [f \in {"clear", "shutdown"} |-> {}]
  /\ files = [d \in Dirs |-> <<>>] /\ trie = [d \in Dirs |-> {}]
  /\ erased = {} /\ retired = <<>> /\ wiped = FALSE /\ writeFailed = FALSE

Handlers ==
  \/ RecordCorrection \/ \E i \in 1..MaxSerial : Unlearn(i)
  \/ \E explicit \in BOOLEAN : CommitReceipt(explicit)
  \/ \E d \in Dirs, on \in BOOLEAN : Reload(d, on)

Lane ==
  \/ \E label \in Labels : StartJob(label)
  \/ CheckCandidate \/ WriteCandidate \/ DrainEnds
  \/ TakeSnapshot \/ PersistSnapshot \/ Acknowledge

Clearing ==
  \/ EnterClearFence \/ PassClearFence \/ WipeRam \/ ClearRefused \/ RemoveFiles
  \/ VerifyCleared

Stopping == DrainForShutdown \/ FlushCorrections \/ Exit

Next ==
  \/ Handlers \/ Lane \/ BeginClear \/ Clearing \/ RequestShutdown \/ Stopping \/ Crash

Spec == Init /\ [][Next]_vars

(* The lane and the threads of requests that were begun keep running.      *)
FairSpec == Spec /\ WF_vars(Lane) /\ WF_vars(Clearing) /\ WF_vars(Stopping)
-----------------------------------------------------------------------------
(* Type invariant; a candidate is checked and written only by a drain.     *)
StoreTypeOK ==
  /\ dir \in Dirs /\ enabled \in BOOLEAN /\ runnable \subseteq Labels
  /\ executing \in Labels \cup {"none", "shutdown"}
  /\ executing = "shutdown" <=> shutdown = "draining"
  /\ batch # <<>> \/ writing => executing \in {"learning", "shutdown"}
  /\ snapshot # <<>> => executing = "correction" /\ tries \in 1..Attempts
  /\ clear \in {"no", "accepted", "fencing", "fenced", "wiped", "removed"}

(* "Establish a generation boundary and drain already-accepted work before *)
(* deletion": what a reload or a clear has outdated is not written after   *)
(* it.  A clear may overtake a write, but not past its barrier.            *)
LateLearningIsDropped ==
  writing => \/ clear = "no" /\ Head(batch).generation = generation
             \/ clear \in {"accepted", "fencing"}

(* A clear that answered Ok has erased the learner's files for good: no    *)
(* candidate accepted before it reappears in them.                         *)
ErasedCandidatesStayErased == \A e \in erased : e[2] \notin trie[e[1]]

(* A generation that a clear or a reload has closed stays closed: nothing  *)
(* learned under it is being written, and nothing of it is in the files    *)
(* again (clearLearningAccepted, reload).                                 *)
StoreInv == StoreTypeOK /\ LateLearningIsDropped /\ ErasedCandidatesStayErased

(* The same for the corrections: "Ok, and learning is back at the next     *)
(* conversion" must not happen (clearLearning).                            *)
ErasedCorrectionsStayErased ==
  \A e \in erased : files[e[1]] # <<>> => e[2] \notin files[e[1]][1]

AtRest == executing = "none" /\ runnable = {} /\ ~writeFailed /\ ~wiped

(* "Completion of an older write cannot incorrectly clear the newer dirty  *)
(* state": when the lane is at rest the file holds what RAM holds, unless  *)
(* writing failed, a clear ran, or the directory was moved.                *)
RestMeansSaved ==
  AtRest /\ store.loaded /\ store.no = 0 =>
    ~store.dirty /\ files[dir] \in {<<store.entries>>} \cup (IF store.entries = {} THEN {<<>>} ELSE {})

(* "If the directory changes: flush and rebuild" (reload): what the store  *)
(* held that was not yet saved is saved in its own directory.              *)
MovedStoreIsFlushed ==
  AtRest /\ retired # <<>> => files[retired[1].dir] = <<retired[1].entries>>

(* A graceful stop leaves nothing behind: no candidate in RAM, on the lane *)
(* or half written, and no unsaved correction unless its write failed.     *)
ShutdownSaves ==
  [][shutdown' = "flushed" /\ shutdown # "flushed" =>
       pendingLearning' = <<>> /\ batch' = <<>> /\ (store'.dirty => writeFailed')]_vars

(* serviceLock, converterLock and the lane never wait for each other in a  *)
(* circle: every clear returns and every graceful stop ends.               *)
BoundariesEnd ==
  /\ clear # "no" ~> clear = "no"
  /\ shutdown # "no" ~> shutdown = "no"
=============================================================================
