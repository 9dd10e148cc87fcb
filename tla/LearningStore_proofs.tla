------------------------ MODULE LearningStore_proofs ------------------------
(***************************************************************************)
(* That a closed learning generation stays closed, that corrections at     *)
(* rest are on disk and that a graceful stop leaves nothing behind, proved *)
(* for any directories, any number of things learned, clears and reloads,  *)
(* and any number of attempts of a persistence job.  The invariant has     *)
(* one part for each thread of the argument; every action has a lemma that *)
(* takes them in turn.                                                     *)
(***************************************************************************)
EXTENDS LearningStore, SequenceTheorems, TLAPS

StoreType ==
  [no : Nat, entries : SUBSET Nat, dirty : BOOLEAN, version : Nat, loaded : BOOLEAN]
SnapshotType == [no : Nat, dir : Dirs, entries : SUBSET Nat, version : Nat]
FileType == {<<>>} \cup {<<S>> : S \in SUBSET Nat}

TypedSettings ==
  /\ serial \in Nat /\ generation \in Nat /\ dir \in Dirs /\ enabled \in BOOLEAN
TypedStore ==
  /\ store \in StoreType
  /\ snapshot # <<>> => snapshot[1] \in SnapshotType
  /\ files \in [Dirs -> FileType] /\ trie \in [Dirs -> SUBSET Nat]
TypedLane ==
  /\ runnable \subseteq Labels /\ executing \in Labels \cup {"none", "shutdown"}
  /\ writing \in BOOLEAN /\ persisted \in BOOLEAN
  /\ clear \in {"no", "accepted", "fencing", "fenced", "wiped", "removed"}
  /\ shutdown \in {"no", "fencing", "draining", "drained", "flushed"}
  /\ awaits \in [{"clear", "shutdown"} -> SUBSET Labels]
  /\ wiped \in BOOLEAN /\ writeFailed \in BOOLEAN
TypeOK == TypedSettings /\ TypedStore /\ TypedLane

(* What the lane executes and what its job holds.                          *)
Job ==
  /\ executing = "shutdown" <=> shutdown = "draining"
  /\ batch # <<>> => executing \in {"learning", "shutdown"}
  /\ writing => batch # <<>>
  /\ executing = "correction" => tries \in 1..Attempts
  /\ snapshot # <<>> => executing = "correction"
  /\ persisted => snapshot # <<>>

(* Nothing becomes runnable behind the fence of a graceful stop, and       *)
(* nothing is left once it has drained.                                    *)
Stop ==
  /\ shutdown = "fencing" => runnable \subseteq awaits["shutdown"]
  /\ shutdown \in {"draining", "drained"} => runnable = {} /\ pendingLearning = <<>>
  /\ shutdown = "drained" => executing = "none"

(* A candidate that may still be written: of the generation there is now,  *)
(* and then not erased.  A boundary leaves none but the one under way.     *)
Candidate == [id : Nat, generation : Nat, dir : Dirs]
Sound ==
  {c \in Candidate : /\ c.generation <= generation
                     /\ clear # "no" => c.generation < generation
                     /\ c.generation = generation => <<c.dir, c.id>> \notin erased}

Candidates ==
  /\ pendingLearning \in Seq(Sound) /\ batch \in Seq(Sound)
  /\ \A e \in erased : e = <<e[1], e[2]>> /\ e[1] \in Dirs /\ e[2] \in 1..serial
  /\ writing => <<Head(batch).dir, Head(batch).id>> \notin erased
  /\ LateLearningIsDropped
  /\ ErasedCandidatesStayErased

(* The corrections of a store that was neither moved nor wiped: a clean    *)
(* one is on disk, a dirty one has a job coming or has failed; a snapshot  *)
(* is the store, or the store has changed and its next job waits.          *)
Matches == files[dir] = <<store.entries>> \/ (store.entries = {} /\ files[dir] = <<>>)
Coming == "correction" \in runnable \/ executing = "correction" \/ writeFailed
SnapshotIsFollowed ==
  /\ store.dirty /\ snapshot[1].no = store.no /\ snapshot[1].dir = dir
  /\ snapshot[1].version <= store.version
  /\ IF snapshot[1].version = store.version THEN snapshot[1].entries = store.entries
     ELSE "correction" \in runnable
  /\ persisted => files[dir] = <<snapshot[1].entries>>

Corrections ==
  /\ store.dirty => store.loaded
  /\ ~wiped /\ store.no = 0 =>
       /\ snapshot # <<>> => SnapshotIsFollowed
       /\ snapshot = <<>> /\ store.dirty => Coming
       /\ snapshot = <<>> /\ ~store.dirty /\ store.loaded => Matches

(* Files are removed only after RAM has been wiped.                        *)
Wiping == clear \in {"wiped", "removed"} => wiped

IInv == TypeOK /\ Job /\ Stop /\ Wiping /\ Candidates /\ Corrections

-----------------------------------------------------------------------------
(* Sequences of candidates.                                                *)
LEMMA WiderSeq ==
  ASSUME NEW S, NEW T, S \subseteq T, NEW q \in Seq(S)
  PROVE  q \in Seq(T)
  <1>1. DOMAIN q = 1..Len(q) /\ Len(q) \in Nat /\ \A i \in 1..Len(q) : q[i] \in S
    BY LenProperties
  <1>2. q = [i \in 1..Len(q) |-> q[i]]
    BY <1>1
  <1> QED
    BY <1>1, <1>2

LEMMA FirstAndRest ==
  ASSUME NEW S, NEW q \in Seq(S), q # <<>>
  PROVE  Head(q) \in S /\ Tail(q) \in Seq(S)
  BY HeadTailProperties

(* A store, as it is before its first use and as a change leaves it.       *)
LEMMA FreshFields ==
  ASSUME NEW n \in Nat
  PROVE  /\ FreshStore(n) \in StoreType /\ FreshStore(n).no = n
         /\ FreshStore(n).dirty = FALSE /\ FreshStore(n).loaded = FALSE
  BY DEF FreshStore, StoreType

LEMMA LoadedFields ==
  ASSUME IInv
  PROVE  /\ Loaded \in StoreType /\ Loaded.no = store.no
         /\ Loaded.version = store.version /\ Loaded.loaded = TRUE
  <1>1. store \in StoreType /\ files[dir] \in FileType
    BY DEF IInv, TypeOK, TypedStore, TypedSettings
  <1>2. (IF files[dir] = <<>> THEN {} ELSE files[dir][1]) \in SUBSET Nat
    <2>1. ASSUME NEW S \in SUBSET Nat, files[dir] = <<S>> PROVE files[dir][1] \in SUBSET Nat
      BY <2>1
    <2>2. files[dir] = <<>> \/ \E S \in SUBSET Nat : files[dir] = <<S>>
      BY <1>1 DEF FileType
    <2> QED
      BY <2>1, <2>2
  <1>3. store.loaded = TRUE \/ store.loaded = FALSE
    BY <1>1 DEF StoreType
  <1>4. CASE store.loaded = TRUE
    BY <1>1, <1>4 DEF Loaded, StoreType
  <1>5. CASE store.loaded = FALSE
    <2>1. Loaded = [store EXCEPT !.loaded = TRUE,
                      !.entries = IF files[dir] = <<>> THEN {} ELSE files[dir][1]]
      BY <1>5 DEF Loaded
    <2> QED
      BY <1>1, <1>2, <2>1 DEF StoreType
  <1> QED
    BY <1>3, <1>4, <1>5

LEMMA StoreNumbers ==
  ASSUME IInv
  PROVE  /\ store.no \in Nat /\ store.version \in Nat /\ store.entries \in SUBSET Nat
         /\ store.dirty \in BOOLEAN /\ store.loaded \in BOOLEAN
         /\ serial \in Nat /\ generation \in Nat /\ dir \in Dirs
         /\ files[dir] \in FileType /\ Attempts \in Nat \ {0}
         /\ snapshot # <<>> => /\ snapshot[1].no \in Nat /\ snapshot[1].dir \in Dirs
                               /\ snapshot[1].entries \in SUBSET Nat
                               /\ snapshot[1].version \in Nat
  BY StoreAssumption
  DEF IInv, TypeOK, TypedSettings, TypedStore, StoreType, SnapshotType

LEMMA ChangedFields ==
  ASSUME IInv, NEW S \in SUBSET Nat
  PROVE  /\ Changed(S) \in StoreType /\ Changed(S).no = store.no
         /\ Changed(S).entries = S /\ Changed(S).dirty = TRUE /\ Changed(S).loaded = TRUE
         /\ Changed(S).version = store.version + 1
  <1>1. /\ Loaded \in StoreType /\ Loaded.no = store.no
        /\ Loaded.version = store.version /\ Loaded.loaded = TRUE
    BY LoadedFields
  <1>2. store.version + 1 \in Nat
    BY StoreNumbers
  <1>3. ASSUME NEW l \in StoreType, l.version = store.version
        PROVE  LET c == [l EXCEPT !.entries = S, !.dirty = TRUE, !.version = store.version + 1]
               IN  /\ c \in StoreType /\ c.no = l.no /\ c.entries = S /\ c.dirty = TRUE
                   /\ c.loaded = l.loaded /\ c.version = store.version + 1
    BY <1>2 DEF StoreType
  <1>4. Changed(S) = [Loaded EXCEPT !.entries = S, !.dirty = TRUE, !.version = store.version + 1]
    BY <1>1 DEF Changed
  <1> QED
    BY <1>1, <1>3, <1>4

-----------------------------------------------------------------------------
(* What a part of the invariant depends on.                                *)
LEMMA SettingsFrame ==
  ASSUME IInv, UNCHANGED <<serial, generation, dir, enabled>>
  PROVE  TypedSettings'
  BY DEF IInv, TypeOK, TypedSettings

LEMMA StoreFrame ==
  ASSUME IInv, UNCHANGED <<store, snapshot, files, trie>>
  PROVE  TypedStore'
  BY DEF IInv, TypeOK, TypedStore

LEMMA LaneFrame ==
  ASSUME IInv, UNCHANGED <<runnable, executing, writing, persisted, clear, shutdown, awaits,
                           wiped, writeFailed>>
  PROVE  TypedLane'
  BY DEF IInv, TypeOK, TypedLane

LEMMA JobFrame ==
  ASSUME IInv, UNCHANGED <<executing, shutdown, batch, writing, tries, snapshot, persisted>>
  PROVE  Job'
  BY DEF IInv, Job

LEMMA StopFrame ==
  ASSUME IInv, UNCHANGED <<shutdown, runnable, awaits, pendingLearning, executing>>
  PROVE  Stop'
  BY DEF IInv, Stop

LEMMA WipingFrame ==
  ASSUME IInv, UNCHANGED <<clear, wiped>>
  PROVE  Wiping'
  BY DEF IInv, Wiping

LEMMA SoundFrame ==
  ASSUME UNCHANGED <<generation, clear, erased>>
  PROVE  Sound' = Sound
  BY DEF Sound

LEMMA CandidatesFrame ==
  ASSUME IInv, UNCHANGED <<serial, generation, clear, pendingLearning, batch, writing, erased,
                           trie>>
  PROVE  Candidates'
  BY SoundFrame DEF IInv, Candidates, LateLearningIsDropped, ErasedCandidatesStayErased

LEMMA CorrectionsFrame ==
  ASSUME IInv, UNCHANGED <<store, snapshot, persisted, dir, files, runnable, executing, wiped,
                           writeFailed>>
  PROVE  Corrections'
  BY DEF IInv, Corrections, SnapshotIsFollowed, Coming, Matches

(* A change of the store's entries queues a correction job.                *)
LEMMA ChangeIsFollowed ==
  ASSUME IInv, NEW S \in SUBSET Nat, store' = Changed(S), "correction" \in runnable',
         UNCHANGED <<snapshot, persisted, dir, files, wiped>>
  PROVE  Corrections'
  <1>1. /\ store'.no = store.no /\ store'.dirty = TRUE /\ store'.loaded = TRUE
        /\ store'.version = store.version + 1
    BY ChangedFields
  <1>2. store.version \in Nat /\ (snapshot # <<>> => snapshot[1].version \in Nat)
    BY StoreNumbers
  <1>3. ASSUME ~wiped, store.no = 0, snapshot # <<>> PROVE SnapshotIsFollowed'
    <2>1. SnapshotIsFollowed
      BY <1>3 DEF IInv, Corrections
    <2>2. snapshot[1].version <= store'.version /\ snapshot[1].version # store'.version
      BY <1>1, <1>2, <1>3, <2>1 DEF SnapshotIsFollowed
    <2> QED
      BY <1>1, <2>1, <2>2 DEF SnapshotIsFollowed
  <1>4. Coming'
    BY DEF Coming
  <1> QED
    BY <1>1, <1>3, <1>4 DEF Corrections

(* What is sound stays sound over a boundary, and nothing else is          *)
(* written.                                                                *)
LEMMA BoundaryKeepsSound ==
  ASSUME IInv, generation' = generation + 1, UNCHANGED erased
  PROVE  Sound \subseteq Sound'
  <1>1. generation \in Nat
    BY StoreNumbers
  <1>2. ASSUME NEW c \in Sound PROVE c \in Sound'
    <2>1. c \in Candidate /\ c.generation \in Nat /\ c.generation <= generation
      BY DEF Sound, Candidate
    <2>2. c.generation < generation' /\ c.generation <= generation' /\ c.generation # generation'
      BY <1>1, <2>1
    <2> QED
      BY <2>1, <2>2 DEF Sound
  <1> QED
    BY <1>2

LEMMA EmptySound == <<>> \in Seq(Sound)
  OBVIOUS

(* The request handlers.                                                   *)

LEMMA RecordCorrectionKeeps ==
  ASSUME IInv, RecordCorrection
  PROVE  IInv'
  <1>1. /\ shutdown \in {"no", "flushed"}
        /\ serial' = serial + 1
        /\ store' = Changed(Loaded.entries \cup {serial + 1})
        /\ runnable' = runnable \cup {"correction"}
        /\ UNCHANGED <<dir, enabled, generation, pendingLearning, executing, batch,
                        writing, snapshot, tries, persisted, clear, shutdown, awaits, files,
                        trie, erased, wiped, writeFailed>>
    BY DEF RecordCorrection, Request, ServiceFree, settingsVars, ramVars, jobVars, laneVars,
       diskVars, historyVars
  <1>2. TypedSettings'
    <2>1. serial \in Nat /\ serial + 1 \in Nat
      BY StoreNumbers
    <2> QED
      BY <1>1, <2>1 DEF IInv, TypeOK, TypedSettings
  <1>3. TypedStore'
    <2>1. Loaded.entries \cup {serial + 1} \in SUBSET Nat
      BY LoadedFields, StoreNumbers DEF StoreType
    <2>2. store' \in StoreType
      BY <1>1, <2>1, ChangedFields
    <2> QED
      BY <1>1, <2>2 DEF IInv, TypeOK, TypedStore
  <1>4. TypedLane'
    BY <1>1 DEF IInv, TypeOK, TypedLane, Labels
  <1>5. Job'
    BY <1>1, JobFrame
  <1>6. Stop'
    BY <1>1 DEF IInv, Stop, Job
  <1>7. Wiping'
    BY <1>1, WipingFrame
  <1>8. Candidates'
    <2>1. \A e \in erased : e[2] \in 1..serial => e[2] \in 1..(serial + 1)
      BY StoreNumbers
    <2> QED
      BY <1>1, <2>1, SoundFrame
      DEF IInv, Candidates, LateLearningIsDropped, ErasedCandidatesStayErased
  <1>9. Corrections'
    <2>1. Loaded.entries \cup {serial + 1} \in SUBSET Nat
      BY LoadedFields, StoreNumbers DEF StoreType
    <2> QED
      BY <1>1, <2>1, ChangeIsFollowed
  <1> QED
    BY <1>2, <1>3, <1>4, <1>5, <1>6, <1>7, <1>8, <1>9 DEF IInv, TypeOK

LEMMA UnlearnKeeps ==
  ASSUME IInv, NEW i, Unlearn(i)
  PROVE  IInv'
  <1>1. /\ shutdown \in {"no", "flushed"}
        /\ serial' = serial + 1
        /\ store' = Changed(Loaded.entries \ {i})
        /\ runnable' = runnable \cup {"correction"}
        /\ UNCHANGED <<dir, enabled, generation, pendingLearning, executing, batch,
                        writing, snapshot, tries, persisted, clear, shutdown, awaits, files,
                        trie, erased, wiped, writeFailed>>
    BY DEF Unlearn, Request, ServiceFree, settingsVars, ramVars, jobVars, laneVars, diskVars,
       historyVars
  <1>2. TypedSettings'
    <2>1. serial \in Nat /\ serial + 1 \in Nat
      BY StoreNumbers
    <2> QED
      BY <1>1, <2>1 DEF IInv, TypeOK, TypedSettings
  <1>3. TypedStore'
    <2>1. Loaded.entries \ {i} \in SUBSET Nat
      BY LoadedFields, StoreNumbers DEF StoreType
    <2>2. store' \in StoreType
      BY <1>1, <2>1, ChangedFields
    <2> QED
      BY <1>1, <2>2 DEF IInv, TypeOK, TypedStore
  <1>4. TypedLane'
    BY <1>1 DEF IInv, TypeOK, TypedLane, Labels
  <1>5. Job'
    BY <1>1, JobFrame
  <1>6. Stop'
    BY <1>1 DEF IInv, Stop, Job
  <1>7. Wiping'
    BY <1>1, WipingFrame
  <1>8. Candidates'
    <2>1. \A e \in erased : e[2] \in 1..serial => e[2] \in 1..(serial + 1)
      BY StoreNumbers
    <2> QED
      BY <1>1, <2>1, SoundFrame
      DEF IInv, Candidates, LateLearningIsDropped, ErasedCandidatesStayErased
  <1>9. Corrections'
    <2>1. Loaded.entries \ {i} \in SUBSET Nat
      BY LoadedFields, StoreNumbers DEF StoreType
    <2> QED
      BY <1>1, <2>1, ChangeIsFollowed
  <1> QED
    BY <1>2, <1>3, <1>4, <1>5, <1>6, <1>7, <1>8, <1>9 DEF IInv, TypeOK

LEMMA CommitReceiptKeeps ==
  ASSUME IInv, NEW explicit \in BOOLEAN, CommitReceipt(explicit)
  PROVE  IInv'
  <1>1. /\ shutdown \in {"no", "flushed"} /\ clear = "no"
        /\ serial' = serial + 1
        /\ pendingLearning' = Append(pendingLearning,
                            [id |-> serial + 1, generation |-> generation, dir |-> dir])
        /\ store' = IF explicit THEN Changed(Loaded.entries \cup {serial + 1}) ELSE store
        /\ runnable' = runnable \cup (IF explicit THEN Labels ELSE {"learning"})
        /\ UNCHANGED <<dir, enabled, generation, executing, batch, writing, snapshot,
                        tries, persisted, clear, shutdown, awaits, files, trie, erased,
                        wiped, writeFailed>>
    BY DEF CommitReceipt, Request, ServiceFree, settingsVars, ramVars, jobVars, laneVars, diskVars,
       historyVars
  <1>2. TypedSettings'
    <2>1. serial \in Nat /\ serial + 1 \in Nat
      BY StoreNumbers
    <2> QED
      BY <1>1, <2>1 DEF IInv, TypeOK, TypedSettings
  <1>3. TypedStore'
    <2>1. Loaded.entries \cup {serial + 1} \in SUBSET Nat
      BY LoadedFields, StoreNumbers DEF StoreType
    <2>2. store' \in StoreType
      BY <1>1, <2>1, ChangedFields DEF IInv, TypeOK, TypedStore
    <2> QED
      BY <1>1, <2>2 DEF IInv, TypeOK, TypedStore
  <1>4. TypedLane'
    BY <1>1 DEF IInv, TypeOK, TypedLane, Labels
  <1>5. Job'
    BY <1>1, JobFrame
  <1>6. Stop'
    BY <1>1 DEF IInv, Stop, Job
  <1>7. Wiping'
    BY <1>1, WipingFrame
  <1>8. Candidates'
    <2> DEFINE c == [id |-> serial + 1, generation |-> generation, dir |-> dir]
    <2>1. serial \in Nat /\ generation \in Nat /\ dir \in Dirs
      BY StoreNumbers
    <2>2. <<dir, serial + 1>> \notin erased
      <3>1. ~(serial + 1 \in 1..serial)
        BY <2>1
      <3> QED
        BY <3>1 DEF IInv, Candidates
    <2>3. c \in Sound
      BY <1>1, <2>1, <2>2 DEF Sound, Candidate
    <2>4. pendingLearning' \in Seq(Sound)
      BY <1>1, <2>3, AppendProperties DEF IInv, Candidates
    <2>5. \A e \in erased : e[2] \in 1..serial => e[2] \in 1..(serial + 1)
      BY <2>1
    <2> QED
      BY <1>1, <2>4, <2>5, SoundFrame
      DEF IInv, Candidates, LateLearningIsDropped, ErasedCandidatesStayErased
  <1>9. Corrections'
    <2>1. CASE explicit
      <3>1. Loaded.entries \cup {serial + 1} \in SUBSET Nat
        BY LoadedFields, StoreNumbers DEF StoreType
      <3>2. "correction" \in runnable'
        BY <1>1, <2>1 DEF Labels
      <3> QED
        BY <1>1, <2>1, <3>1, <3>2, ChangeIsFollowed
    <2>2. CASE ~explicit
      BY <1>1, <2>2 DEF IInv, Corrections, SnapshotIsFollowed, Coming, Matches
    <2> QED
      BY <2>1, <2>2
  <1> QED
    BY <1>2, <1>3, <1>4, <1>5, <1>6, <1>7, <1>8, <1>9 DEF IInv, TypeOK

(* A reload makes what was learned stale, and another directory another    *)
(* store.                                                                  *)
LEMMA ReloadKeeps ==
  ASSUME IInv, NEW d \in Dirs, NEW on \in BOOLEAN, Reload(d, on)
  PROVE  IInv'
  <1>1. /\ shutdown \in {"no", "flushed"} /\ ~writing /\ clear \notin {"wiped", "removed"}
        /\ dir' = d /\ enabled' = on /\ generation' = generation + 1
        /\ runnable \subseteq runnable' /\ runnable' \subseteq runnable \cup {"correction"}
        /\ store' = IF d # dir THEN FreshStore(store.no + 1) ELSE store
        /\ pendingLearning' = <<>>
        /\ UNCHANGED <<serial, executing, batch, writing, snapshot, tries, persisted,
                        clear, shutdown, awaits, files, trie, erased, wiped, writeFailed>>
    BY DEF Reload, ServiceFree, ConverterFree, settingsVars, ramVars, jobVars, laneVars, diskVars,
       historyVars
  <1>2. TypedSettings'
    <2>1. generation + 1 \in Nat
      BY StoreNumbers
    <2> QED
      BY <1>1, <2>1 DEF IInv, TypeOK, TypedSettings
  <1>3. TypedStore'
    <2>1. store.no + 1 \in Nat /\ store \in StoreType
      BY StoreNumbers DEF IInv, TypeOK, TypedStore
    <2>2. store' \in StoreType
      BY <1>1, <2>1, FreshFields
    <2> QED
      BY <1>1, <2>2 DEF IInv, TypeOK, TypedStore
  <1>4. TypedLane'
    BY <1>1 DEF IInv, TypeOK, TypedLane, Labels
  <1>5. Job'
    BY <1>1, JobFrame
  <1>6. Stop'
    BY <1>1 DEF IInv, Stop, Job
  <1>7. Wiping'
    BY <1>1, WipingFrame
  <1>8. Candidates'
    <2>1. batch' \in Seq(Sound') /\ pendingLearning' \in Seq(Sound')
      BY <1>1, BoundaryKeepsSound, WiderSeq DEF IInv, Candidates
    <2> QED
      BY <1>1, <2>1 DEF IInv, Candidates, LateLearningIsDropped, ErasedCandidatesStayErased
  <1>9. Corrections'
    <2>1. CASE d # dir
      <3>1. store.no \in Nat /\ store.no + 1 \in Nat
        BY StoreNumbers
      <3>2. store'.no = store.no + 1 /\ store'.dirty = FALSE
        BY <1>1, <2>1, <3>1, FreshFields
      <3> QED
        BY <3>1, <3>2 DEF Corrections
    <2>2. CASE d = dir
      BY <1>1, <2>2 DEF IInv, Corrections, SnapshotIsFollowed, Coming, Matches
    <2> QED
      BY <2>1, <2>2
  <1> QED
    BY <1>2, <1>3, <1>4, <1>5, <1>6, <1>7, <1>8, <1>9 DEF IInv, TypeOK

(* The jobs of the lane.                                                   *)

LEMMA StartJobKeeps ==
  ASSUME IInv, NEW label \in Labels, StartJob(label)
  PROVE  IInv'
  <1>1. /\ executing = "none" /\ label \in runnable
        /\ executing' = label /\ runnable' = runnable \ {label}
        /\ awaits' = [f \in DOMAIN awaits |-> awaits[f] \ {label}]
        /\ IF label = "learning"
           THEN batch' = pendingLearning /\ pendingLearning' = <<>> /\ UNCHANGED tries
           ELSE tries' = Attempts /\ UNCHANGED <<batch, pendingLearning>>
        /\ UNCHANGED <<serial, dir, enabled, generation, store, writing, snapshot,
                        persisted, clear, shutdown, files, trie, erased, wiped, writeFailed>>
    BY DEF StartJob, settingsVars, ramVars, jobVars, laneVars, diskVars, historyVars
  <1>2. TypedSettings'
    BY <1>1, SettingsFrame
  <1>3. TypedStore'
    BY <1>1, StoreFrame
  <1>4. TypedLane'
    BY <1>1 DEF IInv, TypeOK, TypedLane, Labels
  <1>5. Job'
    <2>1. batch = <<>> /\ ~writing /\ snapshot = <<>> /\ ~persisted
      BY <1>1 DEF IInv, Job
    <2>2. 1 \in 1..Attempts /\ Attempts \in 1..Attempts
      BY StoreAssumption
    <2> QED
      BY <1>1, <2>1, <2>2 DEF IInv, Job, Labels, TypeOK, TypedLane
  <1>6. Stop'
    <2>1. runnable' \subseteq runnable /\ shutdown \notin {"draining", "drained"}
      BY <1>1 DEF IInv, Stop
    <2>2. shutdown = "fencing" => runnable' \subseteq awaits'["shutdown"]
      BY <1>1 DEF IInv, Stop, TypeOK, TypedLane
    <2> QED
      BY <1>1, <2>1, <2>2 DEF Stop
  <1>7. Wiping'
    BY <1>1, WipingFrame
  <1>8. Candidates'
    <2>1. batch' \in Seq(Sound) /\ pendingLearning' \in Seq(Sound) /\ ~writing
      BY <1>1, EmptySound DEF IInv, Candidates, Job
    <2> QED
      BY <1>1, <2>1, SoundFrame
      DEF IInv, Candidates, LateLearningIsDropped, ErasedCandidatesStayErased
  <1>9. Corrections'
    <2>1. snapshot = <<>>
      BY <1>1 DEF IInv, Job
    <2>2. Coming => Coming'
      BY <1>1 DEF Coming, Labels
    <2> QED
      BY <1>1, <2>1, <2>2 DEF IInv, Corrections, Matches
  <1> QED
    BY <1>2, <1>3, <1>4, <1>5, <1>6, <1>7, <1>8, <1>9 DEF IInv, TypeOK

LEMMA CheckCandidateKeeps ==
  ASSUME IInv, CheckCandidate
  PROVE  IInv'
  <1>1. /\ executing \in {"learning", "shutdown"} /\ batch # <<>> /\ ~writing
        /\ IF clear = "no" /\ Head(batch).generation = generation
           THEN writing' = TRUE /\ UNCHANGED batch
           ELSE batch' = Tail(batch) /\ UNCHANGED writing
        /\ UNCHANGED <<serial, dir, enabled, generation, store, pendingLearning, runnable,
                        executing, snapshot, tries, persisted, clear, shutdown, awaits,
                        files, trie, erased, wiped, writeFailed>>
    BY DEF CheckCandidate, Draining, LaneOnly, settingsVars, ramVars, jobVars, laneVars, diskVars,
       historyVars
  <1>2. TypedSettings'
    BY <1>1, SettingsFrame
  <1>3. TypedStore'
    BY <1>1, StoreFrame
  <1>4. TypedLane'
    BY <1>1 DEF IInv, TypeOK, TypedLane, Labels
  <1>5. Job'
    BY <1>1 DEF IInv, Job
  <1>6. Stop'
    BY <1>1, StopFrame
  <1>7. Wiping'
    BY <1>1, WipingFrame
  <1>8. Candidates'
    <2>1. Head(batch) \in Sound /\ Tail(batch) \in Seq(Sound)
      BY <1>1, FirstAndRest DEF IInv, Candidates, Job
    <2>2. CASE clear = "no" /\ Head(batch).generation = generation
      <3>1. <<Head(batch).dir, Head(batch).id>> \notin erased
        BY <2>1, <2>2 DEF Sound
      <3> QED
        BY <1>1, <2>2, <3>1, SoundFrame
        DEF IInv, Candidates, LateLearningIsDropped, ErasedCandidatesStayErased
    <2>3. CASE ~(clear = "no" /\ Head(batch).generation = generation)
      BY <1>1, <2>1, <2>3, SoundFrame
      DEF IInv, Candidates, LateLearningIsDropped, ErasedCandidatesStayErased
    <2> QED
      BY <2>2, <2>3
  <1>9. Corrections'
    BY <1>1, CorrectionsFrame
  <1> QED
    BY <1>2, <1>3, <1>4, <1>5, <1>6, <1>7, <1>8, <1>9 DEF IInv, TypeOK

LEMMA WriteCandidateKeeps ==
  ASSUME IInv, WriteCandidate
  PROVE  IInv'
  <1>1. /\ writing
        /\ trie' = [trie EXCEPT ![Head(batch).dir] = @ \cup {Head(batch).id}]
        /\ batch' = Tail(batch) /\ writing' = FALSE
        /\ UNCHANGED <<serial, dir, enabled, generation, store, pendingLearning, runnable,
                        executing, snapshot, tries, persisted, clear, shutdown, awaits,
                        files, erased, wiped, writeFailed>>
    BY DEF WriteCandidate, LaneOnly, settingsVars, ramVars, jobVars, laneVars, diskVars,
       historyVars
  <1>2. TypedSettings'
    BY <1>1, SettingsFrame
  <1>3. TypedStore'
    <2>1. Head(batch) \in Sound /\ Tail(batch) \in Seq(Sound)
      BY <1>1, FirstAndRest DEF IInv, Candidates, Job
    <2>2. Head(batch).id \in Nat /\ Head(batch).dir \in Dirs
      BY <2>1 DEF Sound, Candidate
    <2>3. trie' \in [Dirs -> SUBSET Nat]
      BY <1>1, <2>2 DEF IInv, TypeOK, TypedStore
    <2> QED
      BY <1>1, <2>3 DEF IInv, TypeOK, TypedStore
  <1>4. TypedLane'
    BY <1>1 DEF IInv, TypeOK, TypedLane, Labels
  <1>5. Job'
    BY <1>1 DEF IInv, Job
  <1>6. Stop'
    BY <1>1, StopFrame
  <1>7. Wiping'
    BY <1>1, WipingFrame
  <1>8. Candidates'
    <2>1. Head(batch) \in Sound /\ Tail(batch) \in Seq(Sound)
      BY <1>1, FirstAndRest DEF IInv, Candidates, Job
    <2>2. Head(batch).dir \in Dirs /\ DOMAIN trie = Dirs
      BY <2>1 DEF Sound, Candidate, IInv, TypeOK, TypedStore
    <2>3. <<Head(batch).dir, Head(batch).id>> \notin erased
      BY <1>1 DEF IInv, Candidates
    <2>4. ASSUME NEW e \in erased PROVE e[2] \notin trie'[e[1]]
      <3>1. e[1] \in Dirs /\ e[2] \notin trie[e[1]]
        BY DEF IInv, Candidates, ErasedCandidatesStayErased
      <3>2. e = <<e[1], e[2]>>
        BY DEF IInv, Candidates
      <3> QED
        BY <1>1, <2>2, <2>3, <3>1, <3>2
    <2> QED
      BY <1>1, <2>1, <2>4, SoundFrame
      DEF IInv, Candidates, LateLearningIsDropped, ErasedCandidatesStayErased
  <1>9. Corrections'
    BY <1>1, CorrectionsFrame
  <1> QED
    BY <1>2, <1>3, <1>4, <1>5, <1>6, <1>7, <1>8, <1>9 DEF IInv, TypeOK

LEMMA DrainEndsKeeps ==
  ASSUME IInv, DrainEnds
  PROVE  IInv'
  <1>1. /\ executing \in {"learning", "shutdown"} /\ batch = <<>>
        /\ executing' = "none"
        /\ shutdown' = IF executing = "shutdown" THEN "drained" ELSE shutdown
        /\ UNCHANGED <<serial, dir, enabled, generation, store, pendingLearning, runnable,
                        batch, writing, snapshot, tries, persisted, clear, awaits, files,
                        trie, erased, wiped, writeFailed>>
    BY DEF DrainEnds, LaneOnly, settingsVars, ramVars, jobVars, laneVars, diskVars, historyVars
  <1>2. TypedSettings'
    BY <1>1, SettingsFrame
  <1>3. TypedStore'
    BY <1>1, StoreFrame
  <1>4. TypedLane'
    BY <1>1 DEF IInv, TypeOK, TypedLane, Labels
  <1>5. Job'
    BY <1>1 DEF IInv, Job
  <1>6. Stop'
    BY <1>1 DEF IInv, Stop, Job
  <1>7. Wiping'
    BY <1>1, WipingFrame
  <1>8. Candidates'
    BY <1>1, CandidatesFrame
  <1>9. Corrections'
    BY <1>1 DEF IInv, Job, Corrections, SnapshotIsFollowed, Coming, Matches
  <1> QED
    BY <1>2, <1>3, <1>4, <1>5, <1>6, <1>7, <1>8, <1>9 DEF IInv, TypeOK

LEMMA TakeSnapshotKeeps ==
  ASSUME IInv, TakeSnapshot
  PROVE  IInv'
  <1>1. /\ executing = "correction" /\ snapshot = <<>>
        /\ IF store.dirty
           THEN /\ snapshot' = <<[no |-> store.no, dir |-> dir, entries |-> store.entries,
                                  version |-> store.version]>>
                /\ UNCHANGED executing
           ELSE executing' = "none" /\ UNCHANGED snapshot
        /\ UNCHANGED <<serial, dir, enabled, generation, store, pendingLearning, runnable,
                        batch, writing, tries, persisted, clear, shutdown, awaits, files,
                        trie, erased, wiped, writeFailed>>
    BY DEF TakeSnapshot, LaneOnly, settingsVars, ramVars, jobVars, laneVars, diskVars, historyVars
  <1>2. TypedSettings'
    BY <1>1, SettingsFrame
  <1>3. TypedStore'
    <2>1. snapshot' # <<>> => snapshot'[1] \in SnapshotType
      BY <1>1, StoreNumbers DEF SnapshotType
    <2> QED
      BY <1>1, <2>1 DEF IInv, TypeOK, TypedStore
  <1>4. TypedLane'
    BY <1>1 DEF IInv, TypeOK, TypedLane, Labels
  <1>5. Job'
    BY <1>1 DEF IInv, Job
  <1>6. Stop'
    BY <1>1 DEF IInv, Stop, Job
  <1>7. Wiping'
    BY <1>1, WipingFrame
  <1>8. Candidates'
    BY <1>1, CandidatesFrame
  <1>9. Corrections'
    <2>1. ~persisted
      BY <1>1 DEF IInv, Job
    <2>2. CASE store.dirty
      <3>0. snapshot' = <<[no |-> store.no, dir |-> dir, entries |-> store.entries,
                            version |-> store.version]>>
        BY <1>1, <2>2
      <3>1. /\ snapshot' # <<>> /\ snapshot'[1].no = store.no /\ snapshot'[1].dir = dir
            /\ snapshot'[1].entries = store.entries /\ snapshot'[1].version = store.version
        BY <3>0
      <3>2. SnapshotIsFollowed'
        BY <1>1, <2>1, <2>2, <3>1, StoreNumbers DEF SnapshotIsFollowed
      <3> QED
        BY <1>1, <2>2, <3>1, <3>2 DEF IInv, Corrections
    <2>3. CASE ~store.dirty
      BY <1>1, <2>3 DEF IInv, Corrections, Matches
    <2> QED
      BY <2>2, <2>3
  <1> QED
    BY <1>2, <1>3, <1>4, <1>5, <1>6, <1>7, <1>8, <1>9 DEF IInv, TypeOK

LEMMA PersistSnapshotKeeps ==
  ASSUME IInv, PersistSnapshot
  PROVE  IInv'
  <1>1. /\ snapshot # <<>> /\ ~persisted
        /\ UNCHANGED <<serial, dir, enabled, generation, store, pendingLearning, runnable, batch,
                       writing, clear, shutdown, awaits, trie, erased, wiped>>
    BY DEF PersistSnapshot, LaneOnly, settingsVars
  <1>2. executing = "correction" /\ tries \in 1..Attempts /\ batch = <<>> /\ ~writing
    BY <1>1 DEF IInv, Job
  <1>3. TypedSettings' /\ Wiping' /\ Candidates'
    BY <1>1, SettingsFrame, WipingFrame, CandidatesFrame
  <1>4. CASE /\ files' = [files EXCEPT ![snapshot[1].dir] = <<snapshot[1].entries>>]
             /\ persisted' = TRUE /\ writeFailed' = FALSE
             /\ UNCHANGED <<executing, snapshot, tries>>
    <2>1. files' \in [Dirs -> FileType]
      <3>1. <<snapshot[1].entries>> \in FileType
        BY <1>1, StoreNumbers DEF FileType
      <3> QED
        BY <1>4, <3>1 DEF IInv, TypeOK, TypedStore
    <2>2. TypedStore' /\ TypedLane'
      BY <1>1, <1>4, <2>1 DEF IInv, TypeOK, TypedStore, TypedLane
    <2>3. Job' /\ Stop'
      BY <1>1, <1>2, <1>4 DEF IInv, Job, Stop
    <2>4. Corrections'
      <3>1. ASSUME SnapshotIsFollowed PROVE SnapshotIsFollowed'
        <4>1. files'[dir] = <<snapshot[1].entries>>
          BY <1>4, <3>1, StoreNumbers DEF SnapshotIsFollowed, IInv, TypeOK, TypedStore
        <4> QED
          BY <1>1, <1>4, <3>1, <4>1 DEF SnapshotIsFollowed
      <3> QED
        BY <1>1, <1>4, <3>1 DEF IInv, Corrections
    <2> QED
      BY <1>3, <2>2, <2>3, <2>4 DEF IInv, TypeOK
  <1>5. CASE /\ snapshot' = <<>> /\ tries' = tries - 1
             /\ executing' = IF tries = 1 THEN "none" ELSE executing
             /\ writeFailed' = (tries = 1 \/ writeFailed)
             /\ UNCHANGED <<files, persisted>>
    <2>1. TypedStore' /\ TypedLane'
      BY <1>1, <1>5 DEF IInv, TypeOK, TypedStore, TypedLane
    <2>2. Job'
      <3>1. tries # 1 => tries' \in 1..Attempts
        BY <1>2, <1>5, StoreAssumption
      <3> QED
        BY <1>1, <1>2, <1>5, <3>1 DEF IInv, Job
    <2>3. Stop'
      BY <1>1, <1>2, <1>5 DEF IInv, Stop
    <2>4. Corrections'
      <3>1. Coming'
        BY <1>2, <1>5 DEF Coming
      <3>2. ~wiped /\ store.no = 0 => store.dirty
        BY <1>1 DEF IInv, Corrections, SnapshotIsFollowed
      <3>3. store.dirty => store.loaded
        BY DEF IInv, Corrections
      <3> QED
        BY <1>1, <1>5, <3>1, <3>2, <3>3 DEF Corrections
    <2> QED
      BY <1>3, <2>1, <2>2, <2>3, <2>4 DEF IInv, TypeOK
  <1> QED
    BY <1>4, <1>5 DEF PersistSnapshot

LEMMA AcknowledgeKeeps ==
  ASSUME IInv, Acknowledge
  PROVE  IInv'
  <1> DEFINE same == store.no = snapshot[1].no /\ store.version = snapshot[1].version
  <1>0. /\ snapshot # <<>> /\ executing = "correction" /\ batch = <<>> /\ ~writing
        /\ store \in StoreType
    BY DEF Acknowledge, IInv, Job, TypeOK, TypedStore
  <1>1. /\ persisted
        /\ store' = IF store.no = snapshot[1].no /\ store.version = snapshot[1].version
                    THEN [store EXCEPT !.dirty = FALSE] ELSE store
        /\ executing' = "none" /\ snapshot' = <<>> /\ persisted' = FALSE
        /\ UNCHANGED <<serial, dir, enabled, generation, pendingLearning, runnable, batch,
                        writing, tries, clear, shutdown, awaits, files, trie, erased, wiped,
                        writeFailed>>
    BY DEF Acknowledge, LaneOnly, settingsVars, ramVars, jobVars, laneVars, diskVars, historyVars
  <1>2. TypedSettings'
    BY <1>1, SettingsFrame
  <1>3. TypedStore'
    <2>1. store' \in StoreType
      BY <1>0, <1>1 DEF StoreType
    <2> QED
      BY <1>1, <2>1 DEF IInv, TypeOK, TypedStore
  <1>4. TypedLane'
    BY <1>1 DEF IInv, TypeOK, TypedLane, Labels
  <1>5. Job'
    BY <1>0, <1>1 DEF IInv, Job
  <1>6. Stop'
    BY <1>1 DEF IInv, Stop, Job
  <1>7. Wiping'
    BY <1>1, WipingFrame
  <1>8. Candidates'
    BY <1>1, CandidatesFrame
  <1>9. Corrections'
    <2>1. CASE same
      <3>1. /\ store'.no = store.no /\ store'.dirty = FALSE /\ store'.loaded = store.loaded
            /\ store'.entries = store.entries
        BY <1>0, <1>1, <2>1 DEF StoreType
      <3>2. ASSUME ~wiped, store.no = 0 PROVE files[dir] = <<store.entries>>
        BY <1>0, <1>1, <2>1, <3>2 DEF IInv, Corrections, SnapshotIsFollowed
      <3> QED
        BY <1>1, <3>1, <3>2 DEF Corrections, Matches
    <2>2. CASE ~same
      <3>1. store' = store
        BY <1>1, <2>2
      <3>2. ASSUME ~wiped, store.no = 0 PROVE store.dirty /\ "correction" \in runnable
        <4>1. SnapshotIsFollowed
          BY <1>0, <3>2 DEF IInv, Corrections
        <4> QED
          BY <2>2, <4>1 DEF SnapshotIsFollowed
      <3>3. store.dirty => store.loaded
        BY DEF IInv, Corrections
      <3> QED
        BY <1>1, <3>1, <3>2, <3>3 DEF Corrections, Coming
    <2> QED
      BY <2>1, <2>2
  <1> QED
    BY <1>2, <1>3, <1>4, <1>5, <1>6, <1>7, <1>8, <1>9 DEF IInv, TypeOK

(* The steps of a clear.                                                   *)

LEMMA BeginClearKeeps ==
  ASSUME IInv, BeginClear
  PROVE  IInv'
  <1>1. /\ clear = "no"
        /\ clear' = "accepted" /\ generation' = generation + 1 /\ pendingLearning' = <<>>
        /\ UNCHANGED <<serial, dir, enabled, store, runnable, executing, batch, writing,
                        snapshot, tries, persisted, shutdown, awaits, files, trie, erased,
                        wiped, writeFailed>>
    BY DEF BeginClear, ClearOnly, settingsVars, ramVars, jobVars, laneVars, diskVars, historyVars
  <1>2. TypedSettings'
    <2>1. generation + 1 \in Nat
      BY StoreNumbers
    <2> QED
      BY <1>1, <2>1 DEF IInv, TypeOK, TypedSettings
  <1>3. TypedStore'
    BY <1>1, StoreFrame
  <1>4. TypedLane'
    BY <1>1 DEF IInv, TypeOK, TypedLane, Labels
  <1>5. Job'
    BY <1>1, JobFrame
  <1>6. Stop'
    BY <1>1 DEF IInv, Stop, Job
  <1>7. Wiping'
    BY <1>1 DEF IInv, Wiping
  <1>8. Candidates'
    <2>1. batch' \in Seq(Sound') /\ pendingLearning' \in Seq(Sound')
      BY <1>1, BoundaryKeepsSound, WiderSeq DEF IInv, Candidates
    <2> QED
      BY <1>1, <2>1 DEF IInv, Candidates, LateLearningIsDropped, ErasedCandidatesStayErased
  <1>9. Corrections'
    BY <1>1, CorrectionsFrame
  <1> QED
    BY <1>2, <1>3, <1>4, <1>5, <1>6, <1>7, <1>8, <1>9 DEF IInv, TypeOK

LEMMA EnterClearFenceKeeps ==
  ASSUME IInv, EnterClearFence
  PROVE  IInv'
  <1>1. /\ clear = "accepted"
        /\ clear' = "fencing" /\ awaits' = [awaits EXCEPT !["clear"] = runnable]
        /\ UNCHANGED <<serial, dir, enabled, generation, store, pendingLearning, runnable,
                        executing, batch, writing, snapshot, tries, persisted, shutdown,
                        files, trie, erased, wiped, writeFailed>>
    BY DEF EnterClearFence, ClearOnly, settingsVars, ramVars, jobVars, laneVars, diskVars,
       historyVars
  <1>2. TypedSettings'
    BY <1>1, SettingsFrame
  <1>3. TypedStore'
    BY <1>1, StoreFrame
  <1>4. TypedLane'
    BY <1>1 DEF IInv, TypeOK, TypedLane, Labels
  <1>5. Job'
    BY <1>1, JobFrame
  <1>6. Stop'
    BY <1>1 DEF IInv, Stop, Job
  <1>7. Wiping'
    BY <1>1 DEF IInv, Wiping
  <1>8. Candidates'
    <2>1. Sound' = Sound
      BY <1>1 DEF Sound
    <2> QED
      BY <1>1, <2>1 DEF IInv, Job, Candidates, LateLearningIsDropped, ErasedCandidatesStayErased
  <1>9. Corrections'
    BY <1>1, CorrectionsFrame
  <1> QED
    BY <1>2, <1>3, <1>4, <1>5, <1>6, <1>7, <1>8, <1>9 DEF IInv, TypeOK

LEMMA PassClearFenceKeeps ==
  ASSUME IInv, PassClearFence
  PROVE  IInv'
  <1>1. /\ clear = "fencing" /\ executing = "none"
        /\ clear' = "fenced"
        /\ UNCHANGED <<serial, dir, enabled, generation, store, pendingLearning, runnable,
                        executing, batch, writing, snapshot, tries, persisted, shutdown,
                        awaits, files, trie, erased, wiped, writeFailed>>
    BY DEF PassClearFence, ClearOnly, FencePasses, settingsVars, ramVars, jobVars, laneVars,
       diskVars, historyVars
  <1>2. TypedSettings'
    BY <1>1, SettingsFrame
  <1>3. TypedStore'
    BY <1>1, StoreFrame
  <1>4. TypedLane'
    BY <1>1 DEF IInv, TypeOK, TypedLane, Labels
  <1>5. Job'
    BY <1>1, JobFrame
  <1>6. Stop'
    BY <1>1, StopFrame
  <1>7. Wiping'
    BY <1>1 DEF IInv, Wiping
  <1>8. Candidates'
    <2>1. Sound' = Sound
      BY <1>1 DEF Sound
    <2> QED
      BY <1>1, <2>1 DEF IInv, Job, Candidates, LateLearningIsDropped, ErasedCandidatesStayErased
  <1>9. Corrections'
    BY <1>1, CorrectionsFrame
  <1> QED
    BY <1>2, <1>3, <1>4, <1>5, <1>6, <1>7, <1>8, <1>9 DEF IInv, TypeOK

LEMMA WipeRamKeeps ==
  ASSUME IInv, WipeRam
  PROVE  IInv'
  <1>1. /\ clear = "fenced"
        /\ clear' = "wiped" /\ wiped' = TRUE
        /\ store' = [store EXCEPT !.entries = {}, !.dirty = FALSE, !.loaded = TRUE]
        /\ UNCHANGED <<serial, dir, enabled, generation, pendingLearning, runnable,
                        executing, batch, writing, snapshot, tries, persisted, shutdown,
                        awaits, files, trie, erased, writeFailed>>
    BY DEF WipeRam, ClearOnly, settingsVars, ramVars, jobVars, laneVars, diskVars, historyVars
  <1>2. TypedSettings'
    BY <1>1, SettingsFrame
  <1>3. TypedStore'
    <2>1. store' \in StoreType
      BY <1>1 DEF StoreType, IInv, TypeOK, TypedStore
    <2> QED
      BY <1>1, <2>1 DEF IInv, TypeOK, TypedStore
  <1>4. TypedLane'
    BY <1>1 DEF IInv, TypeOK, TypedLane, Labels
  <1>5. Job'
    BY <1>1, JobFrame
  <1>6. Stop'
    BY <1>1, StopFrame
  <1>7. Wiping'
    BY <1>1 DEF IInv, Wiping
  <1>8. Candidates'
    <2>1. Sound' = Sound
      BY <1>1 DEF Sound
    <2> QED
      BY <1>1, <2>1 DEF IInv, Job, Candidates, LateLearningIsDropped, ErasedCandidatesStayErased
  <1>9. Corrections'
    <2>1. store'.dirty = FALSE
      BY <1>1 DEF StoreType, IInv, TypeOK, TypedStore
    <2> QED
      BY <1>1, <2>1 DEF Corrections
  <1> QED
    BY <1>2, <1>3, <1>4, <1>5, <1>6, <1>7, <1>8, <1>9 DEF IInv, TypeOK

LEMMA ClearRefusedKeeps ==
  ASSUME IInv, ClearRefused
  PROVE  IInv'
  <1>1. /\ clear = "wiped"
        /\ clear' = "no"
        /\ UNCHANGED <<serial, dir, enabled, generation, store, pendingLearning, runnable,
                        executing, batch, writing, snapshot, tries, persisted, shutdown,
                        awaits, files, trie, erased, wiped, writeFailed>>
    BY DEF ClearRefused, ClearOnly, settingsVars, ramVars, jobVars, laneVars, diskVars, historyVars
  <1>2. TypedSettings'
    BY <1>1, SettingsFrame
  <1>3. TypedStore'
    BY <1>1, StoreFrame
  <1>4. TypedLane'
    BY <1>1 DEF IInv, TypeOK, TypedLane, Labels
  <1>5. Job'
    BY <1>1, JobFrame
  <1>6. Stop'
    BY <1>1, StopFrame
  <1>7. Wiping'
    BY <1>1 DEF IInv, Wiping
  <1>8. Candidates'
    <2>1. Sound \subseteq Sound' /\ ~writing
      BY <1>1 DEF Sound, IInv, Candidates, LateLearningIsDropped
    <2>2. batch' \in Seq(Sound') /\ pendingLearning' \in Seq(Sound')
      BY <1>1, <2>1, WiderSeq DEF IInv, Candidates
    <2> QED
      BY <1>1, <2>1, <2>2 DEF IInv, Candidates, LateLearningIsDropped, ErasedCandidatesStayErased
  <1>9. Corrections'
    BY <1>1, CorrectionsFrame
  <1> QED
    BY <1>2, <1>3, <1>4, <1>5, <1>6, <1>7, <1>8, <1>9 DEF IInv, TypeOK

LEMMA RemoveFilesKeeps ==
  ASSUME IInv, RemoveFiles
  PROVE  IInv'
  <1>0. wiped
    BY DEF RemoveFiles, IInv, Wiping
  <1>1. /\ clear = "wiped"
        /\ clear' = "removed"
        /\ files' \in {[files EXCEPT ![dir] = <<>>], files}
        /\ trie' \in {[trie EXCEPT ![dir] = {}], trie}
        /\ UNCHANGED <<serial, dir, enabled, generation, store, pendingLearning, runnable,
                        executing, batch, writing, snapshot, tries, persisted, shutdown,
                        awaits, erased, wiped, writeFailed>>
    BY DEF RemoveFiles, ClearOnly, settingsVars, ramVars, jobVars, laneVars, diskVars, historyVars
  <1>2. TypedSettings'
    BY <1>1, SettingsFrame
  <1>3. TypedStore'
    <2>1. files' \in [Dirs -> FileType] /\ trie' \in [Dirs -> SUBSET Nat]
      <3>1. <<>> \in FileType
        BY DEF FileType
      <3> QED
        BY <1>1, <3>1 DEF IInv, TypeOK, TypedStore
    <2> QED
      BY <1>1, <2>1 DEF IInv, TypeOK, TypedStore
  <1>4. TypedLane'
    BY <1>1 DEF IInv, TypeOK, TypedLane, Labels
  <1>5. Job'
    BY <1>1, JobFrame
  <1>6. Stop'
    BY <1>1, StopFrame
  <1>7. Wiping'
    BY <1>1 DEF IInv, Wiping
  <1>8. Candidates'
    <2>1. Sound' = Sound /\ ~writing
      BY <1>1 DEF Sound, IInv, Candidates, LateLearningIsDropped
    <2>2. ASSUME NEW d \in Dirs PROVE trie'[d] \subseteq trie[d]
      BY <1>1, <2>2 DEF IInv, TypeOK, TypedStore
    <2> QED
      BY <1>1, <2>1, <2>2 DEF IInv, Candidates, LateLearningIsDropped,
         ErasedCandidatesStayErased
  <1>9. Corrections'
    BY <1>0, <1>1 DEF IInv, Corrections
  <1> QED
    BY <1>2, <1>3, <1>4, <1>5, <1>6, <1>7, <1>8, <1>9 DEF IInv, TypeOK

LEMMA VerifyClearedKeeps ==
  ASSUME IInv, VerifyCleared
  PROVE  IInv'
  <1>1. /\ clear = "removed"
        /\ clear' = "no"
        /\ erased' = IF files[dir] = <<>> /\ trie[dir] = {}
                     THEN erased \cup {<<dir, i>> : i \in 1..serial} ELSE erased
        /\ UNCHANGED <<serial, dir, enabled, generation, store, pendingLearning, runnable,
                        executing, batch, writing, snapshot, tries, persisted, shutdown,
                        awaits, files, trie, wiped, writeFailed>>
    BY DEF VerifyCleared, ClearOnly, settingsVars, ramVars, jobVars, laneVars, diskVars,
       historyVars
  <1>2. TypedSettings'
    BY <1>1, SettingsFrame
  <1>3. TypedStore'
    BY <1>1, StoreFrame
  <1>4. TypedLane'
    BY <1>1 DEF IInv, TypeOK, TypedLane, Labels
  <1>5. Job'
    BY <1>1, JobFrame
  <1>6. Stop'
    BY <1>1, StopFrame
  <1>7. Wiping'
    BY <1>1 DEF IInv, Wiping
  <1>8. Candidates'
    <2>1. ~writing
      BY <1>1 DEF IInv, Candidates, LateLearningIsDropped
    <2>2. Sound \subseteq Sound'
      <3>1. ASSUME NEW c \in Sound PROVE c \in Sound'
        <4>1. /\ c \in Candidate /\ c.generation \in Nat /\ c.generation < generation
              /\ generation \in Nat
          BY <1>1, StoreNumbers DEF Sound, Candidate
        <4>2. c.generation <= generation' /\ c.generation # generation' /\ clear' = "no"
          BY <1>1, <4>1
        <4> QED
          BY <4>1, <4>2 DEF Sound
      <3> QED
        BY <3>1
    <2>3. batch' \in Seq(Sound') /\ pendingLearning' \in Seq(Sound')
      BY <1>1, <2>2, WiderSeq DEF IInv, Candidates
    <2>4. ASSUME NEW e \in erased'
          PROVE  e[1] \in Dirs /\ e[2] \in 1..serial /\ e[2] \notin trie[e[1]]
                 /\ e = <<e[1], e[2]>>
      <3>1. CASE e \in erased
        BY <3>1 DEF IInv, Candidates, ErasedCandidatesStayErased
      <3>2. CASE e \notin erased
        <4>1. trie[dir] = {} /\ \E i \in 1..serial : e = <<dir, i>>
          BY <1>1, <2>4, <3>2
        <4> QED
          BY <4>1, StoreNumbers
      <3> QED
        BY <3>1, <3>2
    <2> QED
      BY <1>1, <2>1, <2>3, <2>4 DEF Candidates, LateLearningIsDropped,
         ErasedCandidatesStayErased
  <1>9. Corrections'
    BY <1>1, CorrectionsFrame
  <1> QED
    BY <1>2, <1>3, <1>4, <1>5, <1>6, <1>7, <1>8, <1>9 DEF IInv, TypeOK

(* The graceful stop, and the end of the process.                          *)

LEMMA RequestShutdownKeeps ==
  ASSUME IInv, RequestShutdown
  PROVE  IInv'
  <1>1. /\ shutdown = "no"
        /\ shutdown' = "fencing" /\ awaits' = [awaits EXCEPT !["shutdown"] = runnable]
        /\ UNCHANGED <<serial, dir, enabled, generation, store, pendingLearning, runnable,
                        executing, batch, writing, snapshot, tries, persisted, clear, files,
                        trie, erased, wiped, writeFailed>>
    BY DEF RequestShutdown, StopOnly, settingsVars, ramVars, jobVars, laneVars, diskVars,
       historyVars
  <1>2. TypedSettings'
    BY <1>1, SettingsFrame
  <1>3. TypedStore'
    BY <1>1, StoreFrame
  <1>4. TypedLane'
    BY <1>1 DEF IInv, TypeOK, TypedLane, Labels
  <1>5. Job'
    BY <1>1 DEF IInv, Job
  <1>6. Stop'
    BY <1>1 DEF IInv, Stop, TypeOK, TypedLane
  <1>7. Wiping'
    BY <1>1, WipingFrame
  <1>8. Candidates'
    BY <1>1, CandidatesFrame
  <1>9. Corrections'
    BY <1>1, CorrectionsFrame
  <1> QED
    BY <1>2, <1>3, <1>4, <1>5, <1>6, <1>7, <1>8, <1>9 DEF IInv, TypeOK

LEMMA DrainForShutdownKeeps ==
  ASSUME IInv, DrainForShutdown
  PROVE  IInv'
  <1>1. /\ shutdown = "fencing" /\ executing = "none" /\ awaits["shutdown"] = {}
        /\ shutdown' = "draining" /\ executing' = "shutdown"
        /\ batch' = pendingLearning /\ pendingLearning' = <<>>
        /\ UNCHANGED <<serial, dir, enabled, generation, store, runnable, writing,
                        snapshot, tries, persisted, clear, awaits, files, trie, erased,
                        wiped, writeFailed>>
    BY DEF DrainForShutdown, StopOnly, FencePasses, settingsVars, ramVars, jobVars, laneVars,
       diskVars, historyVars
  <1>2. TypedSettings'
    BY <1>1, SettingsFrame
  <1>3. TypedStore'
    BY <1>1, StoreFrame
  <1>4. TypedLane'
    BY <1>1 DEF IInv, TypeOK, TypedLane, Labels
  <1>5. Job'
    BY <1>1 DEF IInv, Job
  <1>6. Stop'
    <2>1. runnable = {}
      BY <1>1 DEF IInv, Stop
    <2> QED
      BY <1>1, <2>1 DEF Stop
  <1>7. Wiping'
    BY <1>1, WipingFrame
  <1>8. Candidates'
    <2>1. batch' \in Seq(Sound) /\ pendingLearning' \in Seq(Sound) /\ ~writing
      BY <1>1, EmptySound DEF IInv, Candidates, Job
    <2> QED
      BY <1>1, <2>1, SoundFrame
      DEF IInv, Candidates, LateLearningIsDropped, ErasedCandidatesStayErased
  <1>9. Corrections'
    BY <1>1 DEF IInv, Corrections, SnapshotIsFollowed, Coming, Matches
  <1> QED
    BY <1>2, <1>3, <1>4, <1>5, <1>6, <1>7, <1>8, <1>9 DEF IInv, TypeOK

LEMMA FlushCorrectionsKeeps ==
  ASSUME IInv, FlushCorrections
  PROVE  IInv'
  <1>1. /\ shutdown = "drained" /\ shutdown' = "flushed"
        /\ UNCHANGED <<serial, dir, enabled, generation, pendingLearning, runnable, executing,
                       batch, writing, snapshot, tries, persisted, clear, awaits, trie, erased,
                       wiped>>
    BY DEF FlushCorrections, StopOnly, settingsVars, laneVars, jobVars
  <1>2. executing = "none" /\ snapshot = <<>>
    BY <1>1 DEF IInv, Stop, Job
  <1>3. TypedSettings' /\ Wiping' /\ Candidates'
    BY <1>1, SettingsFrame, WipingFrame, CandidatesFrame
  <1>4. Job' /\ Stop'
    BY <1>1, <1>2 DEF IInv, Job, Stop
  <1>5. CASE store.dirty /\ files' = [files EXCEPT ![dir] = <<store.entries>>]
             /\ store' = [store EXCEPT !.dirty = FALSE] /\ writeFailed' = FALSE
    <2>1. /\ store' \in StoreType /\ store'.no = store.no /\ store'.entries = store.entries
          /\ store'.dirty = FALSE
      BY <1>5 DEF StoreType, IInv, TypeOK, TypedStore
    <2>2. files' \in [Dirs -> FileType] /\ files'[dir] = <<store.entries>>
      <3>1. <<store.entries>> \in FileType /\ dir \in Dirs
        BY StoreNumbers DEF FileType
      <3> QED
        BY <1>5, <3>1 DEF IInv, TypeOK, TypedStore
    <2>3. TypedStore' /\ TypedLane'
      BY <1>1, <1>5, <2>1, <2>2 DEF IInv, TypeOK, TypedStore, TypedLane
    <2>4. Corrections'
      BY <1>1, <1>2, <2>1, <2>2 DEF Corrections, Matches
    <2> QED
      BY <1>3, <1>4, <2>3, <2>4 DEF IInv, TypeOK
  <1>6. CASE UNCHANGED <<store, files>> /\ writeFailed' \in {TRUE, writeFailed}
    <2>1. TypedStore' /\ TypedLane'
      BY <1>1, <1>6 DEF IInv, TypeOK, TypedStore, TypedLane
    <2>2. Corrections'
      BY <1>1, <1>2, <1>6 DEF IInv, Corrections, Coming, Matches
    <2> QED
      BY <1>3, <1>4, <2>1, <2>2 DEF IInv, TypeOK
  <1> QED
    BY <1>5, <1>6 DEF FlushCorrections

LEMMA NewProcessKeeps ==
  ASSUME IInv, NewProcess
  PROVE  IInv'
  <1>1. /\ store' = FreshStore(0) /\ pendingLearning' = <<>>
        /\ runnable' = {} /\ executing' = "none"
        /\ batch' = <<>> /\ writing' = FALSE /\ snapshot' = <<>> /\ persisted' = FALSE
        /\ clear' = "no" /\ shutdown' = "no" /\ awaits' = [f \in DOMAIN awaits |-> {}]
        /\ wiped' = FALSE /\ writeFailed' = FALSE
        /\ UNCHANGED <<serial, dir, enabled, generation, files, trie, erased>>
    BY DEF NewProcess, settingsVars, ramVars, jobVars, laneVars, diskVars, historyVars
  <1>2. TypedSettings'
    BY <1>1, SettingsFrame
  <1>3. TypedStore'
    BY <1>1, FreshFields DEF IInv, TypeOK, TypedStore
  <1>4. TypedLane'
    BY <1>1 DEF IInv, TypeOK, TypedLane, Labels
  <1>5. Job'
    BY <1>1 DEF IInv, Job
  <1>6. Stop'
    BY <1>1 DEF IInv, Stop, Job
  <1>7. Wiping'
    BY <1>1 DEF IInv, Wiping
  <1>8. Candidates'
    BY <1>1 DEF IInv, Candidates, LateLearningIsDropped, ErasedCandidatesStayErased
  <1>9. Corrections'
    BY <1>1, FreshFields DEF Corrections
  <1> QED
    BY <1>2, <1>3, <1>4, <1>5, <1>6, <1>7, <1>8, <1>9 DEF IInv, TypeOK
-----------------------------------------------------------------------------
LEMMA InitIInv == Init => IInv
  <1> SUFFICES ASSUME Init PROVE IInv
    OBVIOUS
  <1> USE DEF Init
  <1>1. TypedSettings
    BY DEF TypedSettings
  <1>2. TypedStore
    <2>1. <<>> \in FileType
      BY DEF FileType
    <2> QED
      BY <2>1, FreshFields DEF TypedStore
  <1>3. TypedLane
    BY DEF TypedLane, Labels
  <1>4. Job /\ Stop /\ Wiping
    BY DEF Job, Stop, Wiping
  <1>5. Candidates
    BY DEF Candidates, LateLearningIsDropped, ErasedCandidatesStayErased
  <1>6. Corrections
    BY FreshFields DEF Corrections
  <1> QED
    BY <1>1, <1>2, <1>3, <1>4, <1>5, <1>6 DEF IInv, TypeOK

LEMMA IInvKept == IInv /\ [Next]_vars => IInv'
  <1> SUFFICES ASSUME IInv, [Next]_vars PROVE IInv'
    OBVIOUS
  <1>1. CASE Handlers
    <2>1. ASSUME NEW i \in 1..MaxSerial, Unlearn(i) PROVE IInv'
      BY <2>1, UnlearnKeeps
    <2>2. ASSUME NEW explicit \in BOOLEAN, CommitReceipt(explicit) PROVE IInv'
      BY <2>2, CommitReceiptKeeps
    <2>3. ASSUME NEW d \in Dirs, NEW on \in BOOLEAN, Reload(d, on) PROVE IInv'
      BY <2>3, ReloadKeeps
    <2> QED
      BY <1>1, <2>1, <2>2, <2>3, RecordCorrectionKeeps DEF Handlers
  <1>2. CASE Lane
    <2>1. ASSUME NEW label \in Labels, StartJob(label) PROVE IInv'
      BY <2>1, StartJobKeeps
    <2> QED
      BY <1>2, <2>1, CheckCandidateKeeps, WriteCandidateKeeps, DrainEndsKeeps,
         TakeSnapshotKeeps, PersistSnapshotKeeps, AcknowledgeKeeps DEF Lane
  <1>3. CASE BeginClear \/ Clearing
    BY <1>3, BeginClearKeeps, EnterClearFenceKeeps, PassClearFenceKeeps, WipeRamKeeps,
       ClearRefusedKeeps, RemoveFilesKeeps, VerifyClearedKeeps DEF Clearing
  <1>4. CASE RequestShutdown \/ Stopping \/ Crash
    BY <1>4, RequestShutdownKeeps, DrainForShutdownKeeps, FlushCorrectionsKeeps,
       NewProcessKeeps DEF Stopping, Exit, Crash
  <1>5. CASE UNCHANGED vars
    BY <1>5, SettingsFrame, StoreFrame, LaneFrame, JobFrame, StopFrame, WipingFrame, CandidatesFrame,
       CorrectionsFrame
    DEF vars, settingsVars, ramVars, jobVars, laneVars, diskVars, historyVars, IInv, TypeOK
  <1> QED
    BY <1>1, <1>2, <1>3, <1>4, <1>5 DEF Next

(* Every reachable state satisfies the inductive invariant.                *)
THEOREM IInvAlways == Spec => []IInv
  BY InitIInv, IInvKept, PTL DEF Spec

(* A closed generation stays closed: nothing learned under it is being     *)
(* written, and what a clear has erased is not in the files again.         *)
THEOREM StoreSafe == Spec => []StoreInv
  <1>1. IInv => StoreInv
    <2> SUFFICES ASSUME IInv PROVE StoreInv
      OBVIOUS
    <2>1. StoreTypeOK
      BY DEF StoreTypeOK, IInv, TypeOK, TypedSettings, TypedLane, Job
    <2> QED
      BY <2>1 DEF StoreInv, IInv, Candidates
  <1> QED
    BY <1>1, IInvAlways, PTL

(* When the lane is at rest, the file holds the corrections RAM holds.     *)
THEOREM RestIsSaved == Spec => []RestMeansSaved
  <1>1. IInv => RestMeansSaved
    BY DEF IInv, Job, Corrections, Coming, Matches, RestMeansSaved, AtRest
  <1> QED
    BY <1>1, IInvAlways, PTL

(* A graceful stop leaves no candidate in RAM or on the lane, and no       *)
(* unsaved correction unless its write failed.                             *)
THEOREM StopSaves == Spec => ShutdownSaves
  <1> DEFINE Saved == shutdown' = "flushed" /\ shutdown # "flushed" =>
                        pendingLearning' = <<>> /\ batch' = <<>> /\ (store'.dirty => writeFailed')
  <1>1. ASSUME IInv, Next PROVE Saved
    <2> SUFFICES ASSUME shutdown' = "flushed", shutdown # "flushed"
                 PROVE  pendingLearning' = <<>> /\ batch' = <<>> /\ (store'.dirty => writeFailed')
      OBVIOUS
    <2>1. FlushCorrections
      <3>1. ~Handlers /\ ~Lane
        BY DEF Handlers, RecordCorrection, Unlearn, CommitReceipt, Reload, Lane, StartJob,
           CheckCandidate, WriteCandidate, DrainEnds, TakeSnapshot, PersistSnapshot, Acknowledge
      <3>2. ~BeginClear /\ ~Clearing
        BY DEF BeginClear, Clearing, EnterClearFence, PassClearFence, WipeRam, ClearRefused,
           RemoveFiles, VerifyCleared, ClearOnly
      <3>3. ~RequestShutdown /\ ~DrainForShutdown /\ ~Exit /\ ~Crash
        BY DEF RequestShutdown, DrainForShutdown, Exit, Crash, NewProcess
      <3> QED
        BY <1>1, <3>1, <3>2, <3>3 DEF Next, Stopping
    <2>2. shutdown = "drained" /\ UNCHANGED <<pendingLearning, batch>>
      BY <2>1 DEF FlushCorrections, laneVars, jobVars
    <2>3. pendingLearning = <<>> /\ batch = <<>>
      BY <1>1, <2>2 DEF IInv, Stop, Job
    <2>4. store'.dirty => writeFailed'
      BY <1>1, <2>1 DEF FlushCorrections, IInv, TypeOK, TypedStore, StoreType
    <2> QED
      BY <2>2, <2>3, <2>4
  <1>2. IInv /\ [Next]_vars => [Saved]_vars
    BY <1>1
  <1> QED
    BY <1>2, IInvAlways, PTL DEF Spec, ShutdownSaves
=============================================================================
