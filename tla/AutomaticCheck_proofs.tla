------------------------ MODULE AutomaticCheck_proofs ------------------------
(***************************************************************************)
(* Machine-checked proofs about AutomaticCheck, for any set of checkers    *)
(* and of releases and any number of failing calls, starts and patches.    *)
(* The inductive invariant IInv is a conjunction of layers, and each layer *)
(* has its lemma: types, locks, what the startup worker knows, what the    *)
(* switch knows, the announcements, the agreement of task and setting.     *)
(***************************************************************************)
EXTENDS AutomaticCheck, TLAPS

Settings == [auto : BOOLEAN, other : Nat]
RecOff == {"offLease", "offDelete"}
RecOn == {"register", "run"}
RecFall == {"fallLease", "fallSave", "fallDelete"}
RecLocked == RecOff \cup RecOn \cup RecFall
RecPcs == {"down", "spawned", "done", "offLease", "offDelete", "register", "run",
           "fallLease", "fallSave", "fallDelete"}
SetBack == {"backLease", "backDelete", "backSave"}
SetPcs == {"idle", "previous", "begin", "lease", "save", "delete", "register", "saveOn",
           "undo", "run", "end", "backLease", "backDelete", "backSave"}
Announcing == {"fetch", "toast", "note"}
LeaseHeld == {"reread", "load", "last"} \cup Announcing
CheckerPcs == {"idle", "lock", "reread", "load", "last", "fetch", "toast", "note"}

RecType == [pc : RecPcs, view : Settings, known : BOOLEAN, tries : {0, 1}]
SetType == [pc : SetPcs, prev : BOOLEAN, want : BOOLEAN, rep : BOOLEAN, calm : BOOLEAN,
            out : {"ok", "warn", "err"}]
PatchType == [pc : {"idle", "sent"}, base : Settings]
CheckerType == [pc : CheckerPcs, st : SUBSET Candidates, found : Candidates \cup {None}]
MemoryType == [other : Nat, toast : Candidates \cup {None}, lost : BOOLEAN, orphan : BOOLEAN]

TypeOK ==
    /\ settings \in Settings /\ task \in BOOLEAN
    /\ lease \in {None, "rec", "set"} \cup Checkers /\ slock \in {None, "rec"}
    /\ repair \in BOOLEAN /\ ui \in BOOLEAN
    /\ rec \in RecType /\ set \in SetType /\ patch \in PatchType
    /\ mend \in {"idle", "register"}
    /\ chk \in [Checkers -> CheckerType]
    /\ ustate \in SUBSET Candidates
    /\ faults \in 0..MaxFaults /\ starts \in 0..MaxStarts
    /\ gh \in MemoryType
    /\ \A c \in Checkers : chk[c].pc \in {"toast", "note"} => chk[c].found \in Candidates

(* Each of the two locks has the holder its name says; Config that is down *)
(* has no call in flight.                                                  *)
Locks ==
    /\ slock = "rec" <=> rec.pc \in RecLocked
    /\ rec.pc \in {"offDelete", "fallSave", "fallDelete"} => lease = "rec"
    /\ set.pc \in {"backDelete", "backSave"} => lease = "set"
    /\ \A c \in Checkers : chk[c].pc \in LeaseHeld => lease = c
    /\ rec.pc = "down" => set.pc = "idle"

(* What the startup worker loaded is what the file still says, under the   *)
(* settings lock.                                                          *)
ViewIsCurrent ==
    /\ rec.pc \in RecLocked => rec.view.other = settings.other
    /\ rec.pc \in RecOff => ~settings.auto
    /\ rec.pc \in RecOn => settings.auto

(* What the switch knows of the setting.  Only the startup worker changes  *)
(* it besides, and only to OFF.                                            *)
SwitchKnows ==
    /\ set.pc \in {"idle", "previous", "begin", "lease", "save", "delete", "register",
                   "saveOn", "undo"} /\ rec.pc # "down" /\ ~ui => ~settings.auto
    /\ set.pc = "end" /\ set.out = "err" /\ ~ui => ~settings.auto
    /\ set.pc \in {"previous", "begin", "register", "saveOn", "undo"} /\ set.want => ~settings.auto
    /\ set.pc \in {"begin", "lease", "save"} /\ ~set.prev => ~settings.auto
    /\ set.pc = "lease" => set.prev \/ set.rep
    /\ set.pc = "begin" /\ set.want => ~set.prev
    /\ set.pc \in {"register", "saveOn", "undo", "run"} \cup SetBack => set.want
    /\ set.pc \in {"lease", "save", "delete"} => ~set.want
    /\ set.pc = "save" => lease = "set" \/ (~set.prev /\ ~set.rep)
    /\ set.pc = "delete" => ~settings.auto

(* The state file holds the last announcement, unless its record was lost, *)
(* and whoever is about to announce knows the state file.                  *)
Noting == \E c \in Checkers : chk[c].pc = "note"
AnnouncedIsNoted ==
    /\ \A c \in Checkers :
          /\ chk[c].pc \in {"last", "fetch", "toast"} => chk[c].st = ustate
          /\ chk[c].pc = "toast" => chk[c].found \in Candidates \ chk[c].st
          /\ chk[c].pc = "note" => chk[c].found = gh.toast
    /\ ~gh.lost /\ gh.toast # None /\ ~Noting => ustate = {gh.toast}

(* AgreesAtRest while a command is on its way.  A command is calm when it  *)
(* began after the startup worker had ended.                               *)
Agrees == task = settings.auto
Excused == repair \/ gh.orphan
InFlight == set.pc \notin {"idle", "previous", "begin"} /\ ~(set.pc = "end" /\ set.out = "err")
Settled ==
    \/ set.pc \in {"idle", "previous", "begin", "lease", "save", "register"}
    \/ set.pc = "end" /\ set.out = "err"
AgreesMeanwhile ==
    /\ InFlight /\ set.calm => rec.pc = "done"
    /\ set.pc = "run" => settings.auto \/ rec.pc = "fallDelete"
                           \/ (rec.pc = "done" /\ repair /\ ~set.calm)
    /\ rec.pc = "done" =>
          /\ set.pc = "save" /\ set.calm /\ ~set.prev /\ ~set.rep => ~repair
          /\ Settled => Agrees \/ Excused
          /\ set.pc = "end" /\ set.out = "ok" => Agrees \/ gh.orphan \/ (repair /\ ~set.calm)

IInv == TypeOK /\ Locks /\ ViewIsCurrent /\ SwitchKnows /\ AnnouncedIsNoted /\ AgreesMeanwhile
          /\ OffIsQuiet /\ PatchesSurvive

(* The constant records of the module have their types, and a call that    *)
(* can fail keeps the count of failures within its bound.                  *)
LEMMA IdleTypes ==
  /\ IdleRec \in RecType /\ IdleSet \in SetType
  /\ IdlePatch \in PatchType /\ IdleChecker \in CheckerType
  BY DEF IdleRec, IdleSet, IdlePatch, IdleChecker, RecType, SetType, PatchType, CheckerType,
         RecPcs, SetPcs, CheckerPcs, Settings, FreshState, None

LEMMA FaultsTyped ==
  ASSUME TypeOK, Succeeds \/ Fails
  PROVE  faults' \in 0..MaxFaults
  BY CheckAssumption DEF TypeOK, Succeeds, Fails

(* What an action does, field by field, for the actions with the most      *)
(* outcomes.                                                               *)
SetKept == /\ set'.prev = set.prev /\ set'.want = set.want
           /\ set'.rep = set.rep /\ set'.calm = set.calm

LEMMA RecLoadEffect ==
  ASSUME TypeOK, RecLoad
  PROVE  /\ rec.pc = "spawned" /\ UNCHANGED <<settings, task, set, chk, gh>>
         /\ \/ /\ slock' = "rec" /\ rec'.view = settings /\ UNCHANGED <<lease, repair>>
               /\ rec'.pc = IF settings.auto THEN "register" ELSE "offLease"
            \/ /\ slock' = None /\ rec'.pc = "done" /\ repair' = TRUE
               /\ lease' = IF lease = "rec" THEN None ELSE lease
  <1>1. rec \in RecType
    BY DEF TypeOK
  <1> QED
    BY <1>1 DEF RecLoad, ReleaseRec, IdleRec, RecType

LEMMA RecRunEffect ==
  ASSUME TypeOK, RecRun
  PROVE  /\ rec.pc = "run" /\ UNCHANGED <<settings, task, set, gh>>
         /\ \/ /\ task /\ repair' = FALSE
               /\ slock' = None /\ rec' = [IdleRec EXCEPT !.pc = "done"] /\ rec'.pc = "done"
               /\ lease' = IF lease = "rec" THEN None ELSE lease
            \/ /\ rec' = [rec EXCEPT !.pc = "fallLease", !.tries = 0]
               /\ rec'.pc = "fallLease" /\ rec'.view = rec.view
               /\ UNCHANGED <<chk, repair, slock, lease>>
         /\ chk' = chk \/ StartChecker
  <1>1. rec \in RecType
    BY DEF TypeOK
  <1> QED
    BY <1>1 DEF RecRun, ReleaseRec, IdleRec, StartTask, NoChecker, RecType

LEMMA SetLeaseEffect ==
  ASSUME TypeOK, SetLease
  PROVE  /\ set.pc = "lease" /\ SetKept /\ UNCHANGED <<settings, task, slock, repair, rec, ui, gh>>
         /\ \/ set'.pc = "save" /\ lease' = "set"
            \/ set'.pc = "end" /\ set'.out = "err"
  <1>1. set \in SetType
    BY DEF TypeOK
  <1> QED
    BY <1>1 DEF SetLease, SetReturns, SetKept, SetType

LEMMA SetSaveEffect ==
  ASSUME TypeOK, SetSave
  PROVE  /\ set.pc = "save" /\ SetKept /\ slock = None
         /\ UNCHANGED <<task, slock, repair, rec, ui, chk, gh>>
         /\ \/ /\ settings'.auto = set.want /\ ~set.want /\ (set.prev \/ set.rep)
               /\ set'.pc = "delete" /\ lease' = lease
            \/ /\ settings'.auto = set.want /\ (set.want \/ ~(set.prev \/ set.rep))
               /\ set'.pc = "end" /\ set'.out = "ok"
               /\ lease' = IF lease = "set" THEN None ELSE lease
            \/ /\ settings' = settings /\ set'.pc = "end" /\ set'.out = "err"
               /\ lease' = IF lease = "set" THEN None ELSE lease
  <1>1. set \in SetType /\ settings \in Settings
    BY DEF TypeOK
  <1>2. set.pc = "save" /\ slock = None /\ UNCHANGED <<task, slock, repair, rec, ui, chk, gh>>
    BY DEF SetSave, SettingsLockFree
  <1>3. CASE settings' = settings /\ SetReturns("err")
    BY <1>1, <1>2, <1>3 DEF SetReturns, SetKept, SetType
  <1>4. CASE /\ SaveAuto(set.want) /\ ~set.want /\ (set.prev \/ set.rep)
             /\ set' = [set EXCEPT !.pc = "delete"] /\ lease' = lease
    BY <1>1, <1>2, <1>4 DEF SaveAuto, SetKept, SetType, Settings
  <1>5. CASE /\ SaveAuto(set.want) /\ (set.want \/ ~(set.prev \/ set.rep)) /\ SetReturns("ok")
    BY <1>1, <1>2, <1>5 DEF SaveAuto, SetReturns, SetKept, SetType, Settings
  <1> QED
    BY <1>3, <1>4, <1>5 DEF SetSave

LEMMA SetRunEffect ==
  ASSUME TypeOK, SetRun
  PROVE  /\ set.pc = "run" /\ SetKept
         /\ UNCHANGED <<settings, task, slock, repair, rec, ui, gh>>
         /\ \/ /\ task /\ set'.pc = "end" /\ set'.out = "ok"
               /\ lease' = IF lease = "set" THEN None ELSE lease
            \/ set'.pc = "backLease" /\ lease' = lease
         /\ chk' = chk \/ StartChecker
  <1>1. set \in SetType
    BY DEF TypeOK
  <1> QED
    BY <1>1 DEF SetRun, StartTask, NoChecker, SetReturns, SetKept, SetType

(* Every step keeps the types.                                             *)
LEMMA TypeKept ==
  ASSUME TypeOK, Next
  PROVE  TypeOK'
  <1>0. /\ settings \in Settings /\ rec \in RecType /\ set \in SetType /\ patch \in PatchType
        /\ chk \in [Checkers -> CheckerType] /\ gh \in MemoryType
    BY DEF TypeOK
  <1>00. /\ rec.view \in Settings /\ settings.auto \in BOOLEAN /\ set.want \in BOOLEAN
         /\ \A d \in Checkers : chk[d].st \in SUBSET Candidates
    BY <1>0 DEF RecType, SetType, Settings, CheckerType
  <1>1. CASE StartConfig
    <2>1. rec' \in RecType
      BY <1>1, <1>0, <1>00, IdleTypes DEF StartConfig, RecType, RecPcs
    <2>2. set' \in SetType
      BY <1>1, <1>0, <1>00, IdleTypes DEF StartConfig, SetType, SetPcs
    <2>3. patch' \in PatchType
      BY <1>1, <1>0, <1>00, IdleTypes DEF StartConfig, PatchType
    <2>4. repair' \in BOOLEAN /\ ui' \in BOOLEAN
      BY <1>1, <1>0, <1>00 DEF StartConfig, TypeOK, Settings
    <2>5. starts' \in 0..MaxStarts
      BY <1>1, CheckAssumption DEF StartConfig, TypeOK
    <2> QED
      BY <1>1, <2>1, <2>2, <2>3, <2>4, <2>5 DEF StartConfig, TypeOK
  <1>2. CASE StopConfig
    <2>1. rec' \in RecType
      BY <1>2, <1>0, <1>00, IdleTypes DEF StopConfig, RecType, RecPcs
    <2>2. set' \in SetType
      BY <1>2, <1>0, <1>00, IdleTypes DEF StopConfig, SetType, SetPcs
    <2>3. patch' \in PatchType
      BY <1>2, <1>0, <1>00, IdleTypes DEF StopConfig, PatchType
    <2>4. lease' \in {None, "rec", "set"} \cup Checkers /\ slock' \in {None, "rec"}
      BY <1>2, <1>0, <1>00 DEF StopConfig, TypeOK
    <2> QED
      BY <1>2, <2>1, <2>2, <2>3, <2>4 DEF StopConfig, TypeOK
  <1>3. CASE SetCall
    <2>1. set' \in SetType
      BY <1>3, <1>0, <1>00, IdleTypes DEF SetCall, SetType, SetPcs
    <2> QED
      BY <1>3, <2>1 DEF SetCall, TypeOK
  <1>4. CASE PatchCall
    <2>1. patch' \in PatchType
      BY <1>4, <1>0, <1>00, IdleTypes DEF PatchCall, PatchType
    <2> QED
      BY <1>4, <2>1 DEF PatchCall, TypeOK
  <1>5. CASE PatchApply
    <2>1. settings' \in Settings
      BY <1>5, <1>0, <1>00, IdleTypes DEF PatchApply, Settings
    <2>2. patch' \in PatchType
      BY <1>5, <1>0, <1>00, IdleTypes DEF PatchApply, PatchType
    <2>3. gh' \in MemoryType
      BY <1>5, <1>0, <1>00, IdleTypes DEF PatchApply, MemoryType
    <2>4. ui' \in BOOLEAN
      BY <1>5, <1>0, <1>00 DEF PatchApply, TypeOK, Settings
    <2>5. faults' \in 0..MaxFaults
      BY <1>5, FaultsTyped DEF PatchApply
    <2> QED
      BY <1>5, <2>1, <2>2, <2>3, <2>4, <2>5 DEF PatchApply, TypeOK
  <1>6. CASE MendRead
    <2>1. mend' \in {"idle", "register"}
      BY <1>6, <1>0, <1>00 DEF MendRead, TypeOK
    <2> QED
      BY <1>6, <2>1 DEF MendRead, TypeOK
  <1>7. CASE MendRegister
    <2>1. gh' \in MemoryType
      BY <1>7, <1>0, <1>00, IdleTypes DEF MendRegister, MemoryType
    <2>2. task' \in BOOLEAN /\ mend' \in {"idle", "register"}
      BY <1>7, <1>0, <1>00 DEF MendRegister, RegisterTask, TypeOK
    <2>3. faults' \in 0..MaxFaults
      BY <1>7, FaultsTyped DEF MendRegister
    <2> QED
      BY <1>7, <2>1, <2>2, <2>3 DEF MendRegister, TypeOK
  <1>8. CASE Launch
    <2>1. chk' \in [Checkers -> CheckerType]
      BY <1>8, <1>0, <1>00, IdleTypes DEF Launch, StartChecker, CheckerType, CheckerPcs
    <2>2. \A d \in Checkers : chk'[d].pc \in {"toast", "note"} => chk'[d].found \in Candidates
      BY <1>8, <1>0 DEF Launch, StartChecker, TypeOK, CheckerType, IdleChecker
    <2> QED
      BY <1>8, <2>1, <2>2 DEF Launch, TypeOK, config
  <1>9. CASE Rec
    <2>1. CASE RecLoad
      <3>1. rec' \in RecType
        BY <2>1, <1>0, <1>00, IdleTypes DEF RecLoad, ReleaseRec, RecType, RecPcs
      <3>2. lease' \in {None, "rec", "set"} \cup Checkers /\ slock' \in {None, "rec"} /\ repair' \in BOOLEAN
        BY <2>1, <1>0, <1>00 DEF RecLoad, ReleaseRec, TypeOK
      <3>3. faults' \in 0..MaxFaults
        BY <2>1, FaultsTyped DEF RecLoad
      <3> QED
        BY <2>1, <3>1, <3>2, <3>3 DEF RecLoad, TypeOK
    <2>2. CASE RecOffLease
      <3>1. rec' \in RecType
        BY <2>2, <1>0, <1>00, IdleTypes DEF RecOffLease, ReleaseRec, RecType, RecPcs
      <3>2. lease' \in {None, "rec", "set"} \cup Checkers /\ slock' \in {None, "rec"} /\ repair' \in BOOLEAN
        BY <2>2, <1>0, <1>00 DEF RecOffLease, ReleaseRec, TypeOK
      <3>3. faults' \in 0..MaxFaults
        BY <2>2, FaultsTyped DEF RecOffLease
      <3> QED
        BY <2>2, <3>1, <3>2, <3>3 DEF RecOffLease, TypeOK
    <2>3. CASE RecOffDelete
      <3>1. rec' \in RecType
        BY <2>3, <1>0, <1>00, IdleTypes DEF RecOffDelete, ReleaseRec, RecType, RecPcs
      <3>2. gh' \in MemoryType
        BY <2>3, <1>0, <1>00, IdleTypes DEF RecOffDelete, DeleteTask, MemoryType
      <3>3. task' \in BOOLEAN /\ lease' \in {None, "rec", "set"} \cup Checkers /\ slock' \in {None, "rec"} /\ repair' \in BOOLEAN
        BY <2>3, <1>0, <1>00 DEF RecOffDelete, DeleteTask, ReleaseRec, TypeOK
      <3>4. faults' \in 0..MaxFaults
        BY <2>3, FaultsTyped DEF RecOffDelete
      <3> QED
        BY <2>3, <3>1, <3>2, <3>3, <3>4 DEF RecOffDelete, TypeOK
    <2>4. CASE RecRegister
      <3>1. rec' \in RecType
        <4>1. [rec EXCEPT !.pc = "run"] \in RecType
          BY <1>0 DEF RecType, RecPcs
        <4>2. ASSUME NEW b \in BOOLEAN
              PROVE  [rec EXCEPT !.pc = "fallLease", !.known = b, !.tries = 1] \in RecType
          BY <1>0 DEF RecType, RecPcs
        <4> QED
          BY <2>4, <4>1, <4>2 DEF RecRegister
      <3>2. task' \in BOOLEAN
        BY <2>4, <1>0, <1>00 DEF RecRegister, RegisterTask, TypeOK
      <3>3. faults' \in 0..MaxFaults
        BY <2>4, FaultsTyped DEF RecRegister
      <3> QED
        BY <2>4, <3>1, <3>2, <3>3 DEF RecRegister, TypeOK
    <2>5. CASE RecRun
      <3>1. rec' \in RecType
        <4>1. [rec EXCEPT !.pc = "fallLease", !.tries = 0] \in RecType
          BY <1>0 DEF RecType, RecPcs
        <4>2. [IdleRec EXCEPT !.pc = "done"] \in RecType
          BY IdleTypes DEF RecType, RecPcs
        <4> QED
          BY <2>5, <4>1, <4>2, RecRunEffect
      <3>2. chk' \in [Checkers -> CheckerType]
        BY <2>5, <1>0, <1>00, IdleTypes DEF RecRun, StartTask, StartChecker, NoChecker,
           CheckerType, CheckerPcs
      <3>3. \A d \in Checkers : chk'[d].pc \in {"toast", "note"} => chk'[d].found \in Candidates
        BY <2>5, <1>0 DEF RecRun, StartTask, StartChecker, NoChecker, TypeOK,
           CheckerType, IdleChecker
      <3>4. lease' \in {None, "rec", "set"} \cup Checkers /\ slock' \in {None, "rec"} /\ repair' \in BOOLEAN
        BY <2>5, <1>0, <1>00 DEF RecRun, ReleaseRec, TypeOK
      <3>5. faults' \in 0..MaxFaults
        BY <2>5, FaultsTyped DEF RecRun
      <3> QED
        BY <2>5, <3>1, <3>2, <3>3, <3>4, <3>5 DEF RecRun, TypeOK
    <2>6. CASE RecFallLease
      <3>1. rec' \in RecType
        BY <2>6, <1>0, <1>00, IdleTypes DEF RecFallLease, ReleaseRec, RecType, RecPcs
      <3>2. lease' \in {None, "rec", "set"} \cup Checkers /\ slock' \in {None, "rec"} /\ repair' \in BOOLEAN
        BY <2>6, <1>0, <1>00 DEF RecFallLease, ReleaseRec, TypeOK
      <3>3. faults' \in 0..MaxFaults
        BY <2>6, FaultsTyped DEF RecFallLease
      <3> QED
        BY <2>6, <3>1, <3>2, <3>3 DEF RecFallLease, TypeOK
    <2>7. CASE RecFallSave
      <3>1. settings' \in Settings
        BY <2>7, <1>0, <1>00, IdleTypes DEF RecFallSave, Settings
      <3>2. rec' \in RecType
        BY <2>7, <1>0, <1>00, IdleTypes DEF RecFallSave, ReleaseRec, RecType, RecPcs
      <3>3. lease' \in {None, "rec", "set"} \cup Checkers /\ slock' \in {None, "rec"} /\ repair' \in BOOLEAN
        BY <2>7, <1>0, <1>00 DEF RecFallSave, ReleaseRec, TypeOK
      <3>4. faults' \in 0..MaxFaults
        BY <2>7, FaultsTyped DEF RecFallSave
      <3> QED
        BY <2>7, <3>1, <3>2, <3>3, <3>4 DEF RecFallSave, TypeOK
    <2>8. CASE RecFallDelete
      <3>1. rec' \in RecType
        BY <2>8, <1>0, <1>00, IdleTypes DEF RecFallDelete, ReleaseRec, RecType, RecPcs
      <3>2. gh' \in MemoryType
        BY <2>8, <1>0, <1>00, IdleTypes DEF RecFallDelete, DeleteTask, MemoryType
      <3>3. task' \in BOOLEAN /\ lease' \in {None, "rec", "set"} \cup Checkers /\ slock' \in {None, "rec"} /\ repair' \in BOOLEAN
        BY <2>8, <1>0, <1>00 DEF RecFallDelete, DeleteTask, ReleaseRec, TypeOK
      <3>4. faults' \in 0..MaxFaults
        BY <2>8, FaultsTyped DEF RecFallDelete
      <3> QED
        BY <2>8, <3>1, <3>2, <3>3, <3>4 DEF RecFallDelete, TypeOK
    <2> QED
      BY <1>9, <2>1, <2>2, <2>3, <2>4, <2>5, <2>6, <2>7, <2>8 DEF Rec
  <1>10. CASE Set
    <2>1. CASE SetPrevious
      <3>1. set' \in SetType
        BY <2>1, <1>0, <1>00, IdleTypes DEF SetPrevious, SetType, SetPcs
      <3>2. faults' \in 0..MaxFaults
        BY <2>1, FaultsTyped DEF SetPrevious
      <3> QED
        BY <2>1, <3>1, <3>2 DEF SetPrevious, TypeOK
    <2>2. CASE SetBegin
      <3>1. set' \in SetType
        BY <2>2, <1>0, <1>00, IdleTypes, ZenonT(60) DEF SetBegin, SetType, SetPcs
      <3> QED
        BY <2>2, <3>1 DEF SetBegin, TypeOK
    <2>3. CASE SetLease
      <3>1. set' \in SetType
        BY <2>3, <1>0, <1>00, IdleTypes DEF SetLease, SetReturns, SetType, SetPcs
      <3>2. lease' \in {None, "rec", "set"} \cup Checkers
        BY <2>3, <1>0, <1>00 DEF SetLease, SetReturns, TypeOK
      <3>3. faults' \in 0..MaxFaults
        BY <2>3, FaultsTyped DEF SetLease
      <3> QED
        BY <2>3, <3>1, <3>2, <3>3 DEF SetLease, TypeOK
    <2>4. CASE SetSave
      <3>1. settings' \in Settings
        BY <2>4, <1>0, <1>00, IdleTypes DEF SetSave, SaveAuto, Settings
      <3>2. set' \in SetType
        BY <2>4, <1>0, <1>00, IdleTypes DEF SetSave, SetReturns, SetType, SetPcs
      <3>3. lease' \in {None, "rec", "set"} \cup Checkers
        BY <2>4, <1>0, <1>00 DEF SetSave, SetReturns, TypeOK
      <3>4. faults' \in 0..MaxFaults
        BY <2>4, FaultsTyped DEF SetSave
      <3> QED
        BY <2>4, <3>1, <3>2, <3>3, <3>4 DEF SetSave, TypeOK
    <2>5. CASE SetDelete
      <3>1. set' \in SetType
        BY <2>5, <1>0, <1>00, IdleTypes DEF SetDelete, SetReturns, SetType, SetPcs
      <3>2. gh' \in MemoryType
        BY <2>5, <1>0, <1>00, IdleTypes DEF SetDelete, DeleteTask, MemoryType
      <3>3. task' \in BOOLEAN /\ lease' \in {None, "rec", "set"} \cup Checkers /\ repair' \in BOOLEAN
        BY <2>5, <1>0, <1>00 DEF SetDelete, DeleteTask, SetReturns, TypeOK
      <3>4. faults' \in 0..MaxFaults
        BY <2>5, FaultsTyped DEF SetDelete
      <3> QED
        BY <2>5, <3>1, <3>2, <3>3, <3>4 DEF SetDelete, TypeOK
    <2>6. CASE SetRegister
      <3>1. set' \in SetType
        BY <2>6, <1>0, <1>00, IdleTypes DEF SetRegister, SetReturns, SetType, SetPcs
      <3>2. task' \in BOOLEAN /\ lease' \in {None, "rec", "set"} \cup Checkers /\ repair' \in BOOLEAN
        BY <2>6, <1>0, <1>00 DEF SetRegister, RegisterTask, SetReturns, TypeOK
      <3>3. faults' \in 0..MaxFaults
        BY <2>6, FaultsTyped DEF SetRegister
      <3> QED
        BY <2>6, <3>1, <3>2, <3>3 DEF SetRegister, TypeOK
    <2>7. CASE SetSaveOn
      <3>1. settings' \in Settings
        BY <2>7, <1>0, <1>00, IdleTypes DEF SetSaveOn, SaveAuto, Settings
      <3>2. set' \in SetType
        BY <2>7, <1>0, <1>00, IdleTypes DEF SetSaveOn, SetType, SetPcs
      <3>3. faults' \in 0..MaxFaults
        BY <2>7, FaultsTyped DEF SetSaveOn
      <3> QED
        BY <2>7, <3>1, <3>2, <3>3 DEF SetSaveOn, TypeOK
    <2>8. CASE SetUndo
      <3>1. set' \in SetType
        BY <2>8, <1>0, <1>00, IdleTypes DEF SetUndo, SetReturns, SetType, SetPcs
      <3>2. gh' \in MemoryType
        BY <2>8, <1>0, <1>00, IdleTypes DEF SetUndo, DeleteTask, MemoryType
      <3>3. task' \in BOOLEAN /\ lease' \in {None, "rec", "set"} \cup Checkers
        BY <2>8, <1>0, <1>00 DEF SetUndo, DeleteTask, SetReturns, TypeOK
      <3>4. faults' \in 0..MaxFaults
        BY <2>8, FaultsTyped DEF SetUndo
      <3> QED
        BY <2>8, <3>1, <3>2, <3>3, <3>4 DEF SetUndo, TypeOK
    <2>9. CASE SetRun
      <3>1. set' \in SetType
        BY <2>9, <1>0, <1>00, IdleTypes DEF SetRun, SetReturns, SetType, SetPcs
      <3>2. chk' \in [Checkers -> CheckerType]
        BY <2>9, <1>0, <1>00, IdleTypes DEF SetRun, StartTask, StartChecker, NoChecker,
           CheckerType, CheckerPcs
      <3>3. \A d \in Checkers : chk'[d].pc \in {"toast", "note"} => chk'[d].found \in Candidates
        BY <2>9, <1>0 DEF SetRun, StartTask, StartChecker, NoChecker, TypeOK,
           CheckerType, IdleChecker
      <3>4. lease' \in {None, "rec", "set"} \cup Checkers
        BY <2>9, <1>0, <1>00 DEF SetRun, SetReturns, TypeOK
      <3>5. faults' \in 0..MaxFaults
        BY <2>9, FaultsTyped DEF SetRun
      <3> QED
        BY <2>9, <3>1, <3>2, <3>3, <3>4, <3>5 DEF SetRun, TypeOK
    <2>10. CASE SetBackLease
      <3>1. set' \in SetType
        BY <2>10, <1>0, <1>00, IdleTypes DEF SetBackLease, SetReturns, SetType, SetPcs
      <3>2. lease' \in {None, "rec", "set"} \cup Checkers /\ repair' \in BOOLEAN
        BY <2>10, <1>0, <1>00 DEF SetBackLease, SetReturns, TypeOK
      <3>3. faults' \in 0..MaxFaults
        BY <2>10, FaultsTyped DEF SetBackLease
      <3> QED
        BY <2>10, <3>1, <3>2, <3>3 DEF SetBackLease, TypeOK
    <2>11. CASE SetBackDelete
      <3>1. set' \in SetType
        BY <2>11, <1>0, <1>00, IdleTypes DEF SetBackDelete, SetType, SetPcs
      <3>2. gh' \in MemoryType
        BY <2>11, <1>0, <1>00, IdleTypes DEF SetBackDelete, DeleteTask, MemoryType
      <3>3. task' \in BOOLEAN
        BY <2>11, <1>0, <1>00 DEF SetBackDelete, DeleteTask, TypeOK
      <3>4. faults' \in 0..MaxFaults
        BY <2>11, FaultsTyped DEF SetBackDelete
      <3> QED
        BY <2>11, <3>1, <3>2, <3>3, <3>4 DEF SetBackDelete, TypeOK
    <2>12. CASE SetBackSave
      <3>1. settings' \in Settings
        BY <2>12, <1>0, <1>00, IdleTypes DEF SetBackSave, SaveAuto, Settings
      <3>2. set' \in SetType
        BY <2>12, <1>0, <1>00, IdleTypes DEF SetBackSave, SetReturns, SetType, SetPcs
      <3>3. lease' \in {None, "rec", "set"} \cup Checkers
        BY <2>12, <1>0, <1>00 DEF SetBackSave, SetReturns, TypeOK
      <3>4. faults' \in 0..MaxFaults
        BY <2>12, FaultsTyped DEF SetBackSave
      <3> QED
        BY <2>12, <3>1, <3>2, <3>3, <3>4 DEF SetBackSave, TypeOK
    <2>13. CASE SetEnd
      <3>1. set' \in SetType
        BY <2>13, <1>0, <1>00, IdleTypes DEF SetEnd, SetType, SetPcs
      <3>2. gh' \in MemoryType
        BY <2>13, <1>0, <1>00, IdleTypes DEF SetEnd, MemoryType
      <3>3. repair' \in BOOLEAN /\ ui' \in BOOLEAN
        BY <2>13, <1>0, <1>00 DEF SetEnd, TypeOK, Settings
      <3> QED
        BY <2>13, <3>1, <3>2, <3>3 DEF SetEnd, TypeOK
    <2> QED
      BY <1>10, <2>1, <2>2, <2>3, <2>4, <2>5, <2>6, <2>7, <2>8, <2>9, <2>10, <2>11,
         <2>12, <2>13 DEF Set
  <1>11. ASSUME NEW c \in Checkers, Checker(c) \/ Die(c) PROVE TypeOK'
    <2>1. CASE AcquireLock(c)
      <3>1. chk' \in [Checkers -> CheckerType]
        BY <2>1, <1>0, <1>00, IdleTypes DEF AcquireLock, Exit, ToChk, CheckerType,
           CheckerPcs
      <3>2. \A d \in Checkers : chk'[d].pc \in {"toast", "note"} => chk'[d].found \in Candidates
        BY <2>1, <1>0 DEF AcquireLock, Exit, ToChk, TypeOK, CheckerType, IdleChecker
      <3>3. lease' \in {None, "rec", "set"} \cup Checkers
        BY <2>1, <1>0, <1>00 DEF AcquireLock, Exit, TypeOK
      <3> QED
        BY <2>1, <3>1, <3>2, <3>3 DEF AcquireLock, TypeOK, config
    <2>2. CASE Reread(c)
      <3>1. chk' \in [Checkers -> CheckerType]
        BY <2>2, <1>0, <1>00, IdleTypes DEF Reread, Exit, ToChk, CheckerType, CheckerPcs
      <3>2. \A d \in Checkers : chk'[d].pc \in {"toast", "note"} => chk'[d].found \in Candidates
        BY <2>2, <1>0 DEF Reread, Exit, ToChk, TypeOK, CheckerType, IdleChecker
      <3>3. lease' \in {None, "rec", "set"} \cup Checkers
        BY <2>2, <1>0, <1>00 DEF Reread, Exit, TypeOK
      <3> QED
        BY <2>2, <3>1, <3>2, <3>3 DEF Reread, TypeOK, config
    <2>3. CASE LoadState(c)
      <3>1. chk' \in [Checkers -> CheckerType]
        BY <2>3, <1>0, <1>00, IdleTypes DEF LoadState, CheckerType, CheckerPcs
      <3>2. gh' \in MemoryType
        BY <2>3, <1>0, <1>00, IdleTypes DEF LoadState, MemoryType
      <3>3. \A d \in Checkers : chk'[d].pc \in {"toast", "note"} => chk'[d].found \in Candidates
        BY <2>3, <1>0 DEF LoadState, TypeOK, CheckerType, IdleChecker
      <3>4. ustate' \in SUBSET Candidates
        BY <2>3, <1>0, <1>00 DEF LoadState, FreshState, TypeOK
      <3>5. faults' \in 0..MaxFaults
        BY <2>3, FaultsTyped DEF LoadState
      <3> QED
        BY <2>3, <3>1, <3>2, <3>3, <3>4, <3>5 DEF LoadState, TypeOK, config
    <2>4. CASE ReadLast(c)
      <3>1. chk' \in [Checkers -> CheckerType]
        BY <2>4, <1>0, <1>00, IdleTypes DEF ReadLast, Exit, ToChk, CheckerType,
           CheckerPcs
      <3>2. \A d \in Checkers : chk'[d].pc \in {"toast", "note"} => chk'[d].found \in Candidates
        BY <2>4, <1>0 DEF ReadLast, Exit, ToChk, TypeOK, CheckerType, IdleChecker
      <3>3. lease' \in {None, "rec", "set"} \cup Checkers
        BY <2>4, <1>0, <1>00 DEF ReadLast, Exit, TypeOK
      <3> QED
        BY <2>4, <3>1, <3>2, <3>3 DEF ReadLast, TypeOK, config
    <2>5. CASE Fetched(c)
      <3>1. chk' \in [Checkers -> CheckerType]
        BY <2>5, <1>0, <1>00, IdleTypes DEF Fetched, Exit, CheckerType, CheckerPcs
      <3>2. \A d \in Checkers : chk'[d].pc \in {"toast", "note"} => chk'[d].found \in Candidates
        BY <2>5, <1>0 DEF Fetched, Exit, TypeOK, CheckerType, IdleChecker
      <3>3. lease' \in {None, "rec", "set"} \cup Checkers /\ ustate' \in SUBSET Candidates
        BY <2>5, <1>0, <1>00 DEF Fetched, Exit, TypeOK
      <3> QED
        BY <2>5, <3>1, <3>2, <3>3 DEF Fetched, TypeOK, config
    <2>6. CASE Toast(c)
      <3>1. chk' \in [Checkers -> CheckerType]
        BY <2>6, <1>0, <1>00, IdleTypes DEF Toast, Exit, ToChk, CheckerType, CheckerPcs
      <3>2. gh' \in MemoryType
        <4>1. chk[c].pc = "toast" => chk[c].found \in Candidates
          BY DEF TypeOK
        <4>2. ASSUME chk[c].found \in Candidates
              PROVE  [gh EXCEPT !.toast = chk[c].found, !.lost = FALSE] \in MemoryType
          BY <1>0, <4>2 DEF MemoryType
        <4> QED
          BY <2>6, <1>0, <4>1, <4>2 DEF Toast
      <3>3. \A d \in Checkers : chk'[d].pc \in {"toast", "note"} => chk'[d].found \in Candidates
        BY <2>6, <1>0 DEF Toast, Exit, ToChk, TypeOK, CheckerType, IdleChecker
      <3>4. lease' \in {None, "rec", "set"} \cup Checkers /\ ustate' \in SUBSET Candidates
        BY <2>6, <1>0, <1>00 DEF Toast, Exit, TypeOK
      <3>5. faults' \in 0..MaxFaults
        BY <2>6, FaultsTyped DEF Toast, Fails
      <3> QED
        BY <2>6, <3>1, <3>2, <3>3, <3>4, <3>5 DEF Toast, TypeOK, config
    <2>7. CASE NoteToast(c)
      <3>1. chk' \in [Checkers -> CheckerType]
        BY <2>7, <1>0, <1>00, IdleTypes DEF NoteToast, Exit, CheckerType, CheckerPcs
      <3>2. gh' \in MemoryType
        BY <2>7, <1>0, <1>00, IdleTypes DEF NoteToast, MemoryType
      <3>3. \A d \in Checkers : chk'[d].pc \in {"toast", "note"} => chk'[d].found \in Candidates
        BY <2>7, <1>0 DEF NoteToast, Exit, TypeOK, CheckerType, IdleChecker
      <3>4. lease' \in {None, "rec", "set"} \cup Checkers /\ ustate' \in SUBSET Candidates
        BY <2>7, <1>0, <1>00 DEF NoteToast, Exit, TypeOK
      <3>5. faults' \in 0..MaxFaults
        BY <2>7, FaultsTyped DEF NoteToast
      <3> QED
        BY <2>7, <3>1, <3>2, <3>3, <3>4, <3>5 DEF NoteToast, TypeOK, config
    <2>8. CASE Die(c)
      <3>1. chk' \in [Checkers -> CheckerType]
        BY <2>8, <1>0, <1>00, IdleTypes DEF Die, Exit, CheckerType, CheckerPcs
      <3>2. gh' \in MemoryType
        BY <2>8, <1>0, <1>00, IdleTypes DEF Die, MemoryType
      <3>3. \A d \in Checkers : chk'[d].pc \in {"toast", "note"} => chk'[d].found \in Candidates
        BY <2>8, <1>0 DEF Die, Exit, TypeOK, CheckerType, IdleChecker
      <3>4. lease' \in {None, "rec", "set"} \cup Checkers
        BY <2>8, <1>0, <1>00 DEF Die, Exit, TypeOK
      <3>5. faults' \in 0..MaxFaults
        BY <2>8, FaultsTyped DEF Die
      <3> QED
        BY <2>8, <3>1, <3>2, <3>3, <3>4, <3>5 DEF Die, TypeOK, config
    <2> QED
      BY <1>11, <2>1, <2>2, <2>3, <2>4, <2>5, <2>6, <2>7, <2>8 DEF Checker
  <1> QED
    BY <1>1, <1>2, <1>3, <1>4, <1>5, <1>6, <1>7, <1>8, <1>9, <1>10, <1>11 DEF Next

(* The two locks have one holder, who is at the place its name says.      *)
LEMMA LocksKept ==
  ASSUME TypeOK, Locks, Next
  PROVE  Locks'
  <1>0. rec \in RecType /\ set \in SetType /\ chk \in [Checkers -> CheckerType]
    BY DEF TypeOK
  <1>1. CASE StartConfig
    BY <1>1, <1>0, CheckAssumption DEF StartConfig, IdleRec, IdleSet, Locks, RecLocked,
       RecOff, RecOn, RecFall, LeaseHeld, Announcing, None, RecType, SetType
  <1>2. CASE StopConfig
    BY <1>2, <1>0, CheckAssumption DEF StopConfig, IdleRec, IdleSet, Locks, RecLocked,
       RecOff, RecOn, RecFall, LeaseHeld, Announcing, None, RecType, SetType
  <1>3. CASE SetCall
    BY <1>3, <1>0, CheckAssumption DEF SetCall, IdleSet, Locks, RecLocked, RecOff,
       RecOn, RecFall, LeaseHeld, Announcing, None, SetType
  <1>4. CASE Launch
    BY <1>4, <1>0, CheckAssumption DEF Launch, StartChecker, config, Locks, RecLocked,
       RecOff, RecOn, RecFall, LeaseHeld, Announcing, None, CheckerType
  <1>5. CASE Rec
    <2>1. CASE RecLoad
      BY <2>1, <1>0, RecLoadEffect, CheckAssumption DEF Locks, RecLocked, RecOff, RecOn,
         RecFall, LeaseHeld, Announcing, None, CheckerType
    <2>2. CASE RecOffLease
      BY <2>2, <1>0, CheckAssumption DEF RecOffLease, ReleaseRec, IdleRec,
         LeaseTimesOut, Locks, RecLocked, RecOff, RecOn, RecFall, LeaseHeld, Announcing,
         None, RecType
    <2>3. CASE RecOffDelete
      BY <2>3, <1>0, CheckAssumption DEF RecOffDelete, ReleaseRec, IdleRec, Locks,
         RecLocked, RecOff, RecOn, RecFall, LeaseHeld, Announcing, None, RecType
    <2>4. CASE RecRegister
      BY <2>4, <1>0, CheckAssumption DEF RecRegister, Locks, RecLocked, RecOff, RecOn,
         RecFall, LeaseHeld, Announcing, None, RecType
    <2>5. CASE RecRun
      BY <2>5, <1>0, RecRunEffect, CheckAssumption, ZenonT(60) DEF Locks, RecLocked, RecOff, RecOn,
         RecFall, LeaseHeld, Announcing, None, CheckerType, StartChecker
    <2>6. CASE RecFallLease
      BY <2>6, <1>0, CheckAssumption DEF RecFallLease, ReleaseRec, IdleRec,
         LeaseTimesOut, Locks, RecLocked, RecOff, RecOn, RecFall, LeaseHeld, Announcing,
         None, RecType
    <2>7. CASE RecFallSave
      BY <2>7, <1>0, CheckAssumption DEF RecFallSave, ReleaseRec, IdleRec, Locks,
         RecLocked, RecOff, RecOn, RecFall, LeaseHeld, Announcing, None, RecType
    <2>8. CASE RecFallDelete
      BY <2>8, <1>0, CheckAssumption DEF RecFallDelete, ReleaseRec, IdleRec, Locks,
         RecLocked, RecOff, RecOn, RecFall, LeaseHeld, Announcing, None, RecType
    <2> QED
      BY <1>5, <2>1, <2>2, <2>3, <2>4, <2>5, <2>6, <2>7, <2>8 DEF Rec
  <1>6. CASE Set
    <2>1. CASE SetPrevious
      BY <2>1, <1>0, CheckAssumption DEF SetPrevious, SettingsLockFree, Locks,
         RecLocked, RecOff, RecOn, RecFall, LeaseHeld, Announcing, None, SetType
    <2>2. CASE SetBegin
      BY <2>2, <1>0, CheckAssumption DEF SetBegin, ShouldRegister, Locks, RecLocked,
         RecOff, RecOn, RecFall, LeaseHeld, Announcing, None, SetType
    <2>3. CASE SetLease
      BY <2>3, <1>0, CheckAssumption, ZenonT(60) DEF SetLease, LeaseTimesOut, SetReturns, Locks,
         RecLocked, RecOff, RecOn, RecFall, LeaseHeld, Announcing, None, SetType
    <2>4. CASE SetSave
      BY <2>4, <1>0, SetSaveEffect, CheckAssumption DEF Locks, RecLocked, RecOff, RecOn,
         RecFall, LeaseHeld, Announcing, None, CheckerType, SetKept
    <2>5. CASE SetDelete
      BY <2>5, <1>0, CheckAssumption, ZenonT(60) DEF SetDelete, SetReturns, Locks, RecLocked,
         RecOff, RecOn, RecFall, LeaseHeld, Announcing, None, SetType
    <2>6. CASE SetRegister
      BY <2>6, <1>0, CheckAssumption, ZenonT(60) DEF SetRegister, SetReturns, Locks, RecLocked,
         RecOff, RecOn, RecFall, LeaseHeld, Announcing, None, SetType
    <2>7. CASE SetSaveOn
      BY <2>7, <1>0, CheckAssumption DEF SetSaveOn, SettingsLockFree, Locks, RecLocked,
         RecOff, RecOn, RecFall, LeaseHeld, Announcing, None, SetType
    <2>8. CASE SetUndo
      BY <2>8, <1>0, CheckAssumption DEF SetUndo, SetReturns, Locks, RecLocked, RecOff,
         RecOn, RecFall, LeaseHeld, Announcing, None, SetType
    <2>9. CASE SetRun
      BY <2>9, <1>0, SetRunEffect, CheckAssumption DEF Locks, RecLocked, RecOff, RecOn,
         RecFall, LeaseHeld, Announcing, None, CheckerType, SetKept, StartChecker
    <2>10. CASE SetBackLease
      BY <2>10, <1>0, CheckAssumption, ZenonT(60) DEF SetBackLease, LeaseTimesOut, SetReturns,
         Locks, RecLocked, RecOff, RecOn, RecFall, LeaseHeld, Announcing, None, SetType
    <2>11. CASE SetBackDelete
      BY <2>11, <1>0, CheckAssumption DEF SetBackDelete, Locks, RecLocked, RecOff,
         RecOn, RecFall, LeaseHeld, Announcing, None, SetType
    <2>12. CASE SetBackSave
      BY <2>12, <1>0, CheckAssumption DEF SetBackSave, SettingsLockFree, SetReturns,
         Locks, RecLocked, RecOff, RecOn, RecFall, LeaseHeld, Announcing, None, SetType
    <2>13. CASE SetEnd
      BY <2>13, <1>0, CheckAssumption DEF SetEnd, IdleSet, Locks, RecLocked, RecOff,
         RecOn, RecFall, LeaseHeld, Announcing, None, SetType
    <2> QED
      BY <1>6, <2>1, <2>2, <2>3, <2>4, <2>5, <2>6, <2>7, <2>8, <2>9, <2>10, <2>11,
         <2>12, <2>13 DEF Set
  <1>7. ASSUME NEW c \in Checkers, Checker(c) \/ Die(c) PROVE Locks'
    <2>1. CASE AcquireLock(c)
      BY <2>1, <1>0, CheckAssumption DEF AcquireLock, Exit, ToChk, IdleChecker, config,
         Locks, RecLocked, RecOff, RecOn, RecFall, LeaseHeld, Announcing, None,
         CheckerType
    <2>2. CASE Reread(c)
      BY <2>2, <1>0, CheckAssumption DEF Reread, Exit, ToChk, IdleChecker, config,
         Locks, RecLocked, RecOff, RecOn, RecFall, LeaseHeld, Announcing, None,
         CheckerType
    <2>3. CASE LoadState(c)
      BY <2>3, <1>0, CheckAssumption DEF LoadState, config, Locks, RecLocked, RecOff,
         RecOn, RecFall, LeaseHeld, Announcing, None, CheckerType
    <2>4. CASE ReadLast(c)
      BY <2>4, <1>0, CheckAssumption DEF ReadLast, Exit, ToChk, IdleChecker, config,
         Locks, RecLocked, RecOff, RecOn, RecFall, LeaseHeld, Announcing, None,
         CheckerType
    <2>5. CASE Fetched(c)
      BY <2>5, <1>0, CheckAssumption DEF Fetched, Exit, IdleChecker, config, Locks,
         RecLocked, RecOff, RecOn, RecFall, LeaseHeld, Announcing, None, CheckerType
    <2>6. CASE Toast(c)
      BY <2>6, <1>0, CheckAssumption DEF Toast, Exit, ToChk, IdleChecker, config, Locks,
         RecLocked, RecOff, RecOn, RecFall, LeaseHeld, Announcing, None, CheckerType
    <2>7. CASE NoteToast(c)
      BY <2>7, <1>0, CheckAssumption DEF NoteToast, Exit, IdleChecker, config, Locks,
         RecLocked, RecOff, RecOn, RecFall, LeaseHeld, Announcing, None, CheckerType
    <2>8. CASE Die(c)
      BY <2>8, <1>0, CheckAssumption DEF Die, Exit, IdleChecker, config, Locks,
         RecLocked, RecOff, RecOn, RecFall, LeaseHeld, Announcing, None, CheckerType
    <2> QED
      BY <1>7, <2>1, <2>2, <2>3, <2>4, <2>5, <2>6, <2>7, <2>8 DEF Checker
  <1> QED
    BY <1>1, <1>2, <1>3, <1>4, <1>5, <1>6, <1>7 DEF Next, PatchCall, PatchApply,
       MendRead, MendRegister, Locks, RecLocked, RecOff, RecOn, RecFall, LeaseHeld,
       Announcing, None, config

(* Nobody writes the settings while the startup worker holds their lock.   *)
LEMMA ViewKept ==
  ASSUME TypeOK, Locks, ViewIsCurrent, PatchesSurvive, Next
  PROVE  ViewIsCurrent' /\ PatchesSurvive'
  <1>0. settings \in Settings /\ rec \in RecType /\ gh \in MemoryType
    BY DEF TypeOK
  <1>1. CASE StartConfig
    BY <1>1, <1>0 DEF StartConfig, IdleRec, IdleSet, Locks, ViewIsCurrent,
       PatchesSurvive, RecLocked, RecOff, RecOn, RecFall, None, Settings, RecType
  <1>2. CASE StopConfig
    BY <1>2, <1>0 DEF StopConfig, IdleRec, IdleSet, Locks, ViewIsCurrent,
       PatchesSurvive, RecLocked, RecOff, RecOn, RecFall, None, RecType
  <1>3. CASE PatchApply
    BY <1>3, <1>0 DEF PatchApply, SettingsLockFree, Locks, ViewIsCurrent,
       PatchesSurvive, RecLocked, RecOff, RecOn, RecFall, None, Settings, MemoryType
  <1>4. CASE MendRegister
    BY <1>4, <1>0 DEF MendRegister, Locks, ViewIsCurrent, PatchesSurvive, RecLocked,
       RecOff, RecOn, RecFall, None, Settings, MemoryType
  <1>5. CASE Rec
    <2>1. CASE RecLoad
      BY <2>1, <1>0 DEF RecLoad, ReleaseRec, IdleRec, SettingsLockFree, Locks,
         ViewIsCurrent, PatchesSurvive, RecLocked, RecOff, RecOn, RecFall, None,
         Settings, RecType
    <2>2. CASE RecOffLease
      BY <2>2, <1>0 DEF RecOffLease, ReleaseRec, IdleRec, LeaseTimesOut, Locks,
         ViewIsCurrent, PatchesSurvive, RecLocked, RecOff, RecOn, RecFall, None, RecType
    <2>3. CASE RecOffDelete
      BY <2>3, <1>0 DEF RecOffDelete, ReleaseRec, IdleRec, DeleteTask, Locks,
         ViewIsCurrent, PatchesSurvive, RecLocked, RecOff, RecOn, RecFall, None,
         Settings, RecType, MemoryType
    <2>4. CASE RecRegister
      BY <2>4, <1>0 DEF RecRegister, Locks, ViewIsCurrent, PatchesSurvive, RecLocked,
         RecOff, RecOn, RecFall, None, RecType
    <2>5. CASE RecRun
      BY <2>5, <1>0 DEF RecRun, ReleaseRec, IdleRec, Locks, ViewIsCurrent,
         PatchesSurvive, RecLocked, RecOff, RecOn, RecFall, None, RecType
    <2>6. CASE RecFallLease
      BY <2>6, <1>0 DEF RecFallLease, ReleaseRec, IdleRec, LeaseTimesOut, Locks,
         ViewIsCurrent, PatchesSurvive, RecLocked, RecOff, RecOn, RecFall, None, RecType
    <2>7. CASE RecFallSave
      BY <2>7, <1>0 DEF RecFallSave, ReleaseRec, IdleRec, Locks, ViewIsCurrent,
         PatchesSurvive, RecLocked, RecOff, RecOn, RecFall, None, Settings, RecType
    <2>8. CASE RecFallDelete
      BY <2>8, <1>0 DEF RecFallDelete, ReleaseRec, IdleRec, DeleteTask, Locks,
         ViewIsCurrent, PatchesSurvive, RecLocked, RecOff, RecOn, RecFall, None,
         RecType, MemoryType
    <2> QED
      BY <1>5, <2>1, <2>2, <2>3, <2>4, <2>5, <2>6, <2>7, <2>8 DEF Rec
  <1>6. CASE Set
    <2>1. CASE SetSave
      BY <2>1, <1>0 DEF SetSave, SaveAuto, SettingsLockFree, Locks, ViewIsCurrent,
         PatchesSurvive, RecLocked, RecOff, RecOn, RecFall, None, Settings
    <2>2. CASE SetDelete
      BY <2>2, <1>0 DEF SetDelete, DeleteTask, Locks, ViewIsCurrent, PatchesSurvive,
         RecLocked, RecOff, RecOn, RecFall, None, Settings, MemoryType
    <2>3. CASE SetSaveOn
      BY <2>3, <1>0 DEF SetSaveOn, SaveAuto, SettingsLockFree, Locks, ViewIsCurrent,
         PatchesSurvive, RecLocked, RecOff, RecOn, RecFall, None, Settings
    <2>4. CASE SetUndo
      BY <2>4, <1>0 DEF SetUndo, DeleteTask, Locks, ViewIsCurrent, PatchesSurvive,
         RecLocked, RecOff, RecOn, RecFall, None, Settings, MemoryType
    <2>5. CASE SetBackDelete
      BY <2>5, <1>0 DEF SetBackDelete, DeleteTask, Locks, ViewIsCurrent, PatchesSurvive,
         RecLocked, RecOff, RecOn, RecFall, None, MemoryType
    <2>6. CASE SetBackSave
      BY <2>6, <1>0 DEF SetBackSave, SaveAuto, SettingsLockFree, Locks, ViewIsCurrent,
         PatchesSurvive, RecLocked, RecOff, RecOn, RecFall, None, Settings
    <2>7. CASE SetEnd
      BY <2>7, <1>0 DEF SetEnd, IdleSet, Locks, ViewIsCurrent, PatchesSurvive,
         RecLocked, RecOff, RecOn, RecFall, None, Settings, MemoryType
    <2> QED
      BY <1>6, <2>1, <2>2, <2>3, <2>4, <2>5, <2>6, <2>7 DEF Set, SetPrevious, SetBegin,
         SetLease, SetRegister, SetRun, SetBackLease, Locks, ViewIsCurrent,
         PatchesSurvive, RecLocked, RecOff, RecOn, RecFall, None
  <1>7. ASSUME NEW c \in Checkers, Checker(c) \/ Die(c) PROVE ViewIsCurrent' /\ PatchesSurvive'
    <2>1. CASE LoadState(c)
      BY <2>1, <1>0 DEF LoadState, config, Locks, ViewIsCurrent, PatchesSurvive,
         RecLocked, RecOff, RecOn, RecFall, None, MemoryType
    <2>2. CASE Toast(c)
      BY <2>2, <1>0 DEF Toast, IdleChecker, config, Locks, ViewIsCurrent,
         PatchesSurvive, RecLocked, RecOff, RecOn, RecFall, None, MemoryType
    <2>3. CASE NoteToast(c)
      BY <2>3, <1>0 DEF NoteToast, IdleChecker, config, Locks, ViewIsCurrent,
         PatchesSurvive, RecLocked, RecOff, RecOn, RecFall, None, MemoryType
    <2>4. CASE Die(c)
      BY <2>4, <1>0 DEF Die, IdleChecker, config, Locks, ViewIsCurrent, PatchesSurvive,
         RecLocked, RecOff, RecOn, RecFall, None, MemoryType
    <2> QED
      BY <1>7, <2>1, <2>2, <2>3, <2>4 DEF Checker, AcquireLock, Reread, ReadLast,
         Fetched, Locks, ViewIsCurrent, PatchesSurvive, RecLocked, RecOff, RecOn,
         RecFall, None, config
  <1> QED
    BY <1>1, <1>2, <1>3, <1>4, <1>5, <1>6, <1>7 DEF Next, SetCall, PatchCall, MendRead,
       Launch, Locks, ViewIsCurrent, PatchesSurvive, RecLocked, RecOff, RecOn, RecFall,
       None, config

(* The switch and its command know when the setting is OFF.                *)
LEMMA SwitchKept ==
  ASSUME TypeOK, Locks, ViewIsCurrent, SwitchKnows, Next
  PROVE  SwitchKnows'
  <1>0. settings \in Settings /\ rec \in RecType /\ set \in SetType
    BY DEF TypeOK
  <1>1. CASE StartConfig
    BY <1>1, <1>0, CheckAssumption DEF StartConfig, IdleRec, IdleSet, Locks,
       SwitchKnows, RecLocked, RecOff, RecOn, RecFall, SetBack, None, Settings, RecType,
       SetType
  <1>2. CASE StopConfig
    BY <1>2, <1>0, CheckAssumption DEF StopConfig, IdleRec, IdleSet, Locks, SwitchKnows,
       RecLocked, RecOff, RecOn, RecFall, SetBack, None, RecType, SetType
  <1>3. CASE SetCall
    BY <1>3, <1>0, CheckAssumption DEF SetCall, IdleSet, Locks, SwitchKnows, RecLocked,
       RecOff, RecOn, RecFall, SetBack, None, SetType
  <1>4. CASE PatchApply
    BY <1>4, <1>0, CheckAssumption DEF PatchApply, SettingsLockFree, Locks, SwitchKnows,
       RecLocked, RecOff, RecOn, RecFall, SetBack, None, Settings
  <1>5. CASE Rec
    <2>1. CASE RecLoad
      BY <2>1, <1>0, CheckAssumption DEF RecLoad, ReleaseRec, IdleRec, SettingsLockFree,
         Locks, SwitchKnows, RecLocked, RecOff, RecOn, RecFall, SetBack, None, Settings,
         RecType
    <2>2. CASE RecOffLease
      BY <2>2, <1>0, CheckAssumption DEF RecOffLease, ReleaseRec, IdleRec,
         LeaseTimesOut, Locks, SwitchKnows, RecLocked, RecOff, RecOn, RecFall, SetBack,
         None, RecType
    <2>3. CASE RecOffDelete
      BY <2>3, <1>0, CheckAssumption DEF RecOffDelete, ReleaseRec, IdleRec, Locks,
         SwitchKnows, RecLocked, RecOff, RecOn, RecFall, SetBack, None, Settings,
         RecType
    <2>4. CASE RecRegister
      BY <2>4, <1>0, CheckAssumption DEF RecRegister, Locks, SwitchKnows, RecLocked,
         RecOff, RecOn, RecFall, SetBack, None, RecType
    <2>5. CASE RecRun
      BY <2>5, <1>0, CheckAssumption DEF RecRun, ReleaseRec, IdleRec, Locks,
         SwitchKnows, RecLocked, RecOff, RecOn, RecFall, SetBack, None, RecType
    <2>6. CASE RecFallLease
      BY <2>6, <1>0, CheckAssumption DEF RecFallLease, ReleaseRec, IdleRec,
         LeaseTimesOut, Locks, SwitchKnows, RecLocked, RecOff, RecOn, RecFall, SetBack,
         None, RecType
    <2>7. CASE RecFallSave
      BY <2>7, <1>0, CheckAssumption DEF RecFallSave, ReleaseRec, IdleRec, Locks,
         SwitchKnows, RecLocked, RecOff, RecOn, RecFall, SetBack, None, Settings,
         RecType
    <2>8. CASE RecFallDelete
      BY <2>8, <1>0, CheckAssumption DEF RecFallDelete, ReleaseRec, IdleRec, Locks,
         SwitchKnows, RecLocked, RecOff, RecOn, RecFall, SetBack, None, RecType
    <2> QED
      BY <1>5, <2>1, <2>2, <2>3, <2>4, <2>5, <2>6, <2>7, <2>8 DEF Rec
  <1>6. CASE Set
    <2>1. CASE SetPrevious
      BY <2>1, <1>0, CheckAssumption, ZenonT(60) DEF SetPrevious, SettingsLockFree, Locks,
         SwitchKnows, RecLocked, RecOff, RecOn, RecFall, SetBack, None, Settings,
         SetType
    <2>2. CASE SetBegin
      BY <2>2, <1>0, CheckAssumption DEF SetBegin, ShouldRegister, Locks, SwitchKnows,
         RecLocked, RecOff, RecOn, RecFall, SetBack, None, SetType
    <2>3. CASE SetLease
      BY <2>3, <1>0, SetLeaseEffect, CheckAssumption DEF Locks, SwitchKnows, RecLocked,
         RecOff, RecOn, RecFall, SetBack, None, SetKept
    <2>4. CASE SetSave
      BY <2>4, <1>0, SetSaveEffect, CheckAssumption DEF Locks, SwitchKnows, RecLocked,
         RecOff, RecOn, RecFall, SetBack, None, SetKept
    <2>5. CASE SetDelete
      BY <2>5, <1>0, CheckAssumption, ZenonT(60) DEF SetDelete, SetReturns, Locks, SwitchKnows,
         RecLocked, RecOff, RecOn, RecFall, SetBack, None, Settings, SetType
    <2>6. CASE SetRegister
      BY <2>6, <1>0, CheckAssumption DEF SetRegister, SetReturns, Locks, SwitchKnows,
         RecLocked, RecOff, RecOn, RecFall, SetBack, None, SetType
    <2>7. CASE SetSaveOn
      BY <2>7, <1>0, CheckAssumption DEF SetSaveOn, SaveAuto, SettingsLockFree, Locks,
         SwitchKnows, RecLocked, RecOff, RecOn, RecFall, SetBack, None, Settings,
         SetType
    <2>8. CASE SetUndo
      BY <2>8, <1>0, CheckAssumption DEF SetUndo, SetReturns, Locks, SwitchKnows,
         RecLocked, RecOff, RecOn, RecFall, SetBack, None, Settings, SetType
    <2>9. CASE SetRun
      BY <2>9, <1>0, CheckAssumption, ZenonT(60) DEF SetRun, SetReturns, Locks, SwitchKnows,
         RecLocked, RecOff, RecOn, RecFall, SetBack, None, SetType
    <2>10. CASE SetBackLease
      BY <2>10, <1>0, CheckAssumption DEF SetBackLease, LeaseTimesOut, SetReturns,
         Locks, SwitchKnows, RecLocked, RecOff, RecOn, RecFall, SetBack, None, SetType
    <2>11. CASE SetBackDelete
      BY <2>11, <1>0, CheckAssumption DEF SetBackDelete, Locks, SwitchKnows, RecLocked,
         RecOff, RecOn, RecFall, SetBack, None, SetType
    <2>12. CASE SetBackSave
      BY <2>12, <1>0, CheckAssumption DEF SetBackSave, SaveAuto, SettingsLockFree,
         SetReturns, Locks, SwitchKnows, RecLocked, RecOff, RecOn, RecFall, SetBack,
         None, Settings, SetType
    <2>13. CASE SetEnd
      BY <2>13, <1>0, CheckAssumption DEF SetEnd, IdleSet, Locks, SwitchKnows,
         RecLocked, RecOff, RecOn, RecFall, SetBack, None, Settings, SetType
    <2> QED
      BY <1>6, <2>1, <2>2, <2>3, <2>4, <2>5, <2>6, <2>7, <2>8, <2>9, <2>10, <2>11,
         <2>12, <2>13 DEF Set
  <1>7. ASSUME NEW c \in Checkers, Checker(c) \/ Die(c) PROVE SwitchKnows'
    <2>1. CASE AcquireLock(c)
      BY <2>1, <1>0, CheckAssumption DEF AcquireLock, Exit, IdleChecker, config, Locks,
         SwitchKnows, RecLocked, RecOff, RecOn, RecFall, SetBack, None
    <2>2. CASE Reread(c)
      BY <2>2, <1>0, CheckAssumption DEF Reread, Exit, IdleChecker, config, Locks,
         SwitchKnows, RecLocked, RecOff, RecOn, RecFall, SetBack, None
    <2>3. CASE ReadLast(c)
      BY <2>3, <1>0, CheckAssumption DEF ReadLast, Exit, IdleChecker, config, Locks,
         SwitchKnows, RecLocked, RecOff, RecOn, RecFall, SetBack, None
    <2>4. CASE Fetched(c)
      BY <2>4, <1>0, CheckAssumption DEF Fetched, Exit, IdleChecker, config, Locks,
         SwitchKnows, RecLocked, RecOff, RecOn, RecFall, SetBack, None
    <2>5. CASE Toast(c)
      BY <2>5, <1>0, CheckAssumption DEF Toast, Exit, IdleChecker, config, Locks,
         SwitchKnows, RecLocked, RecOff, RecOn, RecFall, SetBack, None
    <2>6. CASE NoteToast(c)
      BY <2>6, <1>0, CheckAssumption DEF NoteToast, Exit, IdleChecker, config, Locks,
         SwitchKnows, RecLocked, RecOff, RecOn, RecFall, SetBack, None
    <2>7. CASE Die(c)
      BY <2>7, <1>0, CheckAssumption DEF Die, Exit, IdleChecker, config, Locks,
         SwitchKnows, RecLocked, RecOff, RecOn, RecFall, SetBack, None
    <2> QED
      BY <1>7, <2>1, <2>2, <2>3, <2>4, <2>5, <2>6, <2>7 DEF Checker, LoadState, Locks,
         SwitchKnows, RecLocked, RecOff, RecOn, RecFall, SetBack, None, config
  <1> QED
    BY <1>1, <1>2, <1>3, <1>4, <1>5, <1>6, <1>7 DEF Next, PatchCall, MendRead,
       MendRegister, Launch, Locks, SwitchKnows, RecLocked, RecOff, RecOn, RecFall,
       SetBack, None, config

(* The state file and the announcements, which only the holder of the lease *)
(* touches.                                                                *)
LEMMA NotedKept ==
  ASSUME TypeOK, Locks, AnnouncedIsNoted, Next
  PROVE  AnnouncedIsNoted'
  <1>0. gh \in MemoryType /\ chk \in [Checkers -> CheckerType]
    BY DEF TypeOK
  <1>1. CASE StopConfig
    BY <1>1, <1>0, CheckAssumption DEF StopConfig, IdleRec, IdleSet, Locks,
       AnnouncedIsNoted, Noting, LeaseHeld, Announcing, None
  <1>2. CASE PatchApply
    BY <1>2, <1>0, CheckAssumption DEF PatchApply, SettingsLockFree, Locks,
       AnnouncedIsNoted, Noting, LeaseHeld, Announcing, None, MemoryType
  <1>3. CASE MendRegister
    BY <1>3, <1>0, CheckAssumption DEF MendRegister, Locks, AnnouncedIsNoted, Noting,
       LeaseHeld, Announcing, None, MemoryType
  <1>4. CASE Launch
    BY <1>4, <1>0, CheckAssumption DEF Launch, StartChecker, config, Locks,
       AnnouncedIsNoted, Noting, LeaseHeld, Announcing, None, CheckerType
  <1>5. CASE Rec
    <2>1. CASE RecLoad
      BY <2>1, <1>0, CheckAssumption DEF RecLoad, ReleaseRec, IdleRec, SettingsLockFree,
         Locks, AnnouncedIsNoted, Noting, LeaseHeld, Announcing, None
    <2>2. CASE RecOffLease
      BY <2>2, <1>0, CheckAssumption DEF RecOffLease, ReleaseRec, IdleRec,
         LeaseTimesOut, Locks, AnnouncedIsNoted, Noting, LeaseHeld, Announcing, None
    <2>3. CASE RecOffDelete
      BY <2>3, <1>0, CheckAssumption DEF RecOffDelete, ReleaseRec, IdleRec, DeleteTask,
         Locks, AnnouncedIsNoted, Noting, LeaseHeld, Announcing, None, MemoryType
    <2>4. CASE RecRun
      BY <2>4, <1>0, CheckAssumption, SMTT(60) DEF RecRun, ReleaseRec, IdleRec, StartTask,
         StartChecker, NoChecker, Locks, AnnouncedIsNoted, Noting, LeaseHeld,
         Announcing, None, CheckerType
    <2>5. CASE RecFallLease
      BY <2>5, <1>0, CheckAssumption DEF RecFallLease, ReleaseRec, IdleRec,
         LeaseTimesOut, Locks, AnnouncedIsNoted, Noting, LeaseHeld, Announcing, None
    <2>6. CASE RecFallSave
      BY <2>6, <1>0, CheckAssumption DEF RecFallSave, ReleaseRec, IdleRec, Locks,
         AnnouncedIsNoted, Noting, LeaseHeld, Announcing, None
    <2>7. CASE RecFallDelete
      BY <2>7, <1>0, CheckAssumption DEF RecFallDelete, ReleaseRec, IdleRec, DeleteTask,
         Locks, AnnouncedIsNoted, Noting, LeaseHeld, Announcing, None, MemoryType
    <2> QED
      BY <1>5, <2>1, <2>2, <2>3, <2>4, <2>5, <2>6, <2>7 DEF Rec, RecRegister, Locks,
         AnnouncedIsNoted, Noting, LeaseHeld, Announcing, None
  <1>6. CASE Set
    <2>1. CASE SetLease
      BY <2>1, <1>0, CheckAssumption DEF SetLease, LeaseTimesOut, SetReturns, Locks,
         AnnouncedIsNoted, Noting, LeaseHeld, Announcing, None
    <2>2. CASE SetSave
      BY <2>2, <1>0, CheckAssumption DEF SetSave, SettingsLockFree, SetReturns, Locks,
         AnnouncedIsNoted, Noting, LeaseHeld, Announcing, None
    <2>3. CASE SetDelete
      BY <2>3, <1>0, CheckAssumption DEF SetDelete, DeleteTask, SetReturns, Locks,
         AnnouncedIsNoted, Noting, LeaseHeld, Announcing, None, MemoryType
    <2>4. CASE SetRegister
      BY <2>4, <1>0, CheckAssumption DEF SetRegister, SetReturns, Locks,
         AnnouncedIsNoted, Noting, LeaseHeld, Announcing, None
    <2>5. CASE SetUndo
      BY <2>5, <1>0, CheckAssumption DEF SetUndo, DeleteTask, SetReturns, Locks,
         AnnouncedIsNoted, Noting, LeaseHeld, Announcing, None, MemoryType
    <2>6. CASE SetRun
      BY <2>6, <1>0, CheckAssumption DEF SetRun, StartTask, StartChecker, NoChecker,
         SetReturns, Locks, AnnouncedIsNoted, Noting, LeaseHeld, Announcing, None,
         CheckerType
    <2>7. CASE SetBackLease
      BY <2>7, <1>0, CheckAssumption DEF SetBackLease, LeaseTimesOut, SetReturns, Locks,
         AnnouncedIsNoted, Noting, LeaseHeld, Announcing, None
    <2>8. CASE SetBackDelete
      BY <2>8, <1>0, CheckAssumption DEF SetBackDelete, DeleteTask, Locks,
         AnnouncedIsNoted, Noting, LeaseHeld, Announcing, None, MemoryType
    <2>9. CASE SetBackSave
      BY <2>9, <1>0, CheckAssumption DEF SetBackSave, SettingsLockFree, SetReturns,
         Locks, AnnouncedIsNoted, Noting, LeaseHeld, Announcing, None
    <2>10. CASE SetEnd
      BY <2>10, <1>0, CheckAssumption DEF SetEnd, IdleSet, Locks, AnnouncedIsNoted,
         Noting, LeaseHeld, Announcing, None, MemoryType
    <2> QED
      BY <1>6, <2>1, <2>2, <2>3, <2>4, <2>5, <2>6, <2>7, <2>8, <2>9, <2>10 DEF Set,
         SetPrevious, SetBegin, SetSaveOn, Locks, AnnouncedIsNoted, Noting, LeaseHeld,
         Announcing, None
  <1>7. ASSUME NEW c \in Checkers, Checker(c) \/ Die(c) PROVE AnnouncedIsNoted'
    <2>1. CASE AcquireLock(c)
      BY <2>1, <1>0, CheckAssumption DEF AcquireLock, Exit, ToChk, IdleChecker, config,
         Locks, AnnouncedIsNoted, Noting, LeaseHeld, Announcing, None, CheckerType
    <2>2. CASE Reread(c)
      BY <2>2, <1>0, CheckAssumption DEF Reread, Exit, ToChk, IdleChecker, config,
         Locks, AnnouncedIsNoted, Noting, LeaseHeld, Announcing, None, CheckerType
    <2>3. CASE LoadState(c)
      BY <2>3, <1>0, CheckAssumption DEF LoadState, config, Locks, AnnouncedIsNoted,
         Noting, LeaseHeld, Announcing, None, CheckerType, MemoryType
    <2>4. CASE ReadLast(c)
      BY <2>4, <1>0, CheckAssumption DEF ReadLast, Exit, ToChk, IdleChecker, config,
         Locks, AnnouncedIsNoted, Noting, LeaseHeld, Announcing, None, CheckerType
    <2>5. CASE Fetched(c)
      BY <2>5, <1>0, CheckAssumption DEF Fetched, Exit, IdleChecker, config, Locks,
         AnnouncedIsNoted, Noting, LeaseHeld, Announcing, None, CheckerType
    <2>6. CASE Toast(c)
      <3>1. CASE /\ ToChk(c, "note") /\ gh' = [gh EXCEPT !.toast = chk[c].found, !.lost = FALSE]
                /\ ustate' = ustate
        <4>1. chk[c].pc = "toast" /\ chk' = [chk EXCEPT ![c].pc = "note"]
          BY <2>6, <3>1 DEF Toast, ToChk
        <4>2. \A d \in Checkers \ {c} : chk[d].pc \notin LeaseHeld /\ chk'[d] = chk[d]
          BY <1>0, <4>1, CheckAssumption DEF Locks, LeaseHeld, Announcing
        <4>3. chk'[c].pc = "note" /\ chk'[c].found = chk[c].found /\ gh'.toast = chk[c].found
          BY <1>0, <3>1, <4>1 DEF CheckerType, MemoryType
        <4> QED
          BY <4>2, <4>3 DEF AnnouncedIsNoted, Noting, LeaseHeld, Announcing
      <3>2. CASE ustate' = chk[c].st /\ gh' = gh /\ Exit(c)
        BY <2>6, <3>2, <1>0, CheckAssumption
           DEF Toast, Exit, IdleChecker, Locks, AnnouncedIsNoted, Noting, LeaseHeld, Announcing, CheckerType
      <3> QED
        BY <2>6, <3>1, <3>2 DEF Toast
    <2>7. CASE NoteToast(c)
      BY <2>7, <1>0, CheckAssumption DEF NoteToast, Exit, IdleChecker, config, Locks,
         AnnouncedIsNoted, Noting, LeaseHeld, Announcing, None, CheckerType, MemoryType
    <2>8. CASE Die(c)
      BY <2>8, <1>0, CheckAssumption DEF Die, Exit, IdleChecker, config, Locks,
         AnnouncedIsNoted, Noting, LeaseHeld, Announcing, None, CheckerType, MemoryType
    <2> QED
      BY <1>7, <2>1, <2>2, <2>3, <2>4, <2>5, <2>6, <2>7, <2>8 DEF Checker
  <1> QED
    BY <1>1, <1>2, <1>3, <1>4, <1>5, <1>6, <1>7 DEF Next, StartConfig, SetCall,
       PatchCall, MendRead, Locks, AnnouncedIsNoted, Noting, LeaseHeld, Announcing,
       None, config

(* The task and the setting agree, or someone owes a warning.              *)
LEMMA AgreesKept ==
  ASSUME TypeOK, Locks, ViewIsCurrent, SwitchKnows, AgreesMeanwhile, Next
  PROVE  AgreesMeanwhile'
  <1>0. settings \in Settings /\ rec \in RecType /\ set \in SetType /\ gh \in MemoryType
    BY DEF TypeOK
  <1>1. CASE StartConfig
    BY <1>1, <1>0 DEF StartConfig, IdleRec, IdleSet, ViewIsCurrent, SwitchKnows,
       AgreesMeanwhile, InFlight, Settled, Agrees, Excused, RecOff, RecOn, SetBack,
       Settings, RecType, SetType
  <1>2. CASE StopConfig
    BY <1>2, <1>0 DEF StopConfig, IdleRec, IdleSet, ViewIsCurrent, SwitchKnows,
       AgreesMeanwhile, InFlight, Settled, Agrees, Excused, RecOff, RecOn, SetBack,
       RecType, SetType
  <1>3. CASE SetCall
    BY <1>3, <1>0 DEF SetCall, IdleSet, ViewIsCurrent, SwitchKnows, AgreesMeanwhile,
       InFlight, Settled, Agrees, Excused, RecOff, RecOn, SetBack, SetType
  <1>4. CASE PatchApply
    BY <1>4, <1>0 DEF PatchApply, SettingsLockFree, ViewIsCurrent, SwitchKnows,
       AgreesMeanwhile, InFlight, Settled, Agrees, Excused, RecOff, RecOn, SetBack,
       Settings, MemoryType
  <1>5. CASE MendRegister
    BY <1>5, <1>0 DEF MendRegister, RegisterTask, ViewIsCurrent, SwitchKnows,
       AgreesMeanwhile, InFlight, Settled, Agrees, Excused, RecOff, RecOn, SetBack,
       Settings, MemoryType
  <1>6. CASE Rec
    <2>1. CASE RecLoad
      BY <2>1, <1>0 DEF RecLoad, ReleaseRec, IdleRec, SettingsLockFree, ViewIsCurrent,
         SwitchKnows, AgreesMeanwhile, InFlight, Settled, Agrees, Excused, RecOff,
         RecOn, SetBack, Settings, RecType
    <2>2. CASE RecOffLease
      BY <2>2, <1>0 DEF RecOffLease, ReleaseRec, IdleRec, LeaseTimesOut, ViewIsCurrent,
         SwitchKnows, AgreesMeanwhile, InFlight, Settled, Agrees, Excused, RecOff,
         RecOn, SetBack, RecType
    <2>3. CASE RecOffDelete
      BY <2>3, <1>0 DEF RecOffDelete, ReleaseRec, IdleRec, DeleteTask, ViewIsCurrent,
         SwitchKnows, AgreesMeanwhile, InFlight, Settled, Agrees, Excused, RecOff,
         RecOn, SetBack, Settings, RecType, MemoryType
    <2>4. CASE RecRegister
      BY <2>4, <1>0 DEF RecRegister, RegisterTask, ViewIsCurrent, SwitchKnows,
         AgreesMeanwhile, InFlight, Settled, Agrees, Excused, RecOff, RecOn, SetBack,
         RecType
    <2>5. CASE RecRun
      BY <2>5, <1>0, RecRunEffect DEF ViewIsCurrent, SwitchKnows, AgreesMeanwhile,
         InFlight, Settled, Agrees, Excused, RecOff, RecOn, SetBack, Settings, SetType,
         StartChecker, RecFall
    <2>6. CASE RecFallLease
      BY <2>6, <1>0 DEF RecFallLease, ReleaseRec, IdleRec, LeaseTimesOut, ViewIsCurrent,
         SwitchKnows, AgreesMeanwhile, InFlight, Settled, Agrees, Excused, RecOff,
         RecOn, SetBack, RecType
    <2>7. CASE RecFallSave
      BY <2>7, <1>0 DEF RecFallSave, ReleaseRec, IdleRec, ViewIsCurrent, SwitchKnows,
         AgreesMeanwhile, InFlight, Settled, Agrees, Excused, RecOff, RecOn, SetBack,
         Settings, RecType
    <2>8. CASE RecFallDelete
      BY <2>8, <1>0 DEF RecFallDelete, ReleaseRec, IdleRec, DeleteTask, ViewIsCurrent,
         SwitchKnows, AgreesMeanwhile, InFlight, Settled, Agrees, Excused, RecOff,
         RecOn, SetBack, RecType, MemoryType
    <2> QED
      BY <1>6, <2>1, <2>2, <2>3, <2>4, <2>5, <2>6, <2>7, <2>8 DEF Rec
  <1>7. CASE Set
    <2>1. CASE SetPrevious
      BY <2>1, <1>0 DEF SetPrevious, SettingsLockFree, ViewIsCurrent, SwitchKnows,
         AgreesMeanwhile, InFlight, Settled, Agrees, Excused, RecOff, RecOn, SetBack,
         Settings, SetType
    <2>2. CASE SetBegin
      BY <2>2, <1>0 DEF SetBegin, ShouldRegister, ViewIsCurrent, SwitchKnows,
         AgreesMeanwhile, InFlight, Settled, Agrees, Excused, RecOff, RecOn, SetBack,
         SetType
    <2>3. CASE SetLease
      BY <2>3, <1>0, SetLeaseEffect DEF ViewIsCurrent, SwitchKnows, AgreesMeanwhile,
         InFlight, Settled, Agrees, Excused, RecOff, RecOn, SetBack, Settings, SetType,
         SetKept, RecFall
    <2>4. CASE SetSave
      BY <2>4, <1>0, SetSaveEffect DEF ViewIsCurrent, SwitchKnows, AgreesMeanwhile,
         InFlight, Settled, Agrees, Excused, RecOff, RecOn, SetBack, Settings, SetType,
         SetKept, RecFall
    <2>5. CASE SetDelete
      BY <2>5, <1>0, ZenonT(60) DEF SetDelete, DeleteTask, SetReturns, ViewIsCurrent, SwitchKnows,
         AgreesMeanwhile, InFlight, Settled, Agrees, Excused, RecOff, RecOn, SetBack,
         Settings, SetType, MemoryType
    <2>6. CASE SetRegister
      BY <2>6, <1>0 DEF SetRegister, RegisterTask, SetReturns, ViewIsCurrent,
         SwitchKnows, AgreesMeanwhile, InFlight, Settled, Agrees, Excused, RecOff,
         RecOn, SetBack, SetType
    <2>7. CASE SetSaveOn
      BY <2>7, <1>0 DEF SetSaveOn, SaveAuto, SettingsLockFree, ViewIsCurrent,
         SwitchKnows, AgreesMeanwhile, InFlight, Settled, Agrees, Excused, RecOff,
         RecOn, SetBack, Settings, SetType
    <2>8. CASE SetUndo
      BY <2>8, <1>0 DEF SetUndo, DeleteTask, SetReturns, ViewIsCurrent, SwitchKnows,
         AgreesMeanwhile, InFlight, Settled, Agrees, Excused, RecOff, RecOn, SetBack,
         Settings, SetType, MemoryType
    <2>9. CASE SetRun
      BY <2>9, <1>0, SetRunEffect, ZenonT(60) DEF ViewIsCurrent, SwitchKnows, AgreesMeanwhile,
         InFlight, Settled, Agrees, Excused, RecOff, RecOn, SetBack, Settings, SetType,
         SetKept, StartChecker, RecFall
    <2>10. CASE SetBackLease
      BY <2>10, <1>0 DEF SetBackLease, LeaseTimesOut, SetReturns, ViewIsCurrent,
         SwitchKnows, AgreesMeanwhile, InFlight, Settled, Agrees, Excused, RecOff,
         RecOn, SetBack, SetType
    <2>11. CASE SetBackDelete
      BY <2>11, <1>0 DEF SetBackDelete, DeleteTask, ViewIsCurrent, SwitchKnows,
         AgreesMeanwhile, InFlight, Settled, Agrees, Excused, RecOff, RecOn, SetBack,
         SetType, MemoryType
    <2>12. CASE SetBackSave
      BY <2>12, <1>0 DEF SetBackSave, SaveAuto, SettingsLockFree, SetReturns,
         ViewIsCurrent, SwitchKnows, AgreesMeanwhile, InFlight, Settled, Agrees,
         Excused, RecOff, RecOn, SetBack, Settings, SetType
    <2>13. CASE SetEnd
      BY <2>13, <1>0 DEF SetEnd, IdleSet, ViewIsCurrent, SwitchKnows, AgreesMeanwhile,
         InFlight, Settled, Agrees, Excused, RecOff, RecOn, SetBack, Settings, SetType,
         MemoryType
    <2> QED
      BY <1>7, <2>1, <2>2, <2>3, <2>4, <2>5, <2>6, <2>7, <2>8, <2>9, <2>10, <2>11,
         <2>12, <2>13 DEF Set
  <1>8. ASSUME NEW c \in Checkers, Checker(c) \/ Die(c) PROVE AgreesMeanwhile'
    <2>1. CASE LoadState(c)
      BY <2>1, <1>0 DEF LoadState, config, ViewIsCurrent, SwitchKnows, AgreesMeanwhile,
         InFlight, Settled, Agrees, Excused, RecOff, RecOn, SetBack, MemoryType
    <2>2. CASE Toast(c)
      BY <2>2, <1>0 DEF Toast, IdleChecker, config, ViewIsCurrent, SwitchKnows,
         AgreesMeanwhile, InFlight, Settled, Agrees, Excused, RecOff, RecOn, SetBack,
         MemoryType
    <2>3. CASE NoteToast(c)
      BY <2>3, <1>0 DEF NoteToast, IdleChecker, config, ViewIsCurrent, SwitchKnows,
         AgreesMeanwhile, InFlight, Settled, Agrees, Excused, RecOff, RecOn, SetBack,
         MemoryType
    <2>4. CASE Die(c)
      BY <2>4, <1>0 DEF Die, IdleChecker, config, ViewIsCurrent, SwitchKnows,
         AgreesMeanwhile, InFlight, Settled, Agrees, Excused, RecOff, RecOn, SetBack,
         MemoryType
    <2> QED
      BY <1>8, <2>1, <2>2, <2>3, <2>4 DEF Checker, AcquireLock, Reread, ReadLast,
         Fetched, ViewIsCurrent, SwitchKnows, AgreesMeanwhile, InFlight, Settled,
         Agrees, Excused, RecOff, RecOn, SetBack, config
  <1> QED
    BY <1>1, <1>2, <1>3, <1>4, <1>5, <1>6, <1>7, <1>8 DEF Next, PatchCall, MendRead,
       Launch, ViewIsCurrent, SwitchKnows, AgreesMeanwhile, InFlight, Settled, Agrees,
       Excused, RecOff, RecOn, SetBack, config

(* Whoever saves OFF holds the lease of the checker.                       *)
LEMMA QuietKept ==
  ASSUME TypeOK, Locks, SwitchKnows, OffIsQuiet, Next
  PROVE  OffIsQuiet'
  <1>0. settings \in Settings /\ chk \in [Checkers -> CheckerType]
    BY DEF TypeOK
  <1>1. CASE StopConfig
    BY <1>1, <1>0, CheckAssumption DEF StopConfig, IdleRec, IdleSet, Locks, SwitchKnows,
       OffIsQuiet, LeaseHeld, Announcing, None
  <1>2. CASE PatchApply
    BY <1>2, <1>0, CheckAssumption DEF PatchApply, SettingsLockFree, Locks, SwitchKnows,
       OffIsQuiet, LeaseHeld, Announcing, None, Settings
  <1>3. CASE Launch
    BY <1>3, <1>0, CheckAssumption DEF Launch, StartChecker, config, Locks, SwitchKnows,
       OffIsQuiet, LeaseHeld, Announcing, None, CheckerType
  <1>4. CASE Rec
    <2>1. CASE RecLoad
      BY <2>1, <1>0, CheckAssumption DEF RecLoad, ReleaseRec, IdleRec, SettingsLockFree,
         Locks, SwitchKnows, OffIsQuiet, LeaseHeld, Announcing, None, Settings
    <2>2. CASE RecOffLease
      BY <2>2, <1>0, CheckAssumption DEF RecOffLease, ReleaseRec, IdleRec,
         LeaseTimesOut, Locks, SwitchKnows, OffIsQuiet, LeaseHeld, Announcing, None
    <2>3. CASE RecOffDelete
      BY <2>3, <1>0, CheckAssumption DEF RecOffDelete, ReleaseRec, IdleRec, Locks,
         SwitchKnows, OffIsQuiet, LeaseHeld, Announcing, None, Settings
    <2>4. CASE RecRun
      BY <2>4, <1>0, CheckAssumption DEF RecRun, ReleaseRec, IdleRec, StartTask,
         StartChecker, NoChecker, Locks, SwitchKnows, OffIsQuiet, LeaseHeld, Announcing,
         None, CheckerType
    <2>5. CASE RecFallLease
      BY <2>5, <1>0, CheckAssumption DEF RecFallLease, ReleaseRec, IdleRec,
         LeaseTimesOut, Locks, SwitchKnows, OffIsQuiet, LeaseHeld, Announcing, None
    <2>6. CASE RecFallSave
      BY <2>6, <1>0, CheckAssumption DEF RecFallSave, ReleaseRec, IdleRec, Locks,
         SwitchKnows, OffIsQuiet, LeaseHeld, Announcing, None, Settings
    <2>7. CASE RecFallDelete
      BY <2>7, <1>0, CheckAssumption DEF RecFallDelete, ReleaseRec, IdleRec, Locks,
         SwitchKnows, OffIsQuiet, LeaseHeld, Announcing, None
    <2> QED
      BY <1>4, <2>1, <2>2, <2>3, <2>4, <2>5, <2>6, <2>7 DEF Rec, RecRegister, Locks,
         SwitchKnows, OffIsQuiet, LeaseHeld, Announcing, None
  <1>5. CASE Set
    <2>1. CASE SetLease
      BY <2>1, <1>0, CheckAssumption DEF SetLease, LeaseTimesOut, SetReturns, Locks,
         SwitchKnows, OffIsQuiet, LeaseHeld, Announcing, None
    <2>2. CASE SetSave
      BY <2>2, <1>0, CheckAssumption DEF SetSave, SaveAuto, SettingsLockFree,
         SetReturns, Locks, SwitchKnows, OffIsQuiet, LeaseHeld, Announcing, None,
         Settings
    <2>3. CASE SetDelete
      BY <2>3, <1>0, CheckAssumption DEF SetDelete, SetReturns, Locks, SwitchKnows,
         OffIsQuiet, LeaseHeld, Announcing, None, Settings
    <2>4. CASE SetRegister
      BY <2>4, <1>0, CheckAssumption DEF SetRegister, SetReturns, Locks, SwitchKnows,
         OffIsQuiet, LeaseHeld, Announcing, None
    <2>5. CASE SetSaveOn
      BY <2>5, <1>0, CheckAssumption DEF SetSaveOn, SaveAuto, SettingsLockFree, Locks,
         SwitchKnows, OffIsQuiet, LeaseHeld, Announcing, None, Settings
    <2>6. CASE SetUndo
      BY <2>6, <1>0, CheckAssumption DEF SetUndo, SetReturns, Locks, SwitchKnows,
         OffIsQuiet, LeaseHeld, Announcing, None, Settings
    <2>7. CASE SetRun
      BY <2>7, <1>0, CheckAssumption DEF SetRun, StartTask, StartChecker, NoChecker,
         SetReturns, Locks, SwitchKnows, OffIsQuiet, LeaseHeld, Announcing, None,
         CheckerType
    <2>8. CASE SetBackLease
      BY <2>8, <1>0, CheckAssumption DEF SetBackLease, LeaseTimesOut, SetReturns, Locks,
         SwitchKnows, OffIsQuiet, LeaseHeld, Announcing, None
    <2>9. CASE SetBackSave
      BY <2>9, <1>0, CheckAssumption DEF SetBackSave, SaveAuto, SettingsLockFree,
         SetReturns, Locks, SwitchKnows, OffIsQuiet, LeaseHeld, Announcing, None,
         Settings
    <2> QED
      BY <1>5, <2>1, <2>2, <2>3, <2>4, <2>5, <2>6, <2>7, <2>8, <2>9 DEF Set,
         SetPrevious, SetBegin, SetBackDelete, SetEnd, Locks, SwitchKnows, OffIsQuiet,
         LeaseHeld, Announcing, None
  <1>6. ASSUME NEW c \in Checkers, Checker(c) \/ Die(c) PROVE OffIsQuiet'
    <2>1. CASE AcquireLock(c)
      BY <2>1, <1>0, CheckAssumption DEF AcquireLock, Exit, ToChk, IdleChecker, config,
         Locks, SwitchKnows, OffIsQuiet, LeaseHeld, Announcing, None, CheckerType
    <2>2. CASE Reread(c)
      BY <2>2, <1>0, CheckAssumption DEF Reread, Exit, ToChk, IdleChecker, config,
         Locks, SwitchKnows, OffIsQuiet, LeaseHeld, Announcing, None, CheckerType
    <2>3. CASE LoadState(c)
      BY <2>3, <1>0, CheckAssumption DEF LoadState, config, Locks, SwitchKnows,
         OffIsQuiet, LeaseHeld, Announcing, None, CheckerType
    <2>4. CASE ReadLast(c)
      BY <2>4, <1>0, CheckAssumption DEF ReadLast, Exit, ToChk, IdleChecker, config,
         Locks, SwitchKnows, OffIsQuiet, LeaseHeld, Announcing, None, CheckerType
    <2>5. CASE Fetched(c)
      BY <2>5, <1>0, CheckAssumption DEF Fetched, Exit, IdleChecker, config, Locks,
         SwitchKnows, OffIsQuiet, LeaseHeld, Announcing, None, CheckerType
    <2>6. CASE Toast(c)
      BY <2>6, <1>0, CheckAssumption DEF Toast, Exit, ToChk, IdleChecker, config, Locks,
         SwitchKnows, OffIsQuiet, LeaseHeld, Announcing, None, CheckerType
    <2>7. CASE NoteToast(c)
      BY <2>7, <1>0, CheckAssumption DEF NoteToast, Exit, IdleChecker, config, Locks,
         SwitchKnows, OffIsQuiet, LeaseHeld, Announcing, None, CheckerType
    <2>8. CASE Die(c)
      BY <2>8, <1>0, CheckAssumption DEF Die, Exit, IdleChecker, config, Locks,
         SwitchKnows, OffIsQuiet, LeaseHeld, Announcing, None, CheckerType
    <2> QED
      BY <1>6, <2>1, <2>2, <2>3, <2>4, <2>5, <2>6, <2>7, <2>8 DEF Checker
  <1> QED
    BY <1>1, <1>2, <1>3, <1>4, <1>5, <1>6 DEF Next, StartConfig, SetCall, PatchCall,
       MendRead, MendRegister, Locks, SwitchKnows, OffIsQuiet, LeaseHeld, Announcing,
       None, config

(* Every initial state of the program satisfies the inductive invariant.   *)
LEMMA InitIInv ==
  ASSUME Init
  PROVE  IInv
  <1>1. settings.auto \in BOOLEAN /\ settings.other = 0 /\ settings \in Settings
    BY DEF Init, Settings
  <1>2. gh \in MemoryType
    BY DEF Init, MemoryType
  <1>3. chk \in [Checkers -> CheckerType]
    BY IdleTypes DEF Init
  <1>4. \A c \in Checkers : chk[c].pc = "idle"
    BY DEF Init, IdleChecker
  <1>5. rec.pc = "down" /\ set.pc = "idle"
    BY DEF Init, IdleRec, IdleSet
  <1>6. TypeOK
    <2>1. faults \in 0..MaxFaults /\ starts \in 0..MaxStarts
      BY CheckAssumption DEF Init
    <2>2. rec \in RecType /\ set \in SetType /\ patch \in PatchType
      BY IdleTypes DEF Init
    <2>3. /\ task \in BOOLEAN /\ repair \in BOOLEAN /\ ui \in BOOLEAN
          /\ mend \in {"idle", "register"} /\ ustate \in SUBSET Candidates
          /\ lease \in {None, "rec", "set"} \cup Checkers /\ slock \in {None, "rec"}
      BY DEF Init, FreshState
    <2> QED
      BY <1>1, <1>2, <1>3, <1>4, <2>1, <2>2, <2>3 DEF TypeOK
  <1>7. Locks /\ ViewIsCurrent
    BY <1>4, <1>5 DEF Init, Locks, ViewIsCurrent, RecLocked, RecOff, RecOn, RecFall, LeaseHeld,
                      Announcing, None
  <1>8. SwitchKnows /\ AgreesMeanwhile
    BY <1>5 DEF SwitchKnows, AgreesMeanwhile, InFlight, SetBack
  <1>9. AnnouncedIsNoted
    BY <1>4 DEF Init, AnnouncedIsNoted
  <1>10. OffIsQuiet /\ PatchesSurvive
    BY <1>1, <1>4 DEF Init, OffIsQuiet, PatchesSurvive
  <1> QED
    BY <1>6, <1>7, <1>8, <1>9, <1>10 DEF IInv

(* The inductive invariant holds in every reachable state: each layer is   *)
(* kept by every step, given the layers below it.                          *)
THEOREM IInvAlways == Spec => []IInv
  <1>1. Init => IInv
    BY InitIInv
  <1>2. IInv /\ [Next]_vars => IInv'
    <2> SUFFICES ASSUME IInv, [Next]_vars PROVE IInv'
      OBVIOUS
    <2>1. CASE Next
      BY <2>1, TypeKept, LocksKept, ViewKept, SwitchKept, NotedKept, AgreesKept, QuietKept
         DEF IInv
    <2>2. CASE UNCHANGED vars
      <3>1. TypeOK' /\ Locks' /\ ViewIsCurrent' /\ SwitchKnows'
        BY <2>2 DEF IInv, vars, TypeOK, Locks, ViewIsCurrent, SwitchKnows
      <3>2. AnnouncedIsNoted' /\ OffIsQuiet' /\ PatchesSurvive'
        BY <2>2 DEF IInv, vars, AnnouncedIsNoted, Noting, OffIsQuiet, PatchesSurvive
      <3>3. AgreesMeanwhile'
        BY <2>2 DEF IInv, vars, AgreesMeanwhile, InFlight, Settled, Agrees, Excused
      <3> QED
        BY <3>1, <3>2, <3>3 DEF IInv
    <2> QED
      BY <2>1, <2>2
  <1> QED
    BY <1>1, <1>2, PTL DEF Spec

(* The release server is asked and a release announced only while the      *)
(* saved setting is ON, however the checkers, the switch, the startup      *)
(* worker and a dying process interleave.                                  *)
THEOREM QuietWhenOff == Spec => []OffIsQuiet
  <1>1. IInv => OffIsQuiet
    BY DEF IInv
  <1> QED
    BY <1>1, IInvAlways, PTL

(* What settings_patch saved survives the update check's own writes to     *)
(* settings.json.                                                          *)
THEOREM PatchesAlwaysSurvive == Spec => []PatchesSurvive
  <1>1. IInv => PatchesSurvive
    BY DEF IInv
  <1> QED
    BY <1>1, IInvAlways, PTL

(* With the startup worker and the command at rest and no warning up, the  *)
(* task is registered exactly when the setting is ON.                      *)
THEOREM TaskAgreesAtRest == Spec => []AgreesAtRest
  <1>1. IInv => AgreesAtRest
    BY DEF IInv, AgreesMeanwhile, AgreesAtRest, Settled, Agrees, Excused
  <1> QED
    BY <1>1, IInvAlways, PTL

(* No release is announced twice running unless the record of its first    *)
(* announcement was lost.                                                  *)
THEOREM NeverToastedTwice == Spec => NotToastedTwice
  <1> DEFINE Fresh == \A c \in Checkers : chk[c].pc = "toast" /\ ~gh.lost => chk[c].found # gh.toast
  <1>1. IInv => Fresh
    <2> SUFFICES ASSUME IInv, NEW c \in Checkers, chk[c].pc = "toast", ~gh.lost
                 PROVE  chk[c].found # gh.toast
      OBVIOUS
    <2>1. lease = c /\ ~Noting
      BY DEF IInv, Locks, LeaseHeld, Announcing, Noting
    <2>2. chk[c].st = ustate /\ chk[c].found \in Candidates \ ustate
      BY DEF IInv, AnnouncedIsNoted
    <2>3. CASE gh.toast = None
      BY <2>2, <2>3, CheckAssumption
    <2>4. CASE gh.toast # None
      BY <2>1, <2>2, <2>4 DEF IInv, AnnouncedIsNoted
    <2> QED
      BY <2>3, <2>4
  <1>2. Fresh /\ [Next]_vars =>
          [\A c \in Checkers :
              chk[c].pc = "toast" /\ chk'[c].pc = "note" /\ ~gh.lost => chk[c].found # gh.toast]_vars
    OBVIOUS
  <1> QED
    BY <1>1, <1>2, IInvAlways, PTL DEF Spec, NotToastedTwice
=============================================================================
