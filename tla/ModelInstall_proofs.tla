------------------------ MODULE ModelInstall_proofs ------------------------
(***************************************************************************)
(* That an installation of a model does all or nothing, that a             *)
(* cancellation is final, that the latest choice of the setting wins and   *)
(* that a model is replaced only under the engine's absence: proved for    *)
(* any number of attempts, cancellations, changes and failing calls.  The  *)
(* inductive invariant is built in layers, each kept by every step that    *)
(* starts where the layers below it hold.                                  *)
(***************************************************************************)
EXTENDS ModelInstall, TLAPS

(* The places of an attempt: before its record is begun, while it can be   *)
(* cancelled, while it places the model, and the places of an update.      *)
Starting == {"clear", "intent", "record"}
Fetching == {"receive", "verify", "wait", "absence", "check", "placing"}
Locked == {"decide", "moveOut", "moveIn", "save", "success"}
Updating == {"fetch", "launch", "run"}
Untouched == Starting \cup Fetching \cup {"lock", "decide", "moveOut"}
AttemptPcs == {"idle", "over", "clear", "intent", "record", "receive", "verify", "wait",
               "absence", "check", "placing", "lock", "decide", "moveOut", "moveIn", "save",
               "success", "fetch", "launch", "run"}
RecordPhases == {"none", "downloading", "verifying", "waiting", "placing", "activating",
                 "installing", "cancelling", "cancelled", "failed", "succeeded"}
Attempts == 0..MaxAttempts
Models == 0..(MaxAttempts + 1)

AttemptType == [id : Attempts, pc : AttemptPcs, act : BOOLEAN, gen : Nat, enable : BOOLEAN]
RecordType == [id : Attempts, phase : RecordPhases, cancelable : BOOLEAN]
CancelType == [pc : {"idle", "flag", "record", "intent"}, id : Attempts, clean : BOOLEAN]
MemoryType == [choice : Attempts, asked : SUBSET Attempts, done : SUBSET Attempts,
               before : Models, by : Attempts, damaged : BOOLEAN]

TypeOK ==
    /\ kind \in Kinds /\ att \in AttemptType /\ record \in RecordType /\ can \in CancelType
    /\ gh \in MemoryType
    /\ begun \in Attempts /\ active \in Attempts /\ generation \in Nat
    /\ cancels \in Nat /\ patches \in Nat /\ faults \in Nat
    /\ flag \in BOOLEAN /\ enabled \in BOOLEAN /\ lease \in BOOLEAN
    /\ patch \in {"idle", "saved"} /\ slock \in {"none", "attempt", "patch"}
    /\ dest \in Models /\ backup \in Models
    /\ engine \in {"off", "idle", "busy"}

(* One attempt at a time, the latest one begun, which owns the record once *)
(* it has begun it; the settings lock is at the place it says.             *)
Bookkeeping ==
    /\ active = att.id
    /\ att.pc = "idle" <=> att.id = 0
    /\ att.pc # "idle" => att.id = begun
    /\ att.pc \in Starting => record.id # att.id
    /\ att.pc \notin Starting \cup {"idle"} => record.id = att.id
    /\ record.id <= begun
    /\ att.pc \in Updating => kind = "update"
    /\ kind = "update" => att.pc \in Updating \cup {"idle", "over"}
    /\ att.pc \in {"lock", "decide"} => kind = "zenzai"
    /\ att.pc \in Locked /\ kind = "zenzai" => slock = "attempt"
    /\ patch = "saved" <=> slock = "patch"

(* A cancellation that was accepted has left its flag up until the last    *)
(* look at it; afterwards none is accepted.                                *)
CancelIsSeen ==
    /\ gh.asked \cup gh.done \subseteq 1..begun
    /\ record.cancelable => att.pc \in Fetching \cup {"fetch", "launch"}
    /\ record.phase = "downloading" => att.pc \in {"receive", "fetch", "launch"}
    /\ can.pc = "record" /\ can.clean => flag
    /\ kind = "update" => can.pc = "idle"
    /\ att.pc \in Fetching \cup {"lock", "fetch", "launch"} /\ att.id \in gh.asked => flag
    /\ att.pc \in Starting => att.id \notin gh.asked
    /\ att.pc \in Locked \cup {"run"} /\ kind # "prediction" => att.id \notin gh.asked
    /\ att.pc \notin {"idle", "over"} => att.id \notin gh.done

(* Where the old and the new model are while an attempt is on its way.     *)
Placement ==
    /\ dest \in 0..begun \cup {OldModel} /\ gh.before \in 0..begun \cup {OldModel}
    /\ att.pc # "idle" => gh.before # att.id
    /\ att.pc \in Untouched => dest = gh.before
    /\ att.pc = "moveIn" => dest = NoModel
    /\ att.pc \in {"moveIn", "save"} => backup = gh.before
    /\ att.pc \in {"save", "success"} => dest = att.id
    /\ gh.by <= begun
    /\ att.pc \in Untouched \cup {"moveIn", "save"} => gh.by # att.id
    /\ record.phase = "succeeded" => att.pc \in Starting \cup {"idle", "over"}

(* From the check of the flag on, a model that is there is replaced under  *)
(* the engine's absence.                                                   *)
Absence ==
    /\ lease => engine = "off"
    /\ att.pc \in {"check", "placing", "lock", "decide", "moveOut"} /\ dest # NoModel => lease

(* An intent is current exactly as long as the user has not chosen again,  *)
(* except between the save of a choice and the end of its critical section.*)
Intent ==
    /\ att.gen <= generation
    /\ att.act /\ att.pc \notin {"clear", "intent"} /\ generation = att.gen /\ slock # "patch"
           => gh.choice = att.id
    /\ att.enable => att.pc \in Locked \cup {"over"}
    /\ att.enable /\ att.pc \in Locked /\ kind = "zenzai" => gh.choice = att.id

IInv == TypeOK /\ Bookkeeping /\ CancelIsSeen /\ Placement /\ Absence /\ Intent
        /\ AllOrNothing /\ CancelIsFinal

-----------------------------------------------------------------------------
(* Every action keeps the types; the counters that a failing call moves are *)
(* treated once.                                                           *)
LEMMA FaultsTyped ==
  ASSUME TypeOK, Succeeds \/ Fails
  PROVE  faults' \in Nat
  BY InstallAssumption DEF TypeOK, Succeeds, Fails

LEMMA TypeKept ==
  ASSUME TypeOK, Next
  PROVE  TypeOK'
  <1>0. /\ att \in AttemptType /\ record \in RecordType /\ can \in CancelType /\ gh \in MemoryType
    BY DEF TypeOK
  <1>00. /\ att.id \in Attempts /\ record.id \in Attempts /\ can.id \in Attempts
         /\ dest \in Models /\ backup \in Models /\ active \in Attempts /\ begun \in Attempts
         /\ generation \in Nat /\ MaxAttempts \in Nat
    BY <1>0, InstallAssumption DEF TypeOK, AttemptType, RecordType, CancelType
  <1>1. ASSUME NEW b \in BOOLEAN, Begin(b) PROVE TypeOK'
    <2>1. att' \in AttemptType
      <3>1. begun + 1 \in Attempts
        BY <1>1, <1>00 DEF Begin, Attempts
      <3> QED
        BY <1>1, <3>1 DEF Begin, IdleAttempt, AttemptType, AttemptPcs, Attempts
    <2>2. gh' \in MemoryType
      BY <1>1, <1>0, <1>00 DEF Begin, IdleAttempt, page, files, MemoryType, Attempts,
         Models
    <2>3. begun' \in Attempts /\ active' \in Attempts
      BY <1>1, InstallAssumption, <1>0, <1>00 DEF Begin, IdleAttempt, page, files,
         TypeOK, Attempts
    <2> QED
      BY <1>1, <2>1, <2>2, <2>3 DEF Begin, TypeOK, page, files
  <1>2. CASE BeginUpdate
    <2>1. att' \in AttemptType
      <3>1. begun + 1 \in Attempts
        BY <1>2, <1>00 DEF BeginUpdate, Attempts
      <3> QED
        BY <1>2, <3>1 DEF BeginUpdate, IdleAttempt, AttemptType, AttemptPcs, Attempts
    <2>2. record' \in RecordType
      BY <1>2, <1>0, <1>00 DEF BeginUpdate, IdleAttempt, page, files, RecordType,
         RecordPhases, Attempts
    <2>3. flag' \in BOOLEAN
      BY <1>2, <1>0, <1>00 DEF BeginUpdate, IdleAttempt, page, files, TypeOK
    <2>4. begun' \in Attempts /\ active' \in Attempts
      BY <1>2, InstallAssumption, <1>0, <1>00 DEF BeginUpdate, IdleAttempt, page, files,
         TypeOK, Attempts
    <2> QED
      BY <1>2, <2>1, <2>2, <2>3, <2>4 DEF BeginUpdate, TypeOK, page, files
  <1>3. CASE Attempt
    <2>1. CASE ClearFlag
      <3>1. att' \in AttemptType
        BY <2>1, <1>0, <1>00 DEF ClearFlag, ToAtt, files, AttemptType, AttemptPcs,
           Attempts
      <3>2. can' \in CancelType
        BY <2>1, <1>0, <1>00 DEF ClearFlag, files, CancelType, Attempts
      <3>3. flag' \in BOOLEAN
        BY <2>1, <1>0, <1>00 DEF ClearFlag, files, TypeOK
      <3> QED
        BY <2>1, <3>1, <3>2, <3>3 DEF ClearFlag, TypeOK, files
    <2>2. CASE BeginIntent
      <3>1. att' \in AttemptType
        <4>1. generation + 1 \in Nat
          BY <1>00
        <4> QED
          BY <2>2, <1>0, <4>1 DEF BeginIntent, ToAtt, AttemptType, AttemptPcs
      <3>2. gh' \in MemoryType
        BY <2>2, <1>0, <1>00 DEF BeginIntent, page, files, MemoryType, Attempts, Models
      <3>3. generation' \in Nat
        BY <2>2, InstallAssumption, <1>0, <1>00 DEF BeginIntent, page, files, TypeOK
      <3> QED
        BY <2>2, <3>1, <3>2, <3>3 DEF BeginIntent, TypeOK, page, files
    <2>3. CASE BeginRecord
      <3>1. att' \in AttemptType
        BY <2>3, <1>0, <1>00 DEF BeginRecord, ToAtt, page, files, AttemptType,
           AttemptPcs, Attempts
      <3>2. record' \in RecordType
        BY <2>3, <1>0, <1>00 DEF BeginRecord, page, files, RecordType, RecordPhases,
           Attempts
      <3> QED
        BY <2>3, <3>1, <3>2 DEF BeginRecord, TypeOK, page, files
    <2>4. CASE Receive
      <3>1. att' \in AttemptType
        BY <2>4, <1>0, <1>00 DEF Receive, Cancelled, Over, SetPhase, ToAtt, page, files,
           AttemptType, AttemptPcs, Attempts
      <3>2. record' \in RecordType
        BY <2>4, <1>0, <1>00 DEF Receive, Cancelled, Over, SetPhase, FailedPhase, page,
           files, RecordType, RecordPhases, Attempts
      <3>3. faults' \in Nat
        BY <2>4, FaultsTyped DEF Receive
      <3>4. slock' \in {"none", "attempt", "patch"} /\ lease' \in BOOLEAN
        BY <2>4, <1>0, <1>00 DEF Receive, Cancelled, Over, page, files, TypeOK
      <3> QED
        BY <2>4, <3>1, <3>2, <3>3, <3>4 DEF Receive, TypeOK, page, files
    <2>5. CASE Verify
      <3>1. att' \in AttemptType
        BY <2>5, <1>0, <1>00 DEF Verify, NoModel, ToAtt, SetPhase, Fail, Over, page,
           files, AttemptType, AttemptPcs, Attempts
      <3>2. record' \in RecordType
        BY <2>5, <1>0, <1>00 DEF Verify, NoModel, SetPhase, Fail, Over, FailedPhase,
           page, files, RecordType, RecordPhases, Attempts
      <3>3. faults' \in Nat
        BY <2>5, FaultsTyped DEF Verify
      <3>4. slock' \in {"none", "attempt", "patch"} /\ lease' \in BOOLEAN
        BY <2>5, <1>0, <1>00 DEF Verify, NoModel, Fail, Over, page, files, TypeOK
      <3> QED
        BY <2>5, <3>1, <3>2, <3>3, <3>4 DEF Verify, TypeOK, page, files
    <2>6. CASE WaitForMaintenance
      <3>1. att' \in AttemptType
        BY <2>6, <1>0, <1>00 DEF WaitForMaintenance, Cancelled, Over, SetPhase, ToAtt,
           Fail, page, files, AttemptType, AttemptPcs, Attempts
      <3>2. record' \in RecordType
        BY <2>6, <1>0, <1>00 DEF WaitForMaintenance, Cancelled, Over, SetPhase,
           FailedPhase, Fail, page, files, RecordType, RecordPhases, Attempts
      <3>3. faults' \in Nat
        BY <2>6, FaultsTyped DEF WaitForMaintenance
      <3>4. /\ slock' \in {"none", "attempt", "patch"}
            /\ engine' \in {"off", "idle", "busy"}
            /\ lease' \in BOOLEAN
        BY <2>6, <1>0, <1>00 DEF WaitForMaintenance, Cancelled, Over, Fail, page, files,
           TypeOK
      <3> QED
        BY <2>6, <3>1, <3>2, <3>3, <3>4 DEF WaitForMaintenance, TypeOK, page, files
    <2>7. CASE AcquireAbsence
      <3>1. att' \in AttemptType
        BY <2>7, <1>0, <1>00 DEF AcquireAbsence, ToAtt, Fail, Over, SetPhase, page,
           files, AttemptType, AttemptPcs, Attempts
      <3>2. record' \in RecordType
        BY <2>7, <1>0, <1>00 DEF AcquireAbsence, Fail, Over, SetPhase, FailedPhase,
           page, files, RecordType, RecordPhases, Attempts
      <3>3. faults' \in Nat
        BY <2>7, FaultsTyped DEF AcquireAbsence
      <3>4. slock' \in {"none", "attempt", "patch"} /\ lease' \in BOOLEAN
        BY <2>7, <1>0, <1>00 DEF AcquireAbsence, Fail, Over, page, files, TypeOK
      <3> QED
        BY <2>7, <3>1, <3>2, <3>3, <3>4 DEF AcquireAbsence, TypeOK, page, files
    <2>8. CASE CheckFlag
      <3>1. att' \in AttemptType
        BY <2>8, <1>0, <1>00 DEF CheckFlag, Cancelled, Over, SetPhase, ToAtt, page,
           files, AttemptType, AttemptPcs, Attempts
      <3>2. record' \in RecordType
        BY <2>8, <1>0, <1>00 DEF CheckFlag, Cancelled, Over, SetPhase, FailedPhase,
           page, files, RecordType, RecordPhases, Attempts
      <3>3. slock' \in {"none", "attempt", "patch"} /\ lease' \in BOOLEAN
        BY <2>8, <1>0, <1>00 DEF CheckFlag, Cancelled, Over, page, files, TypeOK
      <3> QED
        BY <2>8, <3>1, <3>2, <3>3 DEF CheckFlag, TypeOK, page, files
    <2>9. CASE Placing
      <3>1. att' \in AttemptType
        BY <2>9, <1>0, <1>00 DEF Placing, SetPhase, ToAtt, page, files, AttemptType,
           AttemptPcs, Attempts
      <3>2. record' \in RecordType
        BY <2>9, <1>0, <1>00 DEF Placing, SetPhase, page, files, RecordType,
           RecordPhases, Attempts
      <3> QED
        BY <2>9, <3>1, <3>2 DEF Placing, TypeOK, page, files
    <2>10. CASE LockSettings
      <3>1. att' \in AttemptType
        BY <2>10, <1>0, <1>00 DEF LockSettings, Cancelled, Over, SetPhase, ToAtt, page,
           files, AttemptType, AttemptPcs, Attempts
      <3>2. record' \in RecordType
        BY <2>10, <1>0, <1>00 DEF LockSettings, Cancelled, Over, SetPhase, FailedPhase,
           page, files, RecordType, RecordPhases, Attempts
      <3>3. slock' \in {"none", "attempt", "patch"} /\ lease' \in BOOLEAN
        BY <2>10, <1>0, <1>00 DEF LockSettings, Cancelled, Over, page, files, TypeOK
      <3> QED
        BY <2>10, <3>1, <3>2, <3>3 DEF LockSettings, TypeOK, page, files
    <2>11. CASE Decide
      <3>1. att' \in AttemptType
        BY <2>11, <1>0, <1>00 DEF Decide, IntentIsCurrent, Fail, Over, SetPhase, page,
           files, AttemptType, AttemptPcs, Attempts
      <3>2. record' \in RecordType
        BY <2>11, <1>0, <1>00 DEF Decide, Fail, Over, SetPhase, FailedPhase, page,
           files, RecordType, RecordPhases, Attempts
      <3>3. faults' \in Nat
        BY <2>11, FaultsTyped DEF Decide
      <3>4. slock' \in {"none", "attempt", "patch"} /\ lease' \in BOOLEAN
        BY <2>11, <1>0, <1>00 DEF Decide, Fail, Over, page, files, TypeOK
      <3> QED
        BY <2>11, <3>1, <3>2, <3>3, <3>4 DEF Decide, TypeOK, page, files
    <2>12. CASE MoveOut
      <3>1. att' \in AttemptType
        BY <2>12, <1>0, <1>00 DEF MoveOut, NoModel, ToAtt, Fail, Over, SetPhase, files,
           page, AttemptType, AttemptPcs, Attempts
      <3>2. record' \in RecordType
        BY <2>12, <1>0, <1>00 DEF MoveOut, NoModel, Fail, Over, SetPhase, FailedPhase,
           files, page, RecordType, RecordPhases, Attempts
      <3>3. faults' \in Nat
        BY <2>12, FaultsTyped DEF MoveOut
      <3>4. slock' \in {"none", "attempt", "patch"} /\ lease' \in BOOLEAN
        BY <2>12, <1>0, <1>00 DEF MoveOut, NoModel, Fail, Over, files, page, TypeOK
      <3>5. dest' \in Models /\ backup' \in Models
        BY <2>12, InstallAssumption, <1>0, <1>00 DEF MoveOut, NoModel, files, page,
           TypeOK, Attempts, Models
      <3> QED
        BY <2>12, <3>1, <3>2, <3>3, <3>4, <3>5 DEF MoveOut, TypeOK, files, page
    <2>13. CASE MoveIn
      <3>1. att' \in AttemptType
        BY <2>13, <1>0, <1>00 DEF MoveIn, ToAtt, IntentIsCurrent, SetPhase, NoModel,
           Fail, Over, page, AttemptType, AttemptPcs, Attempts
      <3>2. record' \in RecordType
        BY <2>13, <1>0, <1>00 DEF MoveIn, SetPhase, NoModel, Fail, Over, FailedPhase,
           page, RecordType, RecordPhases, Attempts
      <3>3. gh' \in MemoryType
        BY <2>13, <1>0, <1>00 DEF MoveIn, Restore, NoModel, page, MemoryType, Attempts,
           Models
      <3>4. faults' \in Nat
        BY <2>13, FaultsTyped DEF MoveIn
      <3>5. slock' \in {"none", "attempt", "patch"} /\ lease' \in BOOLEAN
        BY <2>13, <1>0, <1>00 DEF MoveIn, NoModel, Fail, Over, page, TypeOK
      <3>6. dest' \in Models /\ backup' \in Models
        <4>1. att.id \in Models /\ NoModel \in Models
          BY <1>00 DEF Attempts, Models, NoModel
        <4>2. CASE Restore
          BY <4>2, <4>1, <1>00 DEF Restore
        <4>3. CASE dest' = att.id /\ backup' = backup
          BY <4>3, <4>1, <1>00
        <4> QED
          BY <2>13, <4>2, <4>3 DEF MoveIn
      <3> QED
        BY <2>13, <3>1, <3>2, <3>3, <3>4, <3>5, <3>6 DEF MoveIn, TypeOK, page
    <2>14. CASE SaveSettings
      <3>1. att' \in AttemptType
        BY <2>14, <1>0, <1>00 DEF SaveSettings, IntentIsCurrent, ToAtt, files, NoModel,
           Fail, Over, SetPhase, page, AttemptType, AttemptPcs, Attempts
      <3>2. record' \in RecordType
        BY <2>14, <1>0, <1>00 DEF SaveSettings, files, NoModel, Fail, Over, SetPhase,
           FailedPhase, page, RecordType, RecordPhases, Attempts
      <3>3. gh' \in MemoryType
        BY <2>14, <1>0, <1>00 DEF SaveSettings, files, Restore, NoModel, page,
           MemoryType, Attempts, Models
      <3>4. faults' \in Nat
        BY <2>14, FaultsTyped DEF SaveSettings
      <3>5. /\ slock' \in {"none", "attempt", "patch"}
            /\ enabled' \in BOOLEAN
            /\ lease' \in BOOLEAN
        BY <2>14, <1>0, <1>00 DEF SaveSettings, files, NoModel, Fail, Over, page, TypeOK
      <3>6. dest' \in Models /\ backup' \in Models
        BY <2>14, InstallAssumption, <1>0, <1>00 DEF SaveSettings, files, Restore,
           NoModel, page, TypeOK, Attempts, Models
      <3> QED
        BY <2>14, <3>1, <3>2, <3>3, <3>4, <3>5, <3>6 DEF SaveSettings, TypeOK, files,
           page
    <2>15. CASE Succeed
      <3>1. att' \in AttemptType
        BY <2>15, <1>0, <1>00 DEF Succeed, Over, SetPhase, NoModel, page, AttemptType,
           AttemptPcs, Attempts
      <3>2. record' \in RecordType
        BY <2>15, <1>0, <1>00 DEF Succeed, Over, SetPhase, NoModel, page, RecordType,
           RecordPhases, Attempts
      <3>3. gh' \in MemoryType
        BY <2>15, <1>0, <1>00 DEF Succeed, NoModel, page, MemoryType, Attempts, Models
      <3>4. slock' \in {"none", "attempt", "patch"} /\ lease' \in BOOLEAN
        BY <2>15, <1>0, <1>00 DEF Succeed, Over, NoModel, page, TypeOK
      <3>5. backup' \in Models
        BY <2>15, InstallAssumption, <1>0, <1>00 DEF Succeed, NoModel, page, TypeOK,
           Models
      <3> QED
        BY <2>15, <3>1, <3>2, <3>3, <3>4, <3>5 DEF Succeed, TypeOK, page
    <2>16. CASE DropGuard
      <3>1. att' \in AttemptType
        BY <2>16, <1>0, <1>00 DEF DropGuard, IdleAttempt, page, files, AttemptType,
           AttemptPcs, Attempts
      <3>2. active' \in Attempts
        BY <2>16, InstallAssumption, <1>0, <1>00 DEF DropGuard, IdleAttempt, page,
           files, TypeOK, Attempts
      <3> QED
        BY <2>16, <3>1, <3>2 DEF DropGuard, TypeOK, page, files
    <2>17. CASE FetchInstaller
      <3>1. att' \in AttemptType
        BY <2>17, <1>0, <1>00 DEF FetchInstaller, Cancelled, Over, SetPhase, ToAtt,
           page, files, AttemptType, AttemptPcs, Attempts
      <3>2. record' \in RecordType
        BY <2>17, <1>0, <1>00 DEF FetchInstaller, Cancelled, Over, SetPhase,
           FailedPhase, page, files, RecordType, RecordPhases, Attempts
      <3>3. faults' \in Nat
        BY <2>17, FaultsTyped DEF FetchInstaller
      <3>4. slock' \in {"none", "attempt", "patch"} /\ lease' \in BOOLEAN
        BY <2>17, <1>0, <1>00 DEF FetchInstaller, Cancelled, Over, page, files, TypeOK
      <3> QED
        BY <2>17, <3>1, <3>2, <3>3, <3>4 DEF FetchInstaller, TypeOK, page, files
    <2>18. CASE BeginInstalling
      <3>1. att' \in AttemptType
        BY <2>18, <1>0, <1>00 DEF BeginInstalling, Cancelled, Over, SetPhase, ToAtt,
           page, files, AttemptType, AttemptPcs, Attempts
      <3>2. record' \in RecordType
        BY <2>18, <1>0, <1>00 DEF BeginInstalling, Cancelled, Over, SetPhase,
           FailedPhase, page, files, RecordType, RecordPhases, Attempts
      <3>3. slock' \in {"none", "attempt", "patch"} /\ lease' \in BOOLEAN
        BY <2>18, <1>0, <1>00 DEF BeginInstalling, Cancelled, Over, page, files, TypeOK
      <3> QED
        BY <2>18, <3>1, <3>2, <3>3 DEF BeginInstalling, TypeOK, page, files
    <2>19. CASE RunInstaller
      <3>1. att' \in AttemptType
        BY <2>19, <1>0, <1>00 DEF RunInstaller, Over, SetPhase, Fail, page, files,
           AttemptType, AttemptPcs, Attempts
      <3>2. record' \in RecordType
        BY <2>19, <1>0, <1>00 DEF RunInstaller, Over, SetPhase, Fail, FailedPhase, page,
           files, RecordType, RecordPhases, Attempts
      <3>3. gh' \in MemoryType
        BY <2>19, <1>0, <1>00 DEF RunInstaller, page, files, MemoryType, Attempts,
           Models
      <3>4. faults' \in Nat
        BY <2>19, FaultsTyped DEF RunInstaller
      <3>5. slock' \in {"none", "attempt", "patch"} /\ lease' \in BOOLEAN
        BY <2>19, <1>0, <1>00 DEF RunInstaller, Over, Fail, page, files, TypeOK
      <3> QED
        BY <2>19, <3>1, <3>2, <3>3, <3>4, <3>5 DEF RunInstaller, TypeOK, page, files
    <2> QED
      BY <1>3, <2>1, <2>2, <2>3, <2>4, <2>5, <2>6, <2>7, <2>8, <2>9, <2>10, <2>11,
         <2>12, <2>13, <2>14, <2>15, <2>16, <2>17, <2>18, <2>19 DEF Attempt
  <1>4. CASE CancelCheck
    <2>1. can' \in CancelType
      BY <1>4, <1>0, <1>00 DEF CancelCheck, files, CancelType, Attempts
    <2>2. cancels' \in Nat
      BY <1>4, InstallAssumption, <1>0, <1>00 DEF CancelCheck, files, TypeOK
    <2> QED
      BY <1>4, <2>1, <2>2 DEF CancelCheck, TypeOK, files
  <1>5. CASE Cancellation
    <2>1. CASE CancelFlag
      <3>1. can' \in CancelType
        BY <2>1, <1>0, <1>00 DEF CancelFlag, files, CancelType, Attempts
      <3>2. flag' \in BOOLEAN
        BY <2>1, <1>0, <1>00 DEF CancelFlag, files, TypeOK
      <3> QED
        BY <2>1, <3>1, <3>2 DEF CancelFlag, TypeOK, files
    <2>2. CASE CancelRecord
      <3>1. record' \in RecordType
        BY <2>2, <1>0, <1>00 DEF CancelRecord, files, RecordType, RecordPhases, Attempts
      <3>2. can' \in CancelType
        BY <2>2, <1>0, <1>00 DEF CancelRecord, files, CancelType, Attempts
      <3>3. gh' \in MemoryType
        BY <2>2, <1>0, <1>00 DEF CancelRecord, files, MemoryType, Attempts, Models
      <3> QED
        BY <2>2, <3>1, <3>2, <3>3 DEF CancelRecord, TypeOK, files
    <2>3. CASE CancelIntent
      <3>1. can' \in CancelType
        BY <2>3, <1>0, <1>00 DEF CancelIntent, IdleCancel, files, CancelType, Attempts
      <3>2. generation' \in Nat
        BY <2>3, InstallAssumption, <1>0, <1>00 DEF CancelIntent, IdleCancel, files,
           TypeOK
      <3> QED
        BY <2>3, <3>1, <3>2 DEF CancelIntent, TypeOK, files
    <2> QED
      BY <1>5, <2>1, <2>2, <2>3 DEF Cancellation
  <1>6. CASE CancelUpdate
    <2>1. gh' \in MemoryType
      BY <1>6, <1>0, <1>00 DEF CancelUpdate, files, MemoryType, Attempts, Models
    <2>2. flag' \in BOOLEAN
      BY <1>6, <1>0, <1>00 DEF CancelUpdate, files, TypeOK
    <2>3. cancels' \in Nat
      BY <1>6, InstallAssumption, <1>0, <1>00 DEF CancelUpdate, files, TypeOK
    <2> QED
      BY <1>6, <2>1, <2>2, <2>3 DEF CancelUpdate, TypeOK, files
  <1>7. ASSUME NEW b \in BOOLEAN, PatchSave(b) PROVE TypeOK'
    <2>1. gh' \in MemoryType
      BY <1>7, <1>0, <1>00 DEF PatchSave, NoModel, files, MemoryType, Attempts, Models
    <2>2. /\ patch' \in {"idle", "saved"}
          /\ slock' \in {"none", "attempt", "patch"}
          /\ enabled' \in BOOLEAN
      BY <1>7, <1>0, <1>00 DEF PatchSave, NoModel, files, TypeOK
    <2>3. patches' \in Nat
      BY <1>7, InstallAssumption, <1>0, <1>00 DEF PatchSave, NoModel, files, TypeOK
    <2> QED
      BY <1>7, <2>1, <2>2, <2>3 DEF PatchSave, TypeOK, files
  <1>8. CASE PatchInvalidate
    <2>1. patch' \in {"idle", "saved"} /\ slock' \in {"none", "attempt", "patch"}
      BY <1>8, <1>0, <1>00 DEF PatchInvalidate, files, TypeOK
    <2>2. generation' \in Nat
      BY <1>8, InstallAssumption, <1>0, <1>00 DEF PatchInvalidate, files, TypeOK
    <2> QED
      BY <1>8, <2>1, <2>2 DEF PatchInvalidate, TypeOK, files
  <1>9. CASE EngineMoves
    <2>1. engine' \in {"off", "idle", "busy"}
      BY <1>9, <1>0, <1>00 DEF EngineMoves, page, files, TypeOK
    <2> QED
      BY <1>9, <2>1 DEF EngineMoves, TypeOK, page, files
  <1> QED
    BY <1>1, <1>2, <1>3, <1>4, <1>5, <1>6, <1>7, <1>8, <1>9 DEF Next

(* The identities and counters are numbers.                                *)
LEMMA Numbers ==
  ASSUME TypeOK
  PROVE  /\ MaxAttempts \in Nat /\ OldModel = MaxAttempts + 1 /\ NoModel = 0
         /\ begun \in Nat /\ begun <= MaxAttempts /\ active \in Nat /\ generation \in Nat
         /\ att.id \in Nat /\ att.gen \in Nat /\ can.id \in Nat /\ record.id \in Nat
         /\ gh.by \in Nat /\ gh.before \in Nat /\ dest \in Nat /\ backup \in Nat
  <1>1. /\ att \in AttemptType /\ record \in RecordType /\ can \in CancelType
        /\ gh \in MemoryType
    BY DEF TypeOK
  <1>2. MaxAttempts \in Nat
    BY InstallAssumption
  <1>3. att.id \in Nat /\ att.gen \in Nat /\ can.id \in Nat /\ record.id \in Nat
    BY <1>1, <1>2 DEF AttemptType, CancelType, RecordType, Attempts
  <1>4. gh.by \in Nat /\ gh.before \in Nat
    BY <1>1, <1>2 DEF MemoryType, Attempts, Models
  <1> QED
    BY <1>2, <1>3, <1>4 DEF TypeOK, Attempts, Models, OldModel, NoModel

(* What an action does, field by field, for the actions with the most      *)
(* outcomes.                                                               *)
AttemptKept == att'.id = att.id /\ att'.act = att.act /\ att'.gen = att.gen

LEMMA OverEffect ==
  ASSUME TypeOK, NEW phase \in RecordPhases, Over(phase)
  PROVE  /\ att'.pc = "over" /\ AttemptKept /\ att'.enable = att.enable
         /\ record'.id = record.id
         /\ record.id = att.id => record'.phase = phase /\ record'.cancelable = FALSE
         /\ record.id # att.id => record' = record
         /\ slock' = (IF slock = "attempt" THEN "none" ELSE slock) /\ lease' = FALSE
  <1>1. att \in AttemptType /\ record \in RecordType
    BY DEF TypeOK
  <1> QED
    BY <1>1 DEF Over, SetPhase, AttemptKept, AttemptType, RecordType

LEMMA FailEffect ==
  ASSUME TypeOK, Fail \/ Cancelled
  PROVE  \E phase \in {"cancelled", "failed"} : Over(phase)
  BY DEF Fail, Cancelled, FailedPhase

LEMMA BeginIntentEffect ==
  ASSUME TypeOK, BeginIntent
  PROVE  /\ att.pc = "intent" /\ att'.pc = "record" /\ att'.id = att.id /\ att'.act = att.act
         /\ att'.enable = att.enable
         /\ UNCHANGED <<kind, begun, active, flag, record, can, patch, slock, dest, backup, engine,
                        lease>>
         /\ gh'.asked = gh.asked /\ gh'.done = gh.done /\ gh'.by = gh.by
         /\ gh'.before = gh.before /\ gh'.damaged = gh.damaged
         /\ \/ att.act /\ generation' = generation + 1 /\ att'.gen = generation'
               /\ gh'.choice = att.id
            \/ ~att.act /\ UNCHANGED <<generation, gh>> /\ att'.gen = att.gen
  <1>1. att \in AttemptType /\ gh \in MemoryType
    BY DEF TypeOK
  <1>2. CASE att.act
    BY <1>1, <1>2 DEF BeginIntent, page, files, AttemptType, MemoryType
  <1>3. CASE ~att.act
    BY <1>1, <1>3 DEF BeginIntent, page, files, ToAtt, AttemptType
  <1> QED
    BY <1>2, <1>3

LEMMA CancelRecordEffect ==
  ASSUME TypeOK, CancelRecord
  PROVE  /\ can.pc = "record" /\ can'.pc = "intent"
         /\ can'.id = can.id /\ can'.clean = can.clean
         /\ UNCHANGED <<kind, att, begun, active, flag, generation, patch, slock, dest,
                        backup, engine, lease>>
         /\ gh'.done = gh.done /\ gh'.by = gh.by /\ gh'.before = gh.before
         /\ gh'.choice = gh.choice /\ gh'.damaged = gh.damaged
         /\ \/ /\ record.id = can.id /\ record.cancelable
               /\ record'.id = record.id /\ record'.phase = "cancelling"
               /\ record'.cancelable = FALSE
               /\ gh'.asked = IF can.clean THEN gh.asked \cup {can.id} ELSE gh.asked
            \/ UNCHANGED <<record, gh>>
  <1>1. record \in RecordType /\ gh \in MemoryType /\ can \in CancelType
    BY DEF TypeOK
  <1>2. CASE record.id = can.id /\ record.cancelable
    BY <1>1, <1>2 DEF CancelRecord, files, RecordType, MemoryType, CancelType
  <1>3. CASE ~(record.id = can.id /\ record.cancelable)
    BY <1>1, <1>3 DEF CancelRecord, files, CancelType
  <1> QED
    BY <1>2, <1>3

LEMMA MoveInEffect ==
  ASSUME TypeOK, MoveIn
  PROVE  /\ att.pc = "moveIn" /\ AttemptKept /\ att'.enable = att.enable
         /\ UNCHANGED <<kind, begun, active, flag, generation, can, patch, engine>>
         /\ record'.id = record.id
         /\ gh'.asked = gh.asked /\ gh'.done = gh.done /\ gh'.by = gh.by
         /\ gh'.before = gh.before /\ gh'.choice = gh.choice
         /\ \/ /\ dest' = att.id /\ att'.pc \in {"save", "success"}
               /\ UNCHANGED <<backup, slock, lease, gh>>
               /\ \/ record' = record
                  \/ record'.phase = "activating" /\ record'.cancelable = FALSE
            \/ /\ att'.pc = "over" /\ lease' = FALSE
               /\ slock' = IF slock = "attempt" THEN "none" ELSE slock
               /\ record.id = att.id => record'.phase \in {"cancelled", "failed"}
                                          /\ record'.cancelable = FALSE
               /\ record.id # att.id => record' = record
               /\ gh'.damaged \/ (dest' = backup /\ gh' = gh)
               /\ dest' \in {NoModel, dest, backup}
  <1>1. att \in AttemptType /\ record \in RecordType /\ gh \in MemoryType
    BY DEF TypeOK
  <1>2. /\ att.pc = "moveIn"
        /\ UNCHANGED <<kind, begun, active, flag, generation, can, patch, engine>>
    BY DEF MoveIn, page
  <1>3. CASE Restore /\ Fail
    <2>1. PICK phase \in {"cancelled", "failed"} : Over(phase)
      BY <1>3, FailEffect
    <2>2. phase \in RecordPhases
      BY DEF RecordPhases
    <2>3. /\ gh'.asked = gh.asked /\ gh'.done = gh.done /\ gh'.by = gh.by
          /\ gh'.before = gh.before /\ gh'.choice = gh.choice
          /\ gh'.damaged \/ (dest' = backup /\ gh' = gh)
          /\ dest' \in {NoModel, dest, backup}
      BY <1>1, <1>3 DEF Restore, MemoryType
    <2> QED
      BY <1>2, <2>1, <2>2, <2>3, OverEffect
  <1>4. CASE /\ dest' = att.id /\ UNCHANGED <<backup, slock, lease, gh>>
             /\ ToAtt("save") \/ ToAtt("success")
             /\ SetPhase("activating", FALSE) \/ record' = record
    <2>1. att'.pc \in {"save", "success"} /\ AttemptKept /\ att'.enable = att.enable
      BY <1>1, <1>4 DEF ToAtt, AttemptKept, AttemptType
    <2>2. /\ record'.id = record.id
          /\ record' = record \/ (record'.phase = "activating" /\ record'.cancelable = FALSE)
      BY <1>1, <1>4 DEF SetPhase, RecordType
    <2> QED
      BY <1>2, <1>4, <2>1, <2>2
  <1> QED
    BY <1>3, <1>4 DEF MoveIn

LEMMA SaveSettingsEffect ==
  ASSUME TypeOK, SaveSettings
  PROVE  /\ att.pc = "save" /\ AttemptKept /\ att'.enable = att.enable
         /\ UNCHANGED <<kind, begun, active, flag, generation, can, patch, engine>>
         /\ record'.id = record.id
         /\ gh'.asked = gh.asked /\ gh'.done = gh.done
         /\ gh'.before = gh.before /\ gh'.choice = gh.choice
         /\ \/ /\ att'.pc = "success" /\ UNCHANGED <<dest, backup, record, slock, lease>>
               /\ gh'.damaged = gh.damaged
               /\ \/ gh'.by = gh.by
                  \/ /\ gh'.by = att.id
                     /\ kind = "zenzai" => att.enable
                     /\ kind # "zenzai" =>
                            IntentIsCurrent /\ (kind = "prediction" => slock = "none")
            \/ /\ att'.pc = "over" /\ lease' = FALSE /\ gh'.by = gh.by
               /\ slock' = IF slock = "attempt" THEN "none" ELSE slock
               /\ record.id = att.id => record'.phase \in {"cancelled", "failed"}
                                          /\ record'.cancelable = FALSE
               /\ record.id # att.id => record' = record
               /\ gh'.damaged \/ (dest' = backup /\ gh' = gh)
               /\ dest' \in {NoModel, dest, backup}
  <1>1. att \in AttemptType /\ record \in RecordType /\ gh \in MemoryType
    BY DEF TypeOK
  <1>2. /\ att.pc = "save"
        /\ UNCHANGED <<kind, begun, active, flag, generation, can, patch, engine>>
        /\ kind = "prediction" => slock = "none"
    BY DEF SaveSettings, page
  <1>3. CASE Restore /\ Fail
    <2>1. PICK phase \in {"cancelled", "failed"} : Over(phase)
      BY <1>3, FailEffect
    <2>2. phase \in RecordPhases
      BY DEF RecordPhases
    <2>3. /\ gh'.asked = gh.asked /\ gh'.done = gh.done /\ gh'.by = gh.by
          /\ gh'.before = gh.before /\ gh'.choice = gh.choice
          /\ gh'.damaged \/ (dest' = backup /\ gh' = gh)
          /\ dest' \in {NoModel, dest, backup}
      BY <1>1, <1>3 DEF Restore, MemoryType
    <2> QED
      BY <1>2, <2>1, <2>2, <2>3, OverEffect
  <1> DEFINE Enable == IF kind = "zenzai" THEN att.enable ELSE IntentIsCurrent
  <1>4. CASE /\ gh' = IF Enable THEN [gh EXCEPT !.by = att.id] ELSE gh
             /\ ToAtt("success") /\ UNCHANGED <<dest, backup, record, slock, lease>>
    <2>1. att'.pc = "success" /\ AttemptKept /\ att'.enable = att.enable
      BY <1>1, <1>4 DEF ToAtt, AttemptKept, AttemptType
    <2>2. /\ gh'.asked = gh.asked /\ gh'.done = gh.done /\ gh'.damaged = gh.damaged
          /\ gh'.before = gh.before /\ gh'.choice = gh.choice
          /\ gh'.by = gh.by \/ (gh'.by = att.id /\ Enable)
      BY <1>1, <1>4 DEF MemoryType
    <2> QED
      BY <1>2, <1>4, <2>1, <2>2
  <1> QED
    BY <1>3, <1>4 DEF SaveSettings, files

(* The actions that disturb several conjuncts at once.                     *)
LEMMA AbsenceAfterMoveIn ==
  ASSUME TypeOK, Bookkeeping, Placement, Absence, MoveIn
  PROVE  Absence'
  <1>1. /\ engine' = engine /\ att'.pc \in {"save", "success", "over"}
        /\ lease' = lease \/ lease' = FALSE
    BY MoveInEffect
  <1> QED
    BY <1>1 DEF Absence

LEMMA AbsenceAfterSave ==
  ASSUME TypeOK, Bookkeeping, Placement, Absence, SaveSettings
  PROVE  Absence'
  <1>1. /\ engine' = engine /\ att'.pc \in {"success", "over"}
        /\ lease' = lease \/ lease' = FALSE
    BY SaveSettingsEffect
  <1> QED
    BY <1>1 DEF Absence

LEMMA OutcomeAfterCancelRecord ==
  ASSUME TypeOK, Bookkeeping, CancelIsSeen, Placement, AllOrNothing, CancelRecord
  PROVE  AllOrNothing'
  <1>1. /\ UNCHANGED <<kind, att, begun, dest>> /\ UNCHANGED <<gh.by, gh.before, gh.damaged>>
        /\ record'.id = record.id
        /\ record'.phase = record.phase \/ record.cancelable
    BY CancelRecordEffect
  <1> QED
    BY <1>1 DEF AllOrNothing, CancelIsSeen, Fetching

LEMMA SeenAfterCancelRecord ==
  ASSUME TypeOK, Bookkeeping, CancelIsSeen, CancelRecord
  PROVE  CancelIsSeen'
  <1>0. gh \in MemoryType
    BY DEF TypeOK
  <1>1. /\ UNCHANGED <<kind, att, begun, flag, gh.done>> /\ can'.pc = "intent" /\ can.pc = "record"
        /\ kind # "update"
    BY CancelRecordEffect DEF CancelIsSeen
  <1>2. /\ record'.cancelable => record.cancelable
        /\ record'.phase = "downloading" => record.phase = "downloading"
    BY CancelRecordEffect
  <1>3. CASE gh'.asked = gh.asked
    BY <1>1, <1>2, <1>3 DEF CancelIsSeen
  <1>4. CASE /\ gh'.asked = gh.asked \cup {can.id} /\ can.clean
             /\ record.id = can.id /\ record.cancelable
    <2>1. flag /\ att.pc \in Fetching \cup {"fetch", "launch"}
      BY <1>1, <1>4 DEF CancelIsSeen
    <2>2. att.id = can.id /\ att.id = begun /\ can.id # 0
      BY <1>4, <2>1 DEF Bookkeeping, Fetching, Starting
    <2>3. can.id \in 1..begun
      BY <2>2, Numbers
    <2> QED
      BY <1>1, <1>2, <1>4, <2>1, <2>2, <2>3 DEF CancelIsSeen, Starting, Fetching, Locked
  <1> QED
    BY <1>3, <1>4, CancelRecordEffect

LEMMA SeenAfterBeginRecord ==
  ASSUME TypeOK, Bookkeeping, CancelIsSeen, BeginRecord
  PROVE  CancelIsSeen'
  <1>0. att \in AttemptType 
    BY DEF TypeOK
  <1>1. /\ att.pc = "record" /\ att'.pc = "receive" /\ att'.id = att.id
        /\ record'.id = att.id /\ record'.phase = "downloading"
        /\ UNCHANGED <<kind, can, flag, begun, gh>>
    BY <1>0 DEF BeginRecord, ToAtt, AttemptType, page
  <1> QED
    BY <1>1, Numbers DEF CancelIsSeen, Bookkeeping, Starting, Fetching, Locked

LEMMA SeenAfterPlacing ==
  ASSUME TypeOK, Bookkeeping, CancelIsSeen, Placing
  PROVE  CancelIsSeen'
  <1>0. att \in AttemptType /\ record \in RecordType
    BY DEF TypeOK
  <1>1. /\ att.pc = "placing" /\ att'.pc \in {"lock", "moveOut"} /\ att'.id = att.id
        /\ att'.pc = "moveOut" => kind # "zenzai"
        /\ UNCHANGED <<kind, can, flag, begun, gh>>
    BY <1>0 DEF Placing, ToAtt, AttemptType, page
  <1>2. record'.id = record.id /\ record'.phase = "placing" /\ record'.cancelable = FALSE
    BY <1>0, <1>1 DEF Placing, SetPhase, RecordType, Bookkeeping, Starting
  <1>3. kind # "update"
    BY <1>1 DEF Bookkeeping, Updating
  <1> QED
    BY <1>1, <1>2, <1>3 DEF CancelIsSeen, Starting, Fetching, Locked, TypeOK, Kinds

LEMMA SeenAfterRunInstaller ==
  ASSUME TypeOK, Bookkeeping, CancelIsSeen, RunInstaller
  PROVE  CancelIsSeen'
  <1>0. gh \in MemoryType
    BY DEF TypeOK
  <1>1. att.pc = "run" /\ UNCHANGED <<kind, begun, flag, can>>
    BY DEF RunInstaller, page
  <1>2. PICK phase \in {"succeeded", "cancelled", "failed"} : Over(phase)
    BY FailEffect DEF RunInstaller
  <1>3. gh'.asked = gh.asked /\ gh'.done \subseteq gh.done \cup {att.id}
    BY <1>0 DEF RunInstaller, MemoryType
  <1>4. phase \in RecordPhases
    BY DEF RecordPhases
  <1>5. /\ att'.pc = "over" /\ att'.id = att.id
        /\ record'.phase # "downloading" /\ record'.cancelable = FALSE
    BY <1>1, <1>2, <1>4, OverEffect DEF AttemptKept, Bookkeeping, Starting
  <1>6. att.id \in 1..begun
    BY <1>1, Numbers DEF Bookkeeping
  <1> QED
    BY <1>1, <1>3, <1>5, <1>6 DEF CancelIsSeen, Starting, Fetching, Locked

LEMMA PlacementAfterBeginUpdate ==
  ASSUME TypeOK, Bookkeeping, Placement, BeginUpdate
  PROVE  Placement'
  <1>1. /\ att.pc = "idle" /\ att'.pc = "fetch" /\ att'.id = begun + 1 /\ begun' = begun + 1
        /\ record'.phase = "downloading" /\ begun < MaxAttempts
        /\ UNCHANGED <<kind, dest, backup, gh>>
    BY DEF BeginUpdate, IdleAttempt, files
  <1>2. gh.before # begun + 1
    BY <1>1, Numbers DEF Placement
  <1> QED
    BY <1>1, <1>2, Numbers DEF Placement, Untouched, Starting, Fetching

LEMMA PlacementAfterMoveIn ==
  ASSUME TypeOK, Bookkeeping, Placement, MoveIn
  PROVE  Placement'
  <1>0. att.pc = "moveIn" /\ att'.id = att.id /\ UNCHANGED <<kind, begun, gh.by, gh.before>>
    BY MoveInEffect DEF AttemptKept
  <1>1. att.id = begun
    BY <1>0 DEF Bookkeeping
  <1>2. CASE att'.pc \in {"save", "success"}
    <2>1. /\ dest' = att.id
          /\ backup' = backup
          /\ (record' = record \/ record'.phase = "activating")
      BY <1>2, MoveInEffect
    <2> QED
      BY <1>0, <1>1, <1>2, <2>1, Numbers DEF Placement, Untouched, Starting, Fetching
  <1>3. CASE att'.pc = "over"
    <2>1. dest' \in {NoModel, dest, backup}
      BY <1>3, MoveInEffect
    <2> QED
      BY <1>0, <1>1, <1>3, <2>1, Numbers DEF Placement, Untouched, Starting, Fetching
  <1> QED
    BY <1>2, <1>3, MoveInEffect

LEMMA PlacementAfterSave ==
  ASSUME TypeOK, Bookkeeping, Placement, SaveSettings
  PROVE  Placement'
  <1>0. att.pc = "save" /\ att'.id = att.id /\ UNCHANGED <<kind, begun, gh.before>>
    BY SaveSettingsEffect DEF AttemptKept
  <1>1. att.id = begun
    BY <1>0 DEF Bookkeeping
  <1>2. gh'.by \in {gh.by, att.id}
    BY SaveSettingsEffect
  <1>3. CASE att'.pc = "success"
    <2>1. dest' = dest /\ backup' = backup /\ record' = record
      BY <1>3, SaveSettingsEffect
    <2> QED
      BY <1>0, <1>1, <1>2, <1>3, <2>1, Numbers DEF Placement, Untouched, Starting, Fetching
  <1>4. CASE att'.pc = "over"
    <2>1. dest' \in {NoModel, dest, backup}
      BY <1>4, SaveSettingsEffect
    <2> QED
      BY <1>0, <1>1, <1>2, <1>4, <2>1, Numbers DEF Placement, Untouched, Starting, Fetching
  <1> QED
    BY <1>3, <1>4, SaveSettingsEffect

-----------------------------------------------------------------------------
(* One attempt at a time, and the record, the locks and the pages agree with it. *)
LEMMA BooksKept ==
  ASSUME TypeOK, Bookkeeping, Next
  PROVE  Bookkeeping'
  <1>0. att \in AttemptType /\ record \in RecordType /\ can \in CancelType /\ gh \in MemoryType
    BY DEF TypeOK
  <1>1. ASSUME NEW b \in BOOLEAN, Begin(b) PROVE Bookkeeping'
    BY <1>1, <1>0, Numbers DEF Begin, IdleAttempt, page, files, Bookkeeping, Starting,
       Fetching, Locked, Updating, AttemptType, MemoryType
  <1>2. CASE BeginUpdate
    BY <1>2, <1>0, Numbers DEF BeginUpdate, IdleAttempt, page, files, Bookkeeping,
       Starting, Fetching, Locked, Updating, AttemptType, RecordType
  <1>3. CASE Attempt
    <2>1. CASE ClearFlag
      BY <2>1, <1>0, Numbers DEF ClearFlag, ToAtt, files, Bookkeeping, Starting,
         Fetching, Locked, Updating, AttemptType, CancelType
    <2>2. CASE BeginIntent
      BY <2>2, Numbers, BeginIntentEffect DEF Bookkeeping, Starting, Fetching, Locked,
         Updating
    <2>3. CASE BeginRecord
      BY <2>3, <1>0, Numbers DEF BeginRecord, ToAtt, page, files, Bookkeeping, Starting,
         Fetching, Locked, Updating, AttemptType, RecordType
    <2>4. CASE Receive
      BY <2>4, <1>0, Numbers, ZenonT(60) DEF Receive, Cancelled, Over, SetPhase, FailedPhase, ToAtt,
         page, files, Bookkeeping, Starting, Fetching, Locked, Updating, AttemptType,
         RecordType
    <2>5. CASE Verify
      BY <2>5, <1>0, Numbers, ZenonT(60) DEF Verify, NoModel, ToAtt, SetPhase, Fail, Over,
         FailedPhase, page, files, Bookkeeping, Starting, Fetching, Locked, Updating,
         AttemptType, RecordType
    <2>6. CASE WaitForMaintenance
      BY <2>6, <1>0, Numbers, ZenonT(60) DEF WaitForMaintenance, Cancelled, Over, SetPhase,
         FailedPhase, ToAtt, Fail, page, files, Bookkeeping, Starting, Fetching, Locked,
         Updating, AttemptType, RecordType
    <2>7. CASE AcquireAbsence
      BY <2>7, <1>0, Numbers, ZenonT(60) DEF AcquireAbsence, ToAtt, Fail, Over, SetPhase,
         FailedPhase, page, files, Bookkeeping, Starting, Fetching, Locked, Updating,
         AttemptType, RecordType
    <2>8. CASE CheckFlag
      BY <2>8, <1>0, Numbers, ZenonT(60) DEF CheckFlag, Cancelled, Over, SetPhase, FailedPhase,
         ToAtt, page, files, Bookkeeping, Starting, Fetching, Locked, Updating,
         AttemptType, RecordType
    <2>9. CASE Placing
      BY <2>9, <1>0, Numbers DEF Placing, SetPhase, ToAtt, page, files, Bookkeeping,
         Starting, Fetching, Locked, Updating, AttemptType, RecordType
    <2>10. CASE LockSettings
      BY <2>10, <1>0, Numbers DEF LockSettings, Cancelled, Over, SetPhase, FailedPhase,
         ToAtt, page, files, Bookkeeping, Starting, Fetching, Locked, Updating,
         AttemptType, RecordType
    <2>11. CASE Decide
      BY <2>11, <1>0, Numbers DEF Decide, IntentIsCurrent, Fail, Over, SetPhase,
         FailedPhase, page, files, Bookkeeping, Starting, Fetching, Locked, Updating,
         AttemptType, RecordType
    <2>12. CASE MoveOut
      BY <2>12, <1>0, Numbers DEF MoveOut, NoModel, ToAtt, Fail, Over, SetPhase,
         FailedPhase, files, page, Bookkeeping, Starting, Fetching, Locked, Updating,
         AttemptType, RecordType
    <2>13. CASE MoveIn
      BY <2>13, Numbers, MoveInEffect DEF Bookkeeping, Starting, Fetching, Locked,
         Updating, AttemptKept
    <2>14. CASE SaveSettings
      BY <2>14, Numbers, SaveSettingsEffect DEF Bookkeeping, Starting, Fetching, Locked,
         Updating, AttemptKept, IntentIsCurrent
    <2>15. CASE Succeed
      BY <2>15, <1>0, Numbers DEF Succeed, Over, SetPhase, NoModel, page, Bookkeeping,
         Starting, Fetching, Locked, Updating, AttemptType, RecordType, MemoryType
    <2>16. CASE DropGuard
      BY <2>16, <1>0, Numbers DEF DropGuard, IdleAttempt, page, files, Bookkeeping,
         Starting, Fetching, Locked, Updating, AttemptType
    <2>17. CASE FetchInstaller
      BY <2>17, <1>0, Numbers DEF FetchInstaller, Cancelled, Over, SetPhase,
         FailedPhase, ToAtt, page, files, Bookkeeping, Starting, Fetching, Locked,
         Updating, AttemptType, RecordType
    <2>18. CASE BeginInstalling
      BY <2>18, <1>0, Numbers DEF BeginInstalling, Cancelled, Over, SetPhase,
         FailedPhase, ToAtt, page, files, Bookkeeping, Starting, Fetching, Locked,
         Updating, AttemptType, RecordType
    <2>19. CASE RunInstaller
      BY <2>19, <1>0, Numbers, ZenonT(60) DEF RunInstaller, Over, SetPhase, Fail, FailedPhase, page,
         files, Bookkeeping, Starting, Fetching, Locked, Updating, AttemptType,
         RecordType, MemoryType
    <2> QED
      BY <1>3, <2>1, <2>2, <2>3, <2>4, <2>5, <2>6, <2>7, <2>8, <2>9, <2>10, <2>11,
         <2>12, <2>13, <2>14, <2>15, <2>16, <2>17, <2>18, <2>19 DEF Attempt
  <1>4. CASE Cancellation
    <2>1. CASE CancelRecord
      BY <2>1, Numbers, CancelRecordEffect DEF Bookkeeping, Starting, Fetching, Locked,
         Updating
    <2> QED
      BY <1>4, <2>1 DEF Cancellation, CancelFlag, CancelIntent, Bookkeeping, Starting,
         Fetching, Locked, Updating, files
  <1>5. ASSUME NEW b \in BOOLEAN, PatchSave(b) PROVE Bookkeeping'
    BY <1>5, <1>0, Numbers DEF PatchSave, NoModel, files, Bookkeeping, Starting,
       Fetching, Locked, Updating, MemoryType
  <1>6. CASE PatchInvalidate
    BY <1>6, <1>0, Numbers DEF PatchInvalidate, files, Bookkeeping, Starting, Fetching,
       Locked, Updating
  <1> QED
    BY <1>1, <1>2, <1>3, <1>4, <1>5, <1>6 DEF Next, CancelCheck, CancelUpdate,
       EngineMoves, Bookkeeping, Starting, Fetching, Locked, Updating, files, page

(* A cancellation that was accepted is seen by the last look at the flag.  *)
LEMMA SeenKept ==
  ASSUME TypeOK, Bookkeeping, CancelIsSeen, Next
  PROVE  CancelIsSeen'
  <1>0. att \in AttemptType /\ record \in RecordType /\ can \in CancelType /\ gh \in MemoryType
    BY DEF TypeOK
  <1>1. ASSUME NEW b \in BOOLEAN, Begin(b) PROVE CancelIsSeen'
    BY <1>1, <1>0, Numbers DEF Begin, IdleAttempt, page, files, Bookkeeping,
       CancelIsSeen, Starting, Fetching, Locked, Updating, AttemptType, MemoryType
  <1>2. CASE BeginUpdate
    BY <1>2, <1>0, Numbers DEF BeginUpdate, IdleAttempt, page, files, Bookkeeping,
       CancelIsSeen, Starting, Fetching, Locked, Updating, AttemptType, RecordType
  <1>3. CASE Attempt
    <2>1. CASE ClearFlag
      BY <2>1, <1>0, Numbers DEF ClearFlag, ToAtt, files, Bookkeeping, CancelIsSeen,
         Starting, Fetching, Locked, Updating, AttemptType, CancelType
    <2>2. CASE BeginIntent
      BY <2>2, Numbers, BeginIntentEffect DEF Bookkeeping, CancelIsSeen, Starting,
         Fetching, Locked, Updating
    <2>3. CASE BeginRecord
      BY <2>3, SeenAfterBeginRecord
    <2>4. CASE Receive
      BY <2>4, <1>0, Numbers, ZenonT(60) DEF Receive, Cancelled, Over, SetPhase, FailedPhase, ToAtt,
         page, files, Bookkeeping, CancelIsSeen, Starting, Fetching, Locked, Updating,
         AttemptType, RecordType
    <2>5. CASE Verify
      BY <2>5, <1>0, Numbers, ZenonT(60) DEF Verify, NoModel, ToAtt, SetPhase, Fail, Over,
         FailedPhase, page, files, Bookkeeping, CancelIsSeen, Starting, Fetching,
         Locked, Updating, AttemptType, RecordType
    <2>6. CASE WaitForMaintenance
      BY <2>6, <1>0, Numbers, ZenonT(60) DEF WaitForMaintenance, Cancelled, Over, SetPhase,
         FailedPhase, ToAtt, Fail, page, files, Bookkeeping, CancelIsSeen, Starting,
         Fetching, Locked, Updating, AttemptType, RecordType
    <2>7. CASE AcquireAbsence
      BY <2>7, <1>0, Numbers, ZenonT(60) DEF AcquireAbsence, ToAtt, Fail, Over, SetPhase,
         FailedPhase, page, files, Bookkeeping, CancelIsSeen, Starting, Fetching,
         Locked, Updating, AttemptType, RecordType
    <2>8. CASE CheckFlag
      BY <2>8, <1>0, Numbers DEF CheckFlag, Cancelled, Over, SetPhase, FailedPhase,
         ToAtt, page, files, Bookkeeping, CancelIsSeen, Starting, Fetching, Locked,
         Updating, AttemptType, RecordType
    <2>9. CASE Placing
      BY <2>9, SeenAfterPlacing
    <2>10. CASE LockSettings
      BY <2>10, <1>0, Numbers DEF LockSettings, Cancelled, Over, SetPhase, FailedPhase,
         ToAtt, page, files, Bookkeeping, CancelIsSeen, Starting, Fetching, Locked,
         Updating, AttemptType, RecordType
    <2>11. CASE Decide
      BY <2>11, <1>0, Numbers DEF Decide, IntentIsCurrent, Fail, Over, SetPhase,
         FailedPhase, page, files, Bookkeeping, CancelIsSeen, Starting, Fetching,
         Locked, Updating, AttemptType, RecordType
    <2>12. CASE MoveOut
      BY <2>12, <1>0, Numbers, ZenonT(60) DEF MoveOut, NoModel, ToAtt, Fail, Over, SetPhase,
         FailedPhase, files, page, Bookkeeping, CancelIsSeen, Starting, Fetching,
         Locked, Updating, AttemptType, RecordType
    <2>13. CASE MoveIn
      BY <2>13, Numbers, MoveInEffect DEF Bookkeeping, CancelIsSeen, Starting, Fetching,
         Locked, Updating, AttemptKept
    <2>14. CASE SaveSettings
      BY <2>14, Numbers, SaveSettingsEffect DEF Bookkeeping, CancelIsSeen, Starting,
         Fetching, Locked, Updating, AttemptKept, IntentIsCurrent
    <2>15. CASE Succeed
      BY <2>15, <1>0, Numbers DEF Succeed, Over, SetPhase, NoModel, page, Bookkeeping,
         CancelIsSeen, Starting, Fetching, Locked, Updating, AttemptType, RecordType,
         MemoryType
    <2>16. CASE DropGuard
      BY <2>16, <1>0, Numbers DEF DropGuard, IdleAttempt, page, files, Bookkeeping,
         CancelIsSeen, Starting, Fetching, Locked, Updating, AttemptType
    <2>17. CASE FetchInstaller
      BY <2>17, <1>0, Numbers, ZenonT(60) DEF FetchInstaller, Cancelled, Over, SetPhase,
         FailedPhase, ToAtt, page, files, Bookkeeping, CancelIsSeen, Starting, Fetching,
         Locked, Updating, AttemptType, RecordType
    <2>18. CASE BeginInstalling
      BY <2>18, <1>0, Numbers DEF BeginInstalling, Cancelled, Over, SetPhase,
         FailedPhase, ToAtt, page, files, Bookkeeping, CancelIsSeen, Starting, Fetching,
         Locked, Updating, AttemptType, RecordType
    <2>19. CASE RunInstaller
      BY <2>19, SeenAfterRunInstaller
    <2> QED
      BY <1>3, <2>1, <2>2, <2>3, <2>4, <2>5, <2>6, <2>7, <2>8, <2>9, <2>10, <2>11,
         <2>12, <2>13, <2>14, <2>15, <2>16, <2>17, <2>18, <2>19 DEF Attempt
  <1>4. CASE CancelCheck
    BY <1>4, <1>0, Numbers DEF CancelCheck, files, Bookkeeping, CancelIsSeen, Starting,
       Fetching, Locked, Updating, CancelType
  <1>5. CASE Cancellation
    <2>1. CASE CancelFlag
      BY <2>1, <1>0, Numbers DEF CancelFlag, files, Bookkeeping, CancelIsSeen, Starting,
         Fetching, Locked, Updating, CancelType
    <2>2. CASE CancelRecord
      BY <2>2, SeenAfterCancelRecord
    <2>3. CASE CancelIntent
      BY <2>3, <1>0, Numbers DEF CancelIntent, IdleCancel, files, Bookkeeping,
         CancelIsSeen, Starting, Fetching, Locked, Updating, CancelType
    <2> QED
      BY <1>5, <2>1, <2>2, <2>3 DEF Cancellation
  <1>6. CASE CancelUpdate
    BY <1>6, <1>0, Numbers DEF CancelUpdate, files, Bookkeeping, CancelIsSeen, Starting,
       Fetching, Locked, Updating, MemoryType
  <1>7. ASSUME NEW b \in BOOLEAN, PatchSave(b) PROVE CancelIsSeen'
    BY <1>7, <1>0, Numbers DEF PatchSave, NoModel, files, Bookkeeping, CancelIsSeen,
       Starting, Fetching, Locked, Updating, MemoryType
  <1> QED
    BY <1>1, <1>2, <1>3, <1>4, <1>5, <1>6, <1>7 DEF Next, PatchInvalidate, EngineMoves,
       Bookkeeping, CancelIsSeen, Starting, Fetching, Locked, Updating, files, page

(* The old and the new model are where the attempt's place says.           *)
LEMMA PlacementKept ==
  ASSUME TypeOK, Bookkeeping, Placement, Next
  PROVE  Placement'
  <1>0. att \in AttemptType /\ record \in RecordType /\ can \in CancelType /\ gh \in MemoryType
    BY DEF TypeOK
  <1>1. ASSUME NEW b \in BOOLEAN, Begin(b) PROVE Placement'
    BY <1>1, <1>0, Numbers DEF Begin, IdleAttempt, page, files, Bookkeeping, Placement,
       Untouched, Starting, Fetching, Locked, Updating, AttemptType, MemoryType
  <1>2. CASE BeginUpdate
    BY <1>2, PlacementAfterBeginUpdate
  <1>3. CASE Attempt
    <2>1. CASE ClearFlag
      BY <2>1, <1>0, Numbers DEF ClearFlag, ToAtt, files, Bookkeeping, Placement,
         Untouched, Starting, Fetching, Locked, Updating, AttemptType, CancelType
    <2>2. CASE BeginIntent
      BY <2>2, Numbers, BeginIntentEffect DEF Bookkeeping, Placement, Untouched,
         Starting, Fetching, Locked, Updating
    <2>3. CASE BeginRecord
      BY <2>3, <1>0, Numbers DEF BeginRecord, ToAtt, page, files, Bookkeeping,
         Placement, Untouched, Starting, Fetching, Locked, Updating, AttemptType,
         RecordType
    <2>4. CASE Receive
      BY <2>4, <1>0, Numbers DEF Receive, Cancelled, Over, SetPhase, FailedPhase, ToAtt,
         page, files, Bookkeeping, Placement, Untouched, Starting, Fetching, Locked,
         Updating, AttemptType, RecordType
    <2>5. CASE Verify
      BY <2>5, <1>0, Numbers DEF Verify, NoModel, ToAtt, SetPhase, Fail, Over,
         FailedPhase, page, files, Bookkeeping, Placement, Untouched, Starting,
         Fetching, Locked, Updating, AttemptType, RecordType
    <2>6. CASE WaitForMaintenance
      BY <2>6, <1>0, Numbers DEF WaitForMaintenance, Cancelled, Over, SetPhase,
         FailedPhase, ToAtt, Fail, page, files, Bookkeeping, Placement, Untouched,
         Starting, Fetching, Locked, Updating, AttemptType, RecordType
    <2>7. CASE AcquireAbsence
      BY <2>7, <1>0, Numbers DEF AcquireAbsence, ToAtt, Fail, Over, SetPhase,
         FailedPhase, page, files, Bookkeeping, Placement, Untouched, Starting,
         Fetching, Locked, Updating, AttemptType, RecordType
    <2>8. CASE CheckFlag
      BY <2>8, <1>0, Numbers DEF CheckFlag, Cancelled, Over, SetPhase, FailedPhase,
         ToAtt, page, files, Bookkeeping, Placement, Untouched, Starting, Fetching,
         Locked, Updating, AttemptType, RecordType
    <2>9. CASE Placing
      BY <2>9, <1>0, Numbers DEF Placing, SetPhase, ToAtt, page, files, Bookkeeping,
         Placement, Untouched, Starting, Fetching, Locked, Updating, AttemptType,
         RecordType
    <2>10. CASE LockSettings
      BY <2>10, <1>0, Numbers DEF LockSettings, Cancelled, Over, SetPhase, FailedPhase,
         ToAtt, page, files, Bookkeeping, Placement, Untouched, Starting, Fetching,
         Locked, Updating, AttemptType, RecordType
    <2>11. CASE Decide
      BY <2>11, <1>0, Numbers DEF Decide, IntentIsCurrent, Fail, Over, SetPhase,
         FailedPhase, page, files, Bookkeeping, Placement, Untouched, Starting,
         Fetching, Locked, Updating, AttemptType, RecordType
    <2>12. CASE MoveOut
      BY <2>12, <1>0, Numbers DEF MoveOut, NoModel, ToAtt, Fail, Over, SetPhase,
         FailedPhase, files, page, Bookkeeping, Placement, Untouched, Starting,
         Fetching, Locked, Updating, AttemptType, RecordType
    <2>13. CASE MoveIn
      BY <2>13, PlacementAfterMoveIn
    <2>14. CASE SaveSettings
      BY <2>14, PlacementAfterSave
    <2>15. CASE Succeed
      BY <2>15, <1>0, Numbers DEF Succeed, Over, SetPhase, NoModel, page, Bookkeeping,
         Placement, Untouched, Starting, Fetching, Locked, Updating, AttemptType,
         RecordType, MemoryType
    <2>16. CASE DropGuard
      BY <2>16, <1>0, Numbers DEF DropGuard, IdleAttempt, page, files, Bookkeeping,
         Placement, Untouched, Starting, Fetching, Locked, Updating, AttemptType
    <2>17. CASE FetchInstaller
      BY <2>17, <1>0, Numbers DEF FetchInstaller, Cancelled, Over, SetPhase,
         FailedPhase, ToAtt, page, files, Bookkeeping, Placement, Untouched, Starting,
         Fetching, Locked, Updating, AttemptType, RecordType
    <2>18. CASE BeginInstalling
      BY <2>18, <1>0, Numbers, ZenonT(60) DEF BeginInstalling, Cancelled, Over, SetPhase,
         FailedPhase, ToAtt, page, files, Bookkeeping, Placement, Untouched, Starting,
         Fetching, Locked, Updating, AttemptType, RecordType
    <2>19. CASE RunInstaller
      BY <2>19, <1>0, Numbers DEF RunInstaller, Over, SetPhase, Fail, FailedPhase, page,
         files, Bookkeeping, Placement, Untouched, Starting, Fetching, Locked, Updating,
         AttemptType, RecordType, MemoryType
    <2> QED
      BY <1>3, <2>1, <2>2, <2>3, <2>4, <2>5, <2>6, <2>7, <2>8, <2>9, <2>10, <2>11,
         <2>12, <2>13, <2>14, <2>15, <2>16, <2>17, <2>18, <2>19 DEF Attempt
  <1>4. CASE Cancellation
    <2>1. CASE CancelRecord
      BY <2>1, Numbers, CancelRecordEffect DEF Bookkeeping, Placement, Untouched,
         Starting, Fetching, Locked, Updating
    <2> QED
      BY <1>4, <2>1 DEF Cancellation, CancelFlag, CancelIntent, Bookkeeping, Placement,
         Untouched, Starting, Fetching, Locked, Updating, files
  <1>5. CASE CancelUpdate
    BY <1>5, <1>0, Numbers DEF CancelUpdate, files, Bookkeeping, Placement, Untouched,
       Starting, Fetching, Locked, Updating, MemoryType
  <1>6. ASSUME NEW b \in BOOLEAN, PatchSave(b) PROVE Placement'
    BY <1>6, <1>0, Numbers DEF PatchSave, NoModel, files, Bookkeeping, Placement,
       Untouched, Starting, Fetching, Locked, Updating, MemoryType
  <1> QED
    BY <1>1, <1>2, <1>3, <1>4, <1>5, <1>6 DEF Next, CancelCheck, PatchInvalidate,
       EngineMoves, Bookkeeping, Placement, Untouched, Starting, Fetching, Locked,
       Updating, files, page

(* From the check on, the engine is away or there was no model.            *)
LEMMA AbsenceKept ==
  ASSUME TypeOK, Bookkeeping, Placement, Absence, Next
  PROVE  Absence'
  <1>0. att \in AttemptType /\ record \in RecordType /\ can \in CancelType /\ gh \in MemoryType
    BY DEF TypeOK
  <1>1. ASSUME NEW b \in BOOLEAN, Begin(b) PROVE Absence'
    BY <1>1, <1>0, Numbers DEF Begin, IdleAttempt, page, files, Absence, AttemptType,
       MemoryType
  <1>2. CASE BeginUpdate
    BY <1>2, <1>0, Numbers DEF BeginUpdate, IdleAttempt, page, files, Absence,
       AttemptType, RecordType
  <1>3. CASE Attempt
    <2>1. CASE ClearFlag
      BY <2>1, <1>0, Numbers DEF ClearFlag, ToAtt, files, Absence, AttemptType,
         CancelType
    <2>2. CASE BeginIntent
      BY <2>2, Numbers, BeginIntentEffect DEF Absence
    <2>3. CASE BeginRecord
      BY <2>3, <1>0, Numbers DEF BeginRecord, ToAtt, page, files, Absence, AttemptType,
         RecordType
    <2>4. CASE Receive
      BY <2>4, <1>0, Numbers DEF Receive, Cancelled, Over, SetPhase, ToAtt, page, files,
         Absence, AttemptType, RecordType
    <2>5. CASE Verify
      BY <2>5, <1>0, Numbers DEF Verify, NoModel, ToAtt, SetPhase, Fail, Over, page,
         files, Absence, AttemptType, RecordType
    <2>6. CASE WaitForMaintenance
      BY <2>6, <1>0, Numbers DEF WaitForMaintenance, Cancelled, Over, SetPhase, ToAtt,
         Fail, page, files, Absence, AttemptType, RecordType
    <2>7. CASE AcquireAbsence
      BY <2>7, <1>0, Numbers DEF AcquireAbsence, ToAtt, Fail, Over, SetPhase, page,
         files, Absence, AttemptType, RecordType
    <2>8. CASE CheckFlag
      BY <2>8, <1>0, Numbers DEF CheckFlag, Cancelled, Over, SetPhase, ToAtt, page,
         files, Absence, AttemptType, RecordType
    <2>9. CASE Placing
      BY <2>9, <1>0, Numbers DEF Placing, SetPhase, ToAtt, page, files, Absence,
         AttemptType, RecordType
    <2>10. CASE LockSettings
      BY <2>10, <1>0, Numbers DEF LockSettings, Cancelled, Over, SetPhase, ToAtt, page,
         files, Absence, AttemptType, RecordType
    <2>11. CASE Decide
      BY <2>11, <1>0, Numbers DEF Decide, IntentIsCurrent, Fail, Over, SetPhase, page,
         files, Absence, AttemptType, RecordType
    <2>12. CASE MoveOut
      BY <2>12, <1>0, Numbers DEF MoveOut, NoModel, ToAtt, Fail, Over, SetPhase, files,
         page, Absence, AttemptType, RecordType
    <2>13. CASE MoveIn
      BY <2>13, AbsenceAfterMoveIn
    <2>14. CASE SaveSettings
      BY <2>14, AbsenceAfterSave
    <2>15. CASE Succeed
      BY <2>15, <1>0, Numbers DEF Succeed, Over, SetPhase, NoModel, page, Absence,
         AttemptType, RecordType, MemoryType
    <2>16. CASE DropGuard
      BY <2>16, <1>0, Numbers DEF DropGuard, IdleAttempt, page, files, Absence,
         AttemptType
    <2>17. CASE FetchInstaller
      BY <2>17, <1>0, Numbers DEF FetchInstaller, Cancelled, Over, SetPhase, ToAtt,
         page, files, Absence, AttemptType, RecordType
    <2>18. CASE BeginInstalling
      BY <2>18, <1>0, Numbers DEF BeginInstalling, Cancelled, Over, SetPhase, ToAtt,
         page, files, Absence, AttemptType, RecordType
    <2>19. CASE RunInstaller
      BY <2>19, <1>0, Numbers DEF RunInstaller, Over, SetPhase, Fail, page, files,
         Absence, AttemptType, RecordType, MemoryType
    <2> QED
      BY <1>3, <2>1, <2>2, <2>3, <2>4, <2>5, <2>6, <2>7, <2>8, <2>9, <2>10, <2>11,
         <2>12, <2>13, <2>14, <2>15, <2>16, <2>17, <2>18, <2>19 DEF Attempt
  <1>4. ASSUME NEW b \in BOOLEAN, PatchSave(b) PROVE Absence'
    BY <1>4 DEF PatchSave, Absence, files
  <1>5. CASE EngineMoves
    BY <1>5, <1>0, Numbers DEF EngineMoves, page, files, Absence
  <1> QED
    BY <1>1, <1>2, <1>3, <1>4, <1>5 DEF Next, CancelCheck, Cancellation, CancelFlag,
       CancelRecord, CancelIntent, CancelUpdate, PatchInvalidate, Absence, files

(* A current intent is the latest choice.                                  *)
LEMMA IntentKept ==
  ASSUME TypeOK, Bookkeeping, Intent, Next
  PROVE  Intent'
  <1>0. att \in AttemptType /\ record \in RecordType /\ can \in CancelType /\ gh \in MemoryType
    BY DEF TypeOK
  <1>1. ASSUME NEW b \in BOOLEAN, Begin(b) PROVE Intent'
    BY <1>1, <1>0, Numbers DEF Begin, IdleAttempt, page, files, Bookkeeping, Intent,
       Starting, Fetching, Locked, Updating, AttemptType, MemoryType
  <1>2. CASE BeginUpdate
    BY <1>2, <1>0, Numbers DEF BeginUpdate, IdleAttempt, page, files, Bookkeeping,
       Intent, Starting, Fetching, Locked, Updating, AttemptType, RecordType
  <1>3. CASE Attempt
    <2>1. CASE ClearFlag
      BY <2>1, <1>0, Numbers DEF ClearFlag, ToAtt, files, Bookkeeping, Intent, Starting,
         Fetching, Locked, Updating, AttemptType, CancelType
    <2>2. CASE BeginIntent
      BY <2>2, Numbers, BeginIntentEffect DEF Bookkeeping, Intent, Starting, Fetching,
         Locked, Updating
    <2>3. CASE BeginRecord
      BY <2>3, <1>0, Numbers DEF BeginRecord, ToAtt, page, files, Bookkeeping, Intent,
         Starting, Fetching, Locked, Updating, AttemptType, RecordType
    <2>4. CASE Receive
      BY <2>4, <1>0, Numbers DEF Receive, Cancelled, Over, SetPhase, ToAtt, page, files,
         Bookkeeping, Intent, Starting, Fetching, Locked, Updating, AttemptType,
         RecordType
    <2>5. CASE Verify
      BY <2>5, <1>0, Numbers DEF Verify, NoModel, ToAtt, SetPhase, Fail, Over, page,
         files, Bookkeeping, Intent, Starting, Fetching, Locked, Updating, AttemptType,
         RecordType
    <2>6. CASE WaitForMaintenance
      BY <2>6, <1>0, Numbers DEF WaitForMaintenance, Cancelled, Over, SetPhase, ToAtt,
         Fail, page, files, Bookkeeping, Intent, Starting, Fetching, Locked, Updating,
         AttemptType, RecordType
    <2>7. CASE AcquireAbsence
      BY <2>7, <1>0, Numbers DEF AcquireAbsence, ToAtt, Fail, Over, SetPhase, page,
         files, Bookkeeping, Intent, Starting, Fetching, Locked, Updating, AttemptType,
         RecordType
    <2>8. CASE CheckFlag
      BY <2>8, <1>0, Numbers DEF CheckFlag, Cancelled, Over, SetPhase, ToAtt, page,
         files, Bookkeeping, Intent, Starting, Fetching, Locked, Updating, AttemptType,
         RecordType
    <2>9. CASE Placing
      BY <2>9, <1>0, Numbers DEF Placing, SetPhase, ToAtt, page, files, Bookkeeping,
         Intent, Starting, Fetching, Locked, Updating, AttemptType, RecordType
    <2>10. CASE LockSettings
      BY <2>10, <1>0, Numbers DEF LockSettings, Cancelled, Over, SetPhase, ToAtt, page,
         files, Bookkeeping, Intent, Starting, Fetching, Locked, Updating, AttemptType,
         RecordType
    <2>11. CASE Decide
      BY <2>11, <1>0, Numbers DEF Decide, IntentIsCurrent, Fail, Over, SetPhase, page,
         files, Bookkeeping, Intent, Starting, Fetching, Locked, Updating, AttemptType,
         RecordType
    <2>12. CASE MoveOut
      BY <2>12, <1>0, Numbers DEF MoveOut, NoModel, ToAtt, Fail, Over, SetPhase, files,
         page, Bookkeeping, Intent, Starting, Fetching, Locked, Updating, AttemptType,
         RecordType
    <2>13. CASE MoveIn
      BY <2>13, Numbers, MoveInEffect DEF Bookkeeping, Intent, Starting, Fetching,
         Locked, Updating, AttemptKept
    <2>14. CASE SaveSettings
      BY <2>14, Numbers, SaveSettingsEffect DEF Bookkeeping, Intent, Starting, Fetching,
         Locked, Updating, AttemptKept, IntentIsCurrent
    <2>15. CASE Succeed
      BY <2>15, <1>0, Numbers DEF Succeed, Over, SetPhase, NoModel, page, Bookkeeping,
         Intent, Starting, Fetching, Locked, Updating, AttemptType, RecordType,
         MemoryType
    <2>16. CASE DropGuard
      BY <2>16, <1>0, Numbers DEF DropGuard, IdleAttempt, page, files, Bookkeeping,
         Intent, Starting, Fetching, Locked, Updating, AttemptType
    <2>17. CASE FetchInstaller
      BY <2>17, <1>0, Numbers DEF FetchInstaller, Cancelled, Over, SetPhase, ToAtt,
         page, files, Bookkeeping, Intent, Starting, Fetching, Locked, Updating,
         AttemptType, RecordType
    <2>18. CASE BeginInstalling
      BY <2>18, <1>0, Numbers DEF BeginInstalling, Cancelled, Over, SetPhase, ToAtt,
         page, files, Bookkeeping, Intent, Starting, Fetching, Locked, Updating,
         AttemptType, RecordType
    <2>19. CASE RunInstaller
      BY <2>19, <1>0, Numbers DEF RunInstaller, Over, SetPhase, Fail, page, files,
         Bookkeeping, Intent, Starting, Fetching, Locked, Updating, AttemptType,
         RecordType, MemoryType
    <2> QED
      BY <1>3, <2>1, <2>2, <2>3, <2>4, <2>5, <2>6, <2>7, <2>8, <2>9, <2>10, <2>11,
         <2>12, <2>13, <2>14, <2>15, <2>16, <2>17, <2>18, <2>19 DEF Attempt
  <1>4. CASE Cancellation
    <2>1. CASE CancelRecord
      BY <2>1, Numbers, CancelRecordEffect DEF Bookkeeping, Intent, Starting, Fetching,
         Locked, Updating
    <2>2. CASE CancelIntent
      BY <2>2, <1>0, Numbers DEF CancelIntent, IdleCancel, files, Bookkeeping, Intent,
         Starting, Fetching, Locked, Updating, CancelType
    <2> QED
      BY <1>4, <2>1, <2>2 DEF Cancellation, CancelFlag, Bookkeeping, Intent, Starting,
         Fetching, Locked, Updating, files
  <1>5. CASE CancelUpdate
    BY <1>5, <1>0, Numbers DEF CancelUpdate, files, Bookkeeping, Intent, Starting,
       Fetching, Locked, Updating, MemoryType
  <1>6. ASSUME NEW b \in BOOLEAN, PatchSave(b) PROVE Intent'
    BY <1>6, <1>0, Numbers DEF PatchSave, NoModel, files, Bookkeeping, Intent, Starting,
       Fetching, Locked, Updating, MemoryType
  <1>7. CASE PatchInvalidate
    BY <1>7, <1>0, Numbers DEF PatchInvalidate, files, Bookkeeping, Intent, Starting,
       Fetching, Locked, Updating
  <1> QED
    BY <1>1, <1>2, <1>3, <1>4, <1>5, <1>6, <1>7 DEF Next, CancelCheck, EngineMoves,
       Bookkeeping, Intent, Starting, Fetching, Locked, Updating, files, page

(* The outcome an operation ended with stays true.                         *)
LEMMA AllKept ==
  ASSUME TypeOK, Bookkeeping, CancelIsSeen, Placement, AllOrNothing, Next
  PROVE  AllOrNothing'
  <1>0. att \in AttemptType /\ record \in RecordType /\ can \in CancelType /\ gh \in MemoryType
    BY DEF TypeOK
  <1>1. ASSUME NEW b \in BOOLEAN, Begin(b) PROVE AllOrNothing'
    BY <1>1, <1>0, Numbers DEF Begin, IdleAttempt, page, files, Bookkeeping, Placement,
       AllOrNothing, Untouched, Starting, Fetching, Locked, Updating, AttemptType,
       MemoryType
  <1>2. CASE BeginUpdate
    BY <1>2, <1>0, Numbers DEF BeginUpdate, IdleAttempt, page, files, Bookkeeping,
       Placement, AllOrNothing, Untouched, Starting, Fetching, Locked, Updating,
       AttemptType, RecordType
  <1>3. CASE Attempt
    <2>1. CASE ClearFlag
      BY <2>1, <1>0, Numbers DEF ClearFlag, ToAtt, files, Bookkeeping, Placement,
         AllOrNothing, Untouched, Starting, Fetching, Locked, Updating, AttemptType,
         CancelType
    <2>2. CASE BeginIntent
      BY <2>2, Numbers, BeginIntentEffect DEF Bookkeeping, Placement, AllOrNothing,
         Untouched, Starting, Fetching, Locked, Updating
    <2>3. CASE BeginRecord
      BY <2>3, <1>0, Numbers DEF BeginRecord, ToAtt, page, files, Bookkeeping,
         Placement, AllOrNothing, Untouched, Starting, Fetching, Locked, Updating,
         AttemptType, RecordType
    <2>4. CASE Receive
      BY <2>4, <1>0, Numbers DEF Receive, Cancelled, Over, SetPhase, FailedPhase, ToAtt,
         page, files, Bookkeeping, Placement, AllOrNothing, Untouched, Starting,
         Fetching, Locked, Updating, AttemptType, RecordType
    <2>5. CASE Verify
      BY <2>5, <1>0, Numbers DEF Verify, NoModel, ToAtt, SetPhase, Fail, Over,
         FailedPhase, page, files, Bookkeeping, Placement, AllOrNothing, Untouched,
         Starting, Fetching, Locked, Updating, AttemptType, RecordType
    <2>6. CASE WaitForMaintenance
      BY <2>6, <1>0, Numbers DEF WaitForMaintenance, Cancelled, Over, SetPhase,
         FailedPhase, ToAtt, Fail, page, files, Bookkeeping, Placement, AllOrNothing,
         Untouched, Starting, Fetching, Locked, Updating, AttemptType, RecordType
    <2>7. CASE AcquireAbsence
      BY <2>7, <1>0, Numbers DEF AcquireAbsence, ToAtt, Fail, Over, SetPhase,
         FailedPhase, page, files, Bookkeeping, Placement, AllOrNothing, Untouched,
         Starting, Fetching, Locked, Updating, AttemptType, RecordType
    <2>8. CASE CheckFlag
      BY <2>8, <1>0, Numbers DEF CheckFlag, Cancelled, Over, SetPhase, FailedPhase,
         ToAtt, page, files, Bookkeeping, Placement, AllOrNothing, Untouched, Starting,
         Fetching, Locked, Updating, AttemptType, RecordType
    <2>9. CASE Placing
      BY <2>9, <1>0, Numbers DEF Placing, SetPhase, ToAtt, page, files, Bookkeeping,
         Placement, AllOrNothing, Untouched, Starting, Fetching, Locked, Updating,
         AttemptType, RecordType
    <2>10. CASE LockSettings
      BY <2>10, <1>0, Numbers DEF LockSettings, Cancelled, Over, SetPhase, FailedPhase,
         ToAtt, page, files, Bookkeeping, Placement, AllOrNothing, Untouched, Starting,
         Fetching, Locked, Updating, AttemptType, RecordType
    <2>11. CASE Decide
      BY <2>11, <1>0, Numbers DEF Decide, IntentIsCurrent, Fail, Over, SetPhase,
         FailedPhase, page, files, Bookkeeping, Placement, AllOrNothing, Untouched,
         Starting, Fetching, Locked, Updating, AttemptType, RecordType
    <2>12. CASE MoveOut
      BY <2>12, <1>0, Numbers DEF MoveOut, NoModel, ToAtt, Fail, Over, SetPhase,
         FailedPhase, files, page, Bookkeeping, Placement, AllOrNothing, Untouched,
         Starting, Fetching, Locked, Updating, AttemptType, RecordType
    <2>13. CASE MoveIn
      BY <2>13, Numbers, MoveInEffect DEF Bookkeeping, Placement, AllOrNothing,
         Untouched, Starting, Fetching, Locked, Updating, AttemptKept
    <2>14. CASE SaveSettings
      BY <2>14, Numbers, SaveSettingsEffect DEF Bookkeeping, Placement, AllOrNothing,
         Untouched, Starting, Fetching, Locked, Updating, AttemptKept, IntentIsCurrent
    <2>15. CASE Succeed
      BY <2>15, <1>0, Numbers DEF Succeed, Over, SetPhase, NoModel, page, Bookkeeping,
         Placement, AllOrNothing, Untouched, Starting, Fetching, Locked, Updating,
         AttemptType, RecordType, MemoryType
    <2>16. CASE DropGuard
      BY <2>16, <1>0, Numbers DEF DropGuard, IdleAttempt, page, files, Bookkeeping,
         Placement, AllOrNothing, Untouched, Starting, Fetching, Locked, Updating,
         AttemptType
    <2>17. CASE FetchInstaller
      BY <2>17, <1>0, Numbers DEF FetchInstaller, Cancelled, Over, SetPhase,
         FailedPhase, ToAtt, page, files, Bookkeeping, Placement, AllOrNothing,
         Untouched, Starting, Fetching, Locked, Updating, AttemptType, RecordType
    <2>18. CASE BeginInstalling
      BY <2>18, <1>0, Numbers DEF BeginInstalling, Cancelled, Over, SetPhase,
         FailedPhase, ToAtt, page, files, Bookkeeping, Placement, AllOrNothing,
         Untouched, Starting, Fetching, Locked, Updating, AttemptType, RecordType
    <2>19. CASE RunInstaller
      BY <2>19, <1>0, Numbers DEF RunInstaller, Over, SetPhase, Fail, FailedPhase, page,
         files, Bookkeeping, Placement, AllOrNothing, Untouched, Starting, Fetching,
         Locked, Updating, AttemptType, RecordType, MemoryType
    <2> QED
      BY <1>3, <2>1, <2>2, <2>3, <2>4, <2>5, <2>6, <2>7, <2>8, <2>9, <2>10, <2>11,
         <2>12, <2>13, <2>14, <2>15, <2>16, <2>17, <2>18, <2>19 DEF Attempt
  <1>4. CASE Cancellation
    <2>1. CASE CancelRecord
      BY <2>1, OutcomeAfterCancelRecord
    <2> QED
      BY <1>4, <2>1 DEF Cancellation, CancelFlag, CancelIntent, Bookkeeping, Placement,
         AllOrNothing, Untouched, Starting, Fetching, Locked, Updating, files
  <1>5. CASE CancelUpdate
    BY <1>5, <1>0, Numbers DEF CancelUpdate, files, Bookkeeping, Placement,
       AllOrNothing, Untouched, Starting, Fetching, Locked, Updating, MemoryType
  <1>6. ASSUME NEW b \in BOOLEAN, PatchSave(b) PROVE AllOrNothing'
    BY <1>6, <1>0, Numbers DEF PatchSave, NoModel, files, Bookkeeping, Placement,
       AllOrNothing, Untouched, Starting, Fetching, Locked, Updating, MemoryType
  <1> QED
    BY <1>1, <1>2, <1>3, <1>4, <1>5, <1>6 DEF Next, CancelCheck, PatchInvalidate,
       EngineMoves, Bookkeeping, Placement, AllOrNothing, Untouched, Starting, Fetching,
       Locked, Updating, files, page

(* Nothing that was cancelled gets done.                                   *)
LEMMA FinalKept ==
  ASSUME TypeOK, Bookkeeping, CancelIsSeen, CancelIsFinal, Next
  PROVE  CancelIsFinal'
  <1>0. att \in AttemptType /\ record \in RecordType /\ can \in CancelType /\ gh \in MemoryType
    BY DEF TypeOK
  <1>1. ASSUME NEW b \in BOOLEAN, Begin(b) PROVE CancelIsFinal'
    BY <1>1, <1>0, Numbers DEF Begin, IdleAttempt, page, files, Bookkeeping,
       CancelIsSeen, CancelIsFinal, Starting, Fetching, Locked, Updating, AttemptType,
       MemoryType
  <1>2. CASE Attempt
    <2>1. CASE BeginIntent
      BY <2>1, Numbers, BeginIntentEffect DEF Bookkeeping, CancelIsSeen, CancelIsFinal,
         Starting, Fetching, Locked, Updating
    <2>2. CASE MoveIn
      BY <2>2, Numbers, MoveInEffect DEF Bookkeeping, CancelIsSeen, CancelIsFinal,
         Starting, Fetching, Locked, Updating, AttemptKept
    <2>3. CASE SaveSettings
      BY <2>3, Numbers, SaveSettingsEffect DEF Bookkeeping, CancelIsSeen, CancelIsFinal,
         Starting, Fetching, Locked, Updating, AttemptKept, IntentIsCurrent
    <2>4. CASE Succeed
      BY <2>4, <1>0, Numbers DEF Succeed, NoModel, page, Bookkeeping, CancelIsSeen,
         CancelIsFinal, Starting, Fetching, Locked, Updating, AttemptType, RecordType,
         MemoryType
    <2>5. CASE RunInstaller
      BY <2>5, <1>0, Numbers DEF RunInstaller, page, files, Bookkeeping, CancelIsSeen,
         CancelIsFinal, Starting, Fetching, Locked, Updating, AttemptType, RecordType,
         MemoryType
    <2> QED
      BY <1>2, <2>1, <2>2, <2>3, <2>4, <2>5 DEF Attempt, ClearFlag, BeginRecord,
         Receive, Verify, WaitForMaintenance, AcquireAbsence, CheckFlag, Placing,
         LockSettings, Decide, MoveOut, DropGuard, FetchInstaller, BeginInstalling,
         Bookkeeping, CancelIsSeen, CancelIsFinal, Starting, Fetching, Locked, Updating,
         files, page
  <1>3. CASE Cancellation
    <2>1. CASE CancelRecord
      BY <2>1, Numbers, CancelRecordEffect, ZenonT(60) DEF Bookkeeping, CancelIsSeen, CancelIsFinal,
         Starting, Fetching, Locked, Updating
    <2> QED
      BY <1>3, <2>1 DEF Cancellation, CancelFlag, CancelIntent, Bookkeeping,
         CancelIsSeen, CancelIsFinal, Starting, Fetching, Locked, Updating, files
  <1>4. CASE CancelUpdate
    BY <1>4, <1>0, Numbers DEF CancelUpdate, files, Bookkeeping, CancelIsSeen,
       CancelIsFinal, Starting, Fetching, Locked, Updating, MemoryType
  <1>5. ASSUME NEW b \in BOOLEAN, PatchSave(b) PROVE CancelIsFinal'
    BY <1>5, <1>0, Numbers DEF PatchSave, NoModel, files, Bookkeeping, CancelIsSeen,
       CancelIsFinal, Starting, Fetching, Locked, Updating, MemoryType
  <1> QED
    BY <1>1, <1>2, <1>3, <1>4, <1>5 DEF Next, BeginUpdate, CancelCheck, PatchInvalidate,
       EngineMoves, Bookkeeping, CancelIsSeen, CancelIsFinal, Starting, Fetching,
       Locked, Updating, page, files

-----------------------------------------------------------------------------
LEMMA InitIInv == Init => IInv
  <1> SUFFICES ASSUME Init PROVE IInv
    OBVIOUS
  <1> USE InstallAssumption DEF Init, NoModel, OldModel
  <1>0. enabled \in BOOLEAN /\ MaxAttempts \in Nat
    OBVIOUS
  <1>1. /\ dest \in Models /\ NoModel \in Models /\ 0 \in Attempts
        /\ dest \in {NoModel, OldModel}
    BY <1>0 DEF Models, Attempts
  <1>2. att \in AttemptType /\ record \in RecordType /\ can \in CancelType
    BY <1>1 DEF IdleAttempt, NoRecord, IdleCancel, AttemptType, AttemptPcs, RecordType,
                RecordPhases, CancelType
  <1>3. gh \in MemoryType
    BY <1>1 DEF MemoryType
  <1>4. TypeOK
    BY <1>0, <1>1, <1>2, <1>3 DEF TypeOK, Attempts
  <1>5. Bookkeeping
    BY DEF Bookkeeping, IdleAttempt, NoRecord, Starting, Fetching, Locked, Updating
  <1>6. CancelIsSeen
    BY DEF CancelIsSeen, IdleAttempt, NoRecord, IdleCancel, Starting, Fetching, Locked
  <1>7. Placement
    BY <1>1 DEF Placement, IdleAttempt, NoRecord, Untouched, Starting, Fetching
  <1>8. Absence /\ Intent /\ AllOrNothing /\ CancelIsFinal
    BY DEF Absence, Intent, AllOrNothing, CancelIsFinal, IdleAttempt, NoRecord, Locked
  <1> QED
    BY <1>4, <1>5, <1>6, <1>7, <1>8 DEF IInv

LEMMA IInvKept == IInv /\ [Next]_vars => IInv'
  <1>1. IInv /\ Next => IInv'
    <2> SUFFICES ASSUME IInv, Next PROVE IInv'
      OBVIOUS
    <2> USE DEF IInv
    <2>1. TypeOK'
      BY TypeKept
    <2>2. Bookkeeping'
      BY BooksKept
    <2>3. CancelIsSeen'
      BY SeenKept
    <2>4. Placement'
      BY PlacementKept
    <2>5. Absence'
      BY AbsenceKept
    <2>6. Intent'
      BY IntentKept
    <2>7. AllOrNothing'
      BY AllKept
    <2>8. CancelIsFinal'
      BY FinalKept
    <2> QED
      BY <2>1, <2>2, <2>3, <2>4, <2>5, <2>6, <2>7, <2>8
  <1>2. IInv /\ UNCHANGED vars => IInv'
    BY DEF IInv, vars, files, page, TypeOK, AttemptType, RecordType, CancelType, MemoryType,
           Bookkeeping, CancelIsSeen, Placement, Absence, Intent, AllOrNothing, CancelIsFinal
  <1> QED
    BY <1>1, <1>2

(* Every reachable state satisfies the inductive invariant.                *)
THEOREM IInvAlways == Spec => []IInv
  BY InitIInv, IInvKept, PTL DEF Spec

(* An operation that has ended either placed its model or left the old one *)
(* and the setting alone, whichever of its steps failed or was cancelled.  *)
THEOREM InstallsAllOrNothing == Spec => []AllOrNothing
  <1>1. IInv => AllOrNothing
    BY DEF IInv
  <1> QED
    BY <1>1, IInvAlways, PTL

(* An accepted cancellation is final wherever it meets the download.       *)
THEOREM CancellationIsFinal == Spec => []CancelIsFinal
  <1>1. IInv => CancelIsFinal
    BY DEF IInv
  <1> QED
    BY <1>1, IInvAlways, PTL

(* The setting is switched on by an attempt only in SaveSettings, under    *)
(* the lock, with an intent that is still current.                         *)
LEMMA OnlySaveEnables ==
  ASSUME TypeOK, Next, ~SaveSettings
  PROVE  gh'.by = gh.by
  <1>0. gh \in MemoryType
    BY DEF TypeOK
  <1>1. ASSUME NEW b \in BOOLEAN, Begin(b) PROVE gh'.by = gh.by
    BY <1>0, <1>1 DEF Begin, MemoryType
  <1>2. ASSUME NEW b \in BOOLEAN, PatchSave(b) PROVE gh'.by = gh.by
    BY <1>0, <1>2 DEF PatchSave, MemoryType
  <1>3. CASE Attempt
    <2>1. CASE BeginIntent
      BY <2>1, BeginIntentEffect
    <2>2. CASE MoveIn
      BY <2>2, MoveInEffect
    <2>3. CASE Succeed
      BY <1>0, <2>3 DEF Succeed, MemoryType
    <2>4. CASE RunInstaller
      BY <1>0, <2>4 DEF RunInstaller, MemoryType
    <2> QED
      BY <1>3, <2>1, <2>2, <2>3, <2>4
         DEF Attempt, ClearFlag, BeginRecord, Receive, Verify, WaitForMaintenance,
             AcquireAbsence, CheckFlag, Placing, LockSettings, Decide, MoveOut, DropGuard,
             FetchInstaller, BeginInstalling
  <1>4. CASE CancelRecord
    BY <1>4, CancelRecordEffect
  <1>5. CASE CancelUpdate
    BY <1>0, <1>5 DEF CancelUpdate, MemoryType
  <1> QED
    BY <1>1, <1>2, <1>3, <1>4, <1>5
       DEF Next, BeginUpdate, CancelCheck, Cancellation, CancelFlag, CancelIntent,
           PatchInvalidate, EngineMoves

(* A download enables its model only while that is still the latest choice *)
(* of the user (ACTIVATION_GENERATION).                                    *)
THEOREM ChoiceWins == Spec => LatestChoiceWins
  <1>1. IInv /\ Next => (gh'.by # gh.by => gh.choice = gh'.by)
    <2> SUFFICES ASSUME IInv, Next, gh'.by # gh.by PROVE gh.choice = gh'.by
      OBVIOUS
    <2> USE DEF IInv
    <2>1. SaveSettings
      BY OnlySaveEnables
    <2>2. /\ att.pc = "save" /\ gh'.by = att.id
          /\ kind = "zenzai" => att.enable
          /\ kind # "zenzai" => IntentIsCurrent /\ (kind = "prediction" => slock = "none")
      BY <2>1, SaveSettingsEffect
    <2>3. kind # "update"
      BY <2>2 DEF Bookkeeping, Updating
    <2> QED
      BY <2>2, <2>3 DEF Intent, Locked, IntentIsCurrent, TypeOK, Kinds
  <1>2. IInv /\ [Next]_vars => [gh'.by # gh.by => gh.choice = gh'.by]_vars
    BY <1>1
  <1> QED
    BY <1>2, IInvAlways, PTL DEF Spec, LatestChoiceWins

(* The model at the destination changes only in three places.              *)
LEMMA OnlyThreePlace ==
  ASSUME Next, dest' # dest
  PROVE  MoveOut \/ MoveIn \/ SaveSettings
  BY DEF Next, Attempt, Cancellation, Begin, BeginUpdate, ClearFlag, BeginIntent, BeginRecord,
         Receive, Verify, WaitForMaintenance, AcquireAbsence, CheckFlag, Placing,
         LockSettings, Decide, Succeed, DropGuard, FetchInstaller, BeginInstalling,
         RunInstaller, CancelCheck, CancelFlag, CancelRecord, CancelIntent, CancelUpdate,
         PatchSave, PatchInvalidate, EngineMoves, files

(* The model that was there when the download began is replaced only under *)
(* the engine's absence.                                                   *)
THEOREM AbsenceHolds == Spec => ReplacedUnderAbsence
  <1> DEFINE Replaced == dest = gh.before /\ dest # NoModel /\ dest' # dest
  <1>1. IInv /\ Next => (Replaced => engine = "off" /\ lease)
    <2> SUFFICES ASSUME IInv, Next, Replaced PROVE engine = "off" /\ lease
      OBVIOUS
    <2> USE DEF IInv
    <2>1. CASE MoveOut
      BY <2>1 DEF MoveOut, Absence
    <2>2. ~MoveIn
      BY DEF MoveIn, Placement
    <2>3. ~SaveSettings
      BY DEF SaveSettings, Placement
    <2> QED
      BY <2>1, <2>2, <2>3, OnlyThreePlace
  <1>2. IInv /\ [Next]_vars => [Replaced => engine = "off" /\ lease]_vars
    BY <1>1
  <1> QED
    BY <1>2, IInvAlways, PTL DEF Spec, ReplacedUnderAbsence
=============================================================================
