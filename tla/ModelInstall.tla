--------------------------- MODULE ModelInstall ---------------------------
(***************************************************************************)
(* The long operations of the settings application: the download and       *)
(* installation of the Zenzai model, of the prediction model, and of an    *)
(* update of the program.  Each is a command that runs beside the page's   *)
(* other commands: a cancellation, a change of the setting the model       *)
(* belongs to, and, outside the process, the engine that has the old model *)
(* open.  The three have the same outline and different critical sections, *)
(* so the model carries one of them, chosen initially.                     *)
(***************************************************************************)
EXTENDS Naturals, FiniteSets

CONSTANTS
    MaxAttempts,  \* bound on the downloads begun
    MaxCancels,   \* bound on the cancellations asked for
    MaxPatches,   \* bound on the changes of the setting
    MaxFaults     \* bound on the failing calls

ASSUME InstallAssumption ==
    {MaxAttempts, MaxCancels, MaxPatches, MaxFaults} \subseteq Nat

Kinds == {"zenzai", "prediction", "update"}
\* A model is known by the attempt that placed it.
NoModel == 0
OldModel == MaxAttempts + 1

VARIABLES
    kind,        \* which operation this is
    att,         \* the download in flight
    begun,       \* attempts so far
    active,      \* ACTIVE_ATTEMPT, or the id of ActiveUpdateAttempts; 0 is none
    flag,        \* CANCEL_REQUESTED
    generation,  \* ACTIVATION_GENERATION
    record,      \* the ModelOperationStatus of this kind, or the update's phase
    can,         \* the cancellation in flight
    cancels,     \* cancellations so far
    patch,       \* a settings_patch between its save and its end
    patches,     \* patches so far
    slock,       \* who holds the SettingsLock
    enabled,     \* the saved setting that uses the model
    dest,        \* the model at its destination
    backup,      \* the model moved aside
    engine,      \* the engine process
    lease,       \* EngineAbsenceLease is held
    faults,      \* failing calls so far
    gh           \* what the properties remember

vars == <<kind, att, begun, active, flag, generation, record, can, cancels, patch, patches,
          slock, enabled, dest, backup, engine, lease, faults, gh>>

files == <<dest, backup>>
page == <<can, cancels, patch, patches>>

IdleAttempt == [id |-> 0, pc |-> "idle", act |-> FALSE, gen |-> 0, enable |-> FALSE]
NoRecord == [id |-> 0, phase |-> "none", cancelable |-> FALSE]
IdleCancel == [pc |-> "idle", id |-> 0, clean |-> TRUE]

Init ==
    /\ kind \in Kinds
    /\ att = IdleAttempt /\ begun = 0 /\ active = 0
    /\ flag = FALSE /\ generation = 0 /\ record = NoRecord
    /\ can = IdleCancel /\ cancels = 0
    /\ patch = "idle" /\ patches = 0 /\ slock = "none"
    /\ dest \in {NoModel, OldModel} /\ backup = NoModel
    /\ enabled \in {FALSE, dest = OldModel}
    /\ engine = "idle" /\ lease = FALSE /\ faults = 0
    /\ gh = [choice |-> 0, asked |-> {}, done |-> {}, before |-> dest, by |-> 0, damaged |-> FALSE]

Succeeds == faults' = faults
Fails == faults < MaxFaults /\ faults' = faults + 1

-----------------------------------------------------------------------------
(* OperationGuard: the record of the running operation. *)

SetPhase(phase, cancelable) ==
    record' = IF record.id = att.id
              THEN [record EXCEPT !.phase = phase, !.cancelable = cancelable]
              ELSE record

\* fail(): what was being cancelled, or failed with the message of a
\* cancellation, is recorded as cancelled.
FailedPhase(cancelMessage) ==
    IF record.phase = "cancelling" \/ cancelMessage THEN "cancelled" ELSE "failed"

\* The operation is over: its locks are dropped and its record is final.
Over(phase) ==
    /\ SetPhase(phase, FALSE)
    /\ att' = [att EXCEPT !.pc = "over"]
    /\ slock' = IF slock = "attempt" THEN "none" ELSE slock
    /\ lease' = FALSE

Fail == Over(FailedPhase(FALSE))
Cancelled == Over(FailedPhase(TRUE))

ToAtt(pc) == att' = [att EXCEPT !.pc = pc]

-----------------------------------------------------------------------------
(* download_zenzai_model and download_prediction_model. *)

Begin(activate) ==
    /\ kind # "update" /\ att.pc = "idle" /\ begun < MaxAttempts
    /\ begun' = begun + 1
    /\ att' = [IdleAttempt EXCEPT !.id = begun + 1, !.pc = "clear", !.act = activate]
    /\ active' = begun + 1
    /\ gh' = [gh EXCEPT !.before = dest]
    /\ UNCHANGED <<kind, flag, generation, record, page, slock, enabled, files, engine,
                   lease, faults>>

\* The flag of an earlier cancellation is cleared; one that is on its way is
\* cleared with it.
ClearFlag ==
    /\ att.pc = "clear"
    /\ flag' = FALSE
    /\ can' = [can EXCEPT !.clean = FALSE]
    /\ ToAtt("intent")
    /\ UNCHANGED <<kind, begun, active, generation, record, cancels, patch, patches, slock,
                   enabled, files, engine, lease, faults, gh>>

BeginIntent ==
    /\ att.pc = "intent"
    /\ IF att.act
       THEN /\ generation' = generation + 1
            /\ att' = [att EXCEPT !.pc = "record", !.gen = generation + 1]
            /\ gh' = [gh EXCEPT !.choice = att.id]
       ELSE ToAtt("record") /\ UNCHANGED <<generation, gh>>
    /\ UNCHANGED <<kind, begun, active, flag, record, page, slock, enabled, files, engine,
                   lease, faults>>

BeginRecord ==
    /\ att.pc = "record"
    /\ record' = [id |-> att.id, phase |-> "downloading", cancelable |-> TRUE]
    /\ ToAtt("receive")
    /\ UNCHANGED <<kind, begun, active, flag, generation, page, slock, enabled, files,
                   engine, lease, faults, gh>>

\* Every chunk, and the end of the stream, looks at the flag; a stream that
\* fails under a cancellation counts as cancelled, a file that fails does not.
Receive ==
    /\ att.pc = "receive"
    /\ \/ flag /\ Succeeds /\ Cancelled
       \/ /\ ~flag /\ Succeeds
          /\ ToAtt("verify") /\ SetPhase("verifying", TRUE)
          /\ UNCHANGED <<slock, lease>>
       \/ Fails /\ \E seen \in {FALSE, flag} : Over(FailedPhase(seen))
    /\ UNCHANGED <<kind, begun, active, flag, generation, page, enabled, files, engine, gh>>

\* An existing model is replaced only after the engine has stopped.
Verify ==
    /\ att.pc = "verify"
    /\ \/ /\ Succeeds
          /\ IF dest # NoModel
             THEN ToAtt("wait") /\ SetPhase("waiting", TRUE)
             ELSE ToAtt("check") /\ record' = record
          /\ UNCHANGED <<slock, lease>>
       \/ Fails /\ Fail
    /\ UNCHANGED <<kind, begun, active, flag, generation, page, enabled, files, engine, gh>>

\* Mutant: the wait for a busy engine does not look at the flag.
WaitForMaintenance_Deaf ==
    /\ att.pc = "wait"
    /\ \/ engine # "busy" /\ Succeeds /\ engine' = "off" /\ ToAtt("absence")
          /\ UNCHANGED <<record, slock, lease>>
       \/ Fails /\ Fail /\ engine' = engine
    /\ UNCHANGED <<kind, begun, active, flag, generation, page, enabled, files, gh>>

\* wait_for_engine_maintenance: an engine with unfinished input is asked again
\* until it is free or the user cancels; an idle one stops.  One that cannot
\* be reached counts as stopped here, which the next step does not believe.
WaitForMaintenance ==
    /\ att.pc = "wait"
    /\ \/ flag /\ Succeeds /\ Cancelled /\ engine' = engine
       \/ ~flag /\ engine # "busy" /\ Succeeds /\ engine' = "off" /\ ToAtt("absence")
          /\ UNCHANGED <<record, slock, lease>>
       \/ ~flag /\ Fails /\ Fail /\ engine' = engine
       \/ ~flag /\ Fails /\ ToAtt("absence") /\ UNCHANGED <<engine, record, slock, lease>>
    /\ UNCHANGED <<kind, begun, active, flag, generation, page, enabled, files, gh>>

\* Mutant: an engine that has come back does not stop the placement.
AcquireAbsence_Blind ==
    /\ att.pc = "absence"
    /\ lease' = TRUE /\ ToAtt("check")
    /\ UNCHANGED <<kind, begun, active, flag, generation, record, page, slock, enabled,
                   files, engine, faults, gh>>

\* EngineAbsenceLease: the engine's own singleton mutex, which must be free.
AcquireAbsence ==
    /\ att.pc = "absence"
    /\ \/ engine = "off" /\ Succeeds /\ lease' = TRUE /\ ToAtt("check")
          /\ UNCHANGED <<record, slock>>
       \/ ((engine # "off" /\ Succeeds) \/ Fails) /\ Fail
    /\ UNCHANGED <<kind, begun, active, flag, generation, page, enabled, files, engine, gh>>

CheckFlag ==
    /\ att.pc = "check"
    /\ \/ flag /\ Cancelled
       \/ ~flag /\ ToAtt("placing") /\ UNCHANGED <<record, slock, lease>>
    /\ UNCHANGED <<kind, begun, active, flag, generation, page, enabled, files, engine,
                   faults, gh>>

Placing ==
    /\ att.pc = "placing"
    /\ SetPhase("placing", FALSE)
    /\ ToAtt(IF kind = "zenzai" THEN "lock" ELSE "moveOut")
    /\ UNCHANGED <<kind, begun, active, flag, generation, page, slock, enabled, files,
                   engine, lease, faults, gh>>

\* Zenzai takes the settings lock before it places the model, and looks at the
\* flag once more.
\* Mutant: no second look.
LockSettings_OneLook ==
    /\ att.pc = "lock" /\ slock = "none"
    /\ slock' = "attempt" /\ ToAtt("decide")
    /\ UNCHANGED <<kind, begun, active, flag, generation, record, page, enabled, files,
                   engine, lease, faults, gh>>

LockSettings ==
    /\ att.pc = "lock" /\ slock = "none"
    /\ \/ flag /\ Cancelled
       \/ ~flag /\ slock' = "attempt" /\ ToAtt("decide") /\ UNCHANGED <<record, lease>>
    /\ UNCHANGED <<kind, begun, active, flag, generation, page, enabled, files, engine,
                   faults, gh>>

\* activation_intent_is_current
\* Mutant: any attempt that was asked to activate does.
IntentIsCurrent_Always == att.act

IntentIsCurrent == att.act /\ generation = att.gen

\* Whether to enable is decided under the lock that the save is made under.
Decide ==
    /\ att.pc = "decide"
    /\ \/ Succeeds /\ att' = [att EXCEPT !.pc = "moveOut", !.enable = IntentIsCurrent]
          /\ UNCHANGED <<record, slock, lease>>
       \/ IntentIsCurrent /\ Fails /\ Fail
    /\ UNCHANGED <<kind, begun, active, flag, generation, page, enabled, files, engine, gh>>

MoveOut ==
    /\ att.pc = "moveOut"
    /\ \/ Succeeds /\ backup' = dest /\ dest' = NoModel /\ ToAtt("moveIn")
          /\ UNCHANGED <<record, slock, lease>>
       \/ Fails /\ Fail /\ UNCHANGED files
    /\ UNCHANGED <<kind, begun, active, flag, generation, page, enabled, engine, gh>>

\* The new model is removed and the old one moved back.  A new model that
\* cannot be removed stays; a backup that cannot be moved back is a temporary
\* file and goes with the operation.
\* Mutant: nobody moves the old model back.
Restore_Forgotten ==
    /\ dest' = NoModel /\ backup' = NoModel /\ gh' = gh

Restore ==
    /\ backup' = NoModel
    /\ \/ dest' = backup /\ gh' = gh
       \/ /\ dest' \in {NoModel, dest} \ {backup}
          /\ gh' = [gh EXCEPT !.damaged = TRUE]

MoveIn ==
    /\ att.pc = "moveIn"
    /\ \/ /\ Succeeds
          /\ dest' = att.id
          /\ ToAtt(IF kind = "prediction" \/ att.enable THEN "save" ELSE "success")
          /\ IF (kind = "prediction" /\ IntentIsCurrent) \/ (kind = "zenzai" /\ att.enable)
             THEN SetPhase("activating", FALSE)
             ELSE record' = record
          /\ UNCHANGED <<backup, slock, lease, gh>>
       \/ Fails /\ Restore /\ Fail
    /\ UNCHANGED <<kind, begun, active, flag, generation, page, enabled, engine>>

\* The setting is saved, or, for a prediction model whose intent is not
\* current any more, left alone.  A save that fails takes the new model away.
SaveSettings ==
    /\ att.pc = "save"
    /\ kind = "prediction" => slock = "none"
    /\ LET enable == IF kind = "zenzai" THEN att.enable ELSE IntentIsCurrent
       IN \/ /\ Succeeds
             /\ enabled' = (enabled \/ enable)
             /\ gh' = IF enable THEN [gh EXCEPT !.by = att.id] ELSE gh
             /\ ToAtt("success")
             /\ UNCHANGED <<files, record, slock, lease>>
          \/ /\ enable /\ Fails
             /\ enabled' = enabled
             /\ Restore
             /\ Fail
    /\ UNCHANGED <<kind, begun, active, flag, generation, page, engine>>

Succeed ==
    /\ att.pc = "success"
    /\ Over("succeeded")
    /\ backup' = NoModel
    /\ gh' = [gh EXCEPT !.done = gh.done \cup {att.id}]
    /\ UNCHANGED <<kind, begun, active, flag, generation, page, enabled, dest, engine, faults>>

\* DownloadGuard, UpdateGuard
DropGuard ==
    /\ att.pc = "over"
    /\ active' = IF active = att.id THEN 0 ELSE active
    /\ att' = IdleAttempt
    /\ UNCHANGED <<kind, begun, flag, generation, record, page, slock, enabled, files,
                   engine, lease, faults, gh>>

-----------------------------------------------------------------------------
(* download_and_install_update: every decision under one mutex. *)

BeginUpdate ==
    /\ kind = "update" /\ att.pc = "idle" /\ begun < MaxAttempts
    /\ begun' = begun + 1
    /\ att' = [IdleAttempt EXCEPT !.id = begun + 1, !.pc = "fetch"]
    /\ active' = begun + 1 /\ flag' = FALSE
    /\ record' = [id |-> begun + 1, phase |-> "downloading", cancelable |-> TRUE]
    /\ UNCHANGED <<kind, generation, page, slock, enabled, files, engine, lease, faults, gh>>

\* Receive, verify, rename, verify the file again.
FetchInstaller ==
    /\ att.pc = "fetch"
    /\ \/ flag /\ Succeeds /\ Cancelled
       \/ ~flag /\ Succeeds /\ ToAtt("launch") /\ UNCHANGED <<record, slock, lease>>
       \/ Fails /\ \E seen \in {FALSE, flag} : Over(FailedPhase(seen))
    /\ UNCHANGED <<kind, begun, active, flag, generation, page, enabled, files, engine, gh>>

\* begin_installing takes the right to launch and refuses it to a cancelled
\* attempt in the same critical section.
BeginInstalling ==
    /\ att.pc = "launch"
    /\ \/ flag /\ Cancelled
       \/ ~flag /\ SetPhase("installing", FALSE) /\ ToAtt("run") /\ UNCHANGED <<slock, lease>>
    /\ UNCHANGED <<kind, begun, active, flag, generation, page, enabled, files, engine,
                   faults, gh>>

RunInstaller ==
    /\ att.pc = "run"
    /\ \/ Succeeds /\ Over("succeeded") /\ gh' = [gh EXCEPT !.done = gh.done \cup {att.id}]
       \/ Fails /\ Fail /\ gh' = gh
    /\ UNCHANGED <<kind, begun, active, flag, generation, page, enabled, files, engine>>

-----------------------------------------------------------------------------
(* cancel_zenzai_download, cancel_prediction_model_download: four steps. *)

CancelCheck ==
    /\ kind # "update" /\ can.pc = "idle" /\ cancels < MaxCancels
    /\ active # 0
    /\ cancels' = cancels + 1
    /\ can' = [pc |-> "flag", id |-> active, clean |-> att.pc # "clear"]
    /\ UNCHANGED <<kind, att, begun, active, flag, generation, record, patch, patches, slock,
                   enabled, files, engine, lease, faults, gh>>

CancelFlag ==
    /\ can.pc = "flag"
    /\ flag' = TRUE
    /\ can' = [can EXCEPT !.pc = "record"]
    /\ UNCHANGED <<kind, att, begun, active, generation, record, cancels, patch, patches,
                   slock, enabled, files, engine, lease, faults, gh>>

\* request_cancel: only the record of the same attempt, while it can be
\* cancelled.
CancelRecord ==
    /\ can.pc = "record"
    /\ IF record.id = can.id /\ record.cancelable
       THEN /\ record' = [record EXCEPT !.phase = "cancelling", !.cancelable = FALSE]
            /\ gh' = IF can.clean THEN [gh EXCEPT !.asked = gh.asked \cup {can.id}] ELSE gh
       ELSE UNCHANGED <<record, gh>>
    /\ can' = [can EXCEPT !.pc = "intent"]
    /\ UNCHANGED <<kind, att, begun, active, flag, generation, cancels, patch, patches,
                   slock, enabled, files, engine, lease, faults>>

CancelIntent ==
    /\ can.pc = "intent"
    /\ generation' = generation + 1
    /\ can' = IdleCancel
    /\ UNCHANGED <<kind, att, begun, active, flag, record, cancels, patch, patches, slock,
                   enabled, files, engine, lease, faults, gh>>

\* cancel_update_download: accepted, or too late.
CancelUpdate ==
    /\ kind = "update" /\ cancels < MaxCancels
    /\ active # 0 /\ record.phase = "downloading"
    /\ cancels' = cancels + 1
    /\ flag' = TRUE
    /\ gh' = [gh EXCEPT !.asked = gh.asked \cup {active}]
    /\ UNCHANGED <<kind, att, begun, active, generation, record, can, patch, patches, slock,
                   enabled, files, engine, lease, faults>>

-----------------------------------------------------------------------------
(* settings_patch of the setting the model belongs to. *)

\* The prediction is switched on only with a model in place.
PatchSave(value) ==
    /\ kind # "update" /\ patch = "idle" /\ patches < MaxPatches /\ slock = "none"
    /\ kind = "prediction" /\ value /\ ~enabled => dest # NoModel
    /\ patches' = patches + 1
    /\ enabled' = value
    /\ slock' = "patch" /\ patch' = "saved"
    /\ gh' = [gh EXCEPT !.choice = 0]
    /\ UNCHANGED <<kind, att, begun, active, flag, generation, record, can, cancels, files,
                   engine, lease, faults>>

PatchInvalidate ==
    /\ patch = "saved"
    /\ generation' = generation + 1
    /\ slock' = "none" /\ patch' = "idle"
    /\ UNCHANGED <<kind, att, begun, active, flag, record, can, cancels, patches, enabled,
                   files, engine, lease, faults, gh>>

-----------------------------------------------------------------------------
(* The engine, seen from here: started by a text field, busy while a *)
(* composition is open. *)

EngineMoves ==
    /\ kind # "update"
    /\ \/ engine = "off" /\ ~lease /\ engine' = "idle"
       \/ engine = "idle" /\ engine' = "busy"
       \/ engine = "busy" /\ engine' = "idle"
    /\ UNCHANGED <<kind, att, begun, active, flag, generation, record, page, slock, enabled,
                   files, lease, faults, gh>>

-----------------------------------------------------------------------------
Attempt ==
    \/ ClearFlag \/ BeginIntent \/ BeginRecord \/ Receive \/ Verify \/ WaitForMaintenance
    \/ AcquireAbsence \/ CheckFlag \/ Placing \/ LockSettings \/ Decide \/ MoveOut \/ MoveIn
    \/ SaveSettings \/ Succeed \/ DropGuard
    \/ FetchInstaller \/ BeginInstalling \/ RunInstaller

Cancellation == CancelFlag \/ CancelRecord \/ CancelIntent

Next ==
    \/ \E activate \in BOOLEAN : Begin(activate)
    \/ BeginUpdate
    \/ Attempt
    \/ CancelCheck \/ Cancellation \/ CancelUpdate
    \/ \E value \in BOOLEAN : PatchSave(value)
    \/ PatchInvalidate
    \/ EngineMoves

\* Commands run on; the timeouts of the connection end a silent stream.  The
\* user owes nothing, and neither does the engine.
Fairness == WF_vars(Attempt) /\ WF_vars(Cancellation) /\ WF_vars(PatchInvalidate)

Spec == Init /\ [][Next]_vars /\ Fairness

-----------------------------------------------------------------------------
\* A download that was to enable its model enables it only if the user has not
\* chosen ON or OFF since it began (ACTIVATION_GENERATION).
LatestChoiceWins == [][gh'.by # gh.by => gh.choice = gh'.by]_vars

\* An operation that has ended placed its model if it succeeded, and otherwise
\* left the old one in place and the setting alone; the exception is a model
\* that could not be moved back or removed (rollback_install and its Zenzai twin).
AllOrNothing ==
    kind # "update" /\ att.pc \in {"idle", "over"} /\ begun > 0 /\ record.id = begun /\ ~gh.damaged =>
        IF record.phase = "succeeded" THEN dest = record.id
        ELSE dest = gh.before /\ gh.by # record.id

\* A model is replaced only while no engine has it open: from the engine's
\* agreement to stop until the new model is in place no engine may start
\* (wait_for_engine_maintenance, EngineAbsenceLease).
ReplacedUnderAbsence ==
    [][dest = gh.before /\ dest # NoModel /\ dest' # dest => engine = "off" /\ lease]_vars

\* What a cancellation was accepted for never completes: no Zenzai model is
\* placed and no installer is launched, at whatever point of the download the
\* cancellation came (LockSettings, begin_installing).
CancelIsFinal == kind # "prediction" => gh.asked \cap gh.done = {}

\* An accepted cancellation ends the operation, even one that waits for an
\* engine whose user never finishes the composition.
CancelEnds == \A i \in 1..MaxAttempts : (i \in gh.asked) ~> (att.id # i)
=============================================================================
