-------------------------- MODULE AutomaticCheck --------------------------
(***************************************************************************)
(* The opt-in update check, end to end: the settings application (Config), *)
(* whose startup worker and set_automatic_check command keep the saved     *)
(* setting and a task of the Windows Task Scheduler in agreement, the      *)
(* checker process that task starts, and the installer's repair of the     *)
(* task.  Config and the checker share settings.json and the lock file of  *)
(* the checker's state (the lease); Config's own threads share the         *)
(* settings lock.                                                          *)
(***************************************************************************)
EXTENDS Naturals, FiniteSets

CONSTANTS
    Checkers,    \* processes the task can start
    Candidates,  \* releases the checker can find installable
    MaxFaults,   \* bound on failing calls
    MaxStarts,   \* bound on the times Config is started
    MaxPatches   \* bound on the changes of another field

None == "none"

ASSUME CheckAssumption ==
    /\ MaxFaults \in Nat /\ MaxStarts \in Nat
    /\ MaxPatches \in Nat
    /\ Checkers \cap {None, "rec", "set"} = {} /\ None \notin Candidates

VARIABLES
    settings,  \* settings.json: automatic_check and the other fields
    task,      \* the task is registered
    lease,     \* who holds the StateLock
    slock,     \* who holds the SettingsLock
    repair,    \* AutomaticCheckReconcileState: a warning is up (needs_repair)
    rec,       \* the startup worker of Config
    set,       \* the set_automatic_check command in flight
    patch,     \* the settings_patch command in flight
    ui,        \* the value the page's switch shows
    mend,      \* the installer's --repair-update-task process
    chk,       \* the checkers
    ustate,    \* update-state.json: the release announced last, if any
    faults,    \* failing calls so far
    starts,    \* starts of Config so far
    gh         \* what the properties remember

config == <<rec, set, patch, ui, repair>>
vars == <<settings, task, lease, slock, repair, rec, set, patch, ui, mend, chk,
          ustate, faults, starts, gh>>

\* UpdateState.  The times of the last check and of the next one allowed are
\* left out: whether they throttle a check is a free choice below.
FreshState == {}
IdleSet == [pc |-> "idle", prev |-> FALSE, want |-> FALSE, rep |-> FALSE, calm |-> TRUE,
            out |-> "ok"]
IdleRec == [pc |-> "down", view |-> [auto |-> FALSE, other |-> 0], known |-> TRUE, tries |-> 0]
IdlePatch == [pc |-> "idle", base |-> [auto |-> FALSE, other |-> 0]]
IdleChecker == [pc |-> "idle", st |-> FreshState, found |-> None]

Init ==
    /\ settings \in [auto : BOOLEAN, other : {0}]
    /\ task \in BOOLEAN
    /\ lease = None /\ slock = None
    /\ repair = FALSE
    /\ rec = IdleRec /\ set = IdleSet /\ patch = IdlePatch
    /\ ui = FALSE
    /\ mend = "idle"
    /\ chk = [c \in Checkers |-> IdleChecker]
    /\ ustate = FreshState
    /\ faults = 0 /\ starts = 0
    /\ gh = [other |-> 0, toast |-> None, lost |-> FALSE, orphan |-> FALSE]

(***************************************************************************)
(* A call that can fail: Succeeds is its good outcome, Fails its bad one.  *)
(***************************************************************************)
Succeeds == faults' = faults
Fails == faults < MaxFaults /\ faults' = faults + 1

\* Wait for the SettingsLock, a mutex without a timeout.
SettingsLockFree == slock = None

-----------------------------------------------------------------------------
(* schtasks: what the scheduler does to the task. *)

RegisterTask == task' = TRUE

DeleteTask == task' = FALSE /\ gh' = [gh EXCEPT !.orphan = FALSE]

\* A process that starts reads the setting: an OFF ends it at once.
StartChecker ==
    /\ settings.auto
    /\ \E c \in Checkers : chk[c].pc = "idle" /\ chk' = [chk EXCEPT ![c].pc = "lock"]

NoChecker ==
    /\ ~settings.auto \/ \A c \in Checkers : chk[c].pc # "idle"
    /\ chk' = chk

\* Mutant: /Run also reports success for a task that is gone.
StartTask_Always == StartChecker \/ NoChecker

\* /Run starts a process of a registered task; a missing task is an error.
StartTask == task /\ (StartChecker \/ NoChecker)

-----------------------------------------------------------------------------
(* The startup worker: reconcile_automatic_check_task under the SettingsLock. *)

ReleaseRec ==
    /\ rec' = [IdleRec EXCEPT !.pc = "done"]
    /\ slock' = None
    /\ lease' = IF lease = "rec" THEN None ELSE lease

\* Config starts: a fresh state, the page reads a snapshot, the worker is
\* spawned.
StartConfig ==
    /\ rec.pc = "down" /\ starts < MaxStarts
    /\ starts' = starts + 1
    /\ rec' = [IdleRec EXCEPT !.pc = "spawned"]
    /\ set' = IdleSet /\ patch' = IdlePatch
    /\ repair' = FALSE
    /\ ui' = settings.auto
    /\ UNCHANGED <<settings, task, lease, slock, mend, chk, ustate, faults, gh>>

\* Config ends or is killed: the operating system drops its locks.
StopConfig ==
    /\ rec.pc # "down"
    /\ rec' = IdleRec /\ set' = IdleSet /\ patch' = IdlePatch
    /\ slock' = None
    /\ lease' = IF lease \in {"rec", "set"} THEN None ELSE lease
    /\ UNCHANGED <<settings, task, repair, ui, mend, chk, ustate, faults, starts, gh>>

\* Mutant: the worker lets the settings lock go once the settings are loaded.
RecLoad_Unlocked ==
    /\ rec.pc = "spawned" /\ SettingsLockFree
    /\ \/ /\ Succeeds
          /\ rec' = [rec EXCEPT !.pc = IF settings.auto THEN "register" ELSE "offLease",
                                !.view = settings]
          /\ UNCHANGED <<slock, lease, repair>>
       \/ /\ Fails
          /\ repair' = TRUE
          /\ ReleaseRec
    /\ UNCHANGED <<settings, task, set, patch, ui, mend, chk, ustate, starts, gh>>

RecLoad ==
    /\ rec.pc = "spawned" /\ SettingsLockFree
    /\ \/ /\ Succeeds
          /\ slock' = "rec"
          /\ rec' = [rec EXCEPT !.pc = IF settings.auto THEN "register" ELSE "offLease",
                                !.view = settings]
          /\ UNCHANGED <<lease, repair>>
       \/ /\ Fails
          /\ repair' = TRUE
          /\ ReleaseRec
    /\ UNCHANGED <<settings, task, set, patch, ui, mend, chk, ustate, starts, gh>>

\* acquire_lock_with_timeout gave up: another holder for STATE_LOCK_WAIT.
\* Mutant: the wait has no deadline.
LeaseTimesOut_Never(who) == FALSE

LeaseTimesOut(who) == lease \notin {None, who}

\* OFF: even an OFF setting waits for a checker before its task is deleted.
RecOffLease ==
    /\ rec.pc = "offLease"
    /\ \/ /\ lease = None /\ Succeeds
          /\ lease' = "rec"
          /\ rec' = [rec EXCEPT !.pc = "offDelete"]
          /\ UNCHANGED <<slock, repair>>
       \/ /\ (LeaseTimesOut("rec") /\ Succeeds) \/ Fails
          /\ repair' = TRUE
          /\ ReleaseRec
    /\ UNCHANGED <<settings, task, set, patch, ui, mend, chk, ustate, starts, gh>>

RecOffDelete ==
    /\ rec.pc = "offDelete"
    /\ \/ Succeeds /\ DeleteTask /\ repair' = FALSE
       \/ Fails /\ repair' = TRUE /\ UNCHANGED <<task, gh>>
    /\ ReleaseRec
    /\ UNCHANGED <<settings, set, patch, ui, mend, chk, ustate, starts>>

\* ON: a SID that cannot be read and a registration that fails both lead to
\* the OFF fallback, with one more chance for the lease.
RecRegister ==
    /\ rec.pc = "register"
    /\ \/ /\ Succeeds /\ RegisterTask
          /\ rec' = [rec EXCEPT !.pc = "run"]
       \/ /\ Fails /\ task' = task
          /\ \E known \in BOOLEAN :
                rec' = [rec EXCEPT !.pc = "fallLease", !.known = known, !.tries = 1]
    /\ UNCHANGED <<settings, lease, slock, repair, set, patch, ui, mend, chk, ustate, starts, gh>>

RecRun ==
    /\ rec.pc = "run"
    /\ \/ /\ Succeeds /\ StartTask
          /\ repair' = FALSE
          /\ ReleaseRec
       \/ /\ (~task /\ Succeeds) \/ Fails
          /\ rec' = [rec EXCEPT !.pc = "fallLease", !.tries = 0]
          /\ UNCHANGED <<chk, repair, slock, lease>>
    /\ UNCHANGED <<settings, task, set, patch, ui, mend, ustate, starts, gh>>

RecFallLease ==
    /\ rec.pc = "fallLease"
    /\ \/ /\ lease = None /\ Succeeds
          /\ lease' = "rec"
          /\ rec' = [rec EXCEPT !.pc = "fallSave"]
          /\ UNCHANGED <<slock, repair>>
       \/ /\ (LeaseTimesOut("rec") /\ Succeeds) \/ Fails
          /\ repair' = TRUE
          /\ IF rec.tries > 0
             THEN rec' = [rec EXCEPT !.tries = rec.tries - 1] /\ UNCHANGED <<slock, lease>>
             ELSE ReleaseRec
    /\ UNCHANGED <<settings, task, set, patch, ui, mend, chk, ustate, starts, gh>>

RecFallSave ==
    /\ rec.pc = "fallSave"
    /\ \/ /\ Succeeds
          /\ settings' = [rec.view EXCEPT !.auto = FALSE]
          /\ IF rec.known
             THEN rec' = [rec EXCEPT !.pc = "fallDelete"] /\ UNCHANGED <<slock, lease, repair>>
             ELSE repair' = TRUE /\ ReleaseRec
       \/ /\ Fails /\ settings' = settings
          /\ repair' = TRUE
          /\ ReleaseRec
    /\ UNCHANGED <<task, set, patch, ui, mend, chk, ustate, starts, gh>>

RecFallDelete ==
    /\ rec.pc = "fallDelete"
    /\ \/ Succeeds /\ DeleteTask
       \/ Fails /\ UNCHANGED <<task, gh>>
    /\ repair' = TRUE
    /\ ReleaseRec
    /\ UNCHANGED <<settings, set, patch, ui, mend, chk, ustate, starts>>

Rec == RecLoad \/ RecOffLease \/ RecOffDelete \/ RecRegister \/ RecRun
          \/ RecFallLease \/ RecFallSave \/ RecFallDelete

-----------------------------------------------------------------------------
(* set_automatic_check: the switch of the page, disabled while a call runs. *)

\* The call returns from its transaction, which drops the lease.
SetReturns(out) ==
    /\ set' = [set EXCEPT !.pc = "end", !.out = out]
    /\ lease' = IF lease = "set" THEN None ELSE lease

SetCall ==
    /\ rec.pc # "down" /\ set.pc = "idle"
    /\ set' = [IdleSet EXCEPT !.pc = "previous", !.want = ~ui]
    /\ UNCHANGED <<settings, task, lease, slock, repair, rec, patch, ui, mend, chk,
                   ustate, faults, starts, gh>>

\* The previous value is read under the SettingsLock, which is then let go.
SetPrevious ==
    /\ set.pc = "previous" /\ SettingsLockFree
    /\ \/ Succeeds /\ set' = [set EXCEPT !.pc = "begin", !.prev = settings.auto]
       \/ Fails /\ set' = [set EXCEPT !.pc = "end", !.out = "err"]
    /\ UNCHANGED <<settings, task, lease, slock, repair, rec, patch, ui, mend, chk,
                   ustate, starts, gh>>

\* should_register_task
ShouldRegister(prev, want, needsRepair) == want /\ (~prev \/ needsRepair)

\* Mutant: OFF is saved without the checker's lease.
SetBegin_NoLease ==
    /\ set.pc = "begin"
    /\ set' = [set EXCEPT
          !.rep = ~set.want /\ repair,
          !.calm = rec.pc = "done",
          !.pc = IF ShouldRegister(set.prev, set.want, repair) THEN "register" ELSE "save"]
    /\ UNCHANGED <<settings, task, lease, slock, repair, rec, patch, ui, mend, chk,
                   ustate, faults, starts, gh>>

SetBegin ==
    /\ set.pc = "begin"
    /\ set' = [set EXCEPT
          !.rep = ~set.want /\ repair,
          !.calm = rec.pc = "done",
          !.pc = IF ~set.want /\ (set.prev \/ repair) THEN "lease"
                 ELSE IF ShouldRegister(set.prev, set.want, repair) THEN "register"
                 ELSE "save"]
    /\ UNCHANGED <<settings, task, lease, slock, repair, rec, patch, ui, mend, chk,
                   ustate, faults, starts, gh>>

SetLease ==
    /\ set.pc = "lease"
    /\ \/ /\ lease = None /\ Succeeds
          /\ lease' = "set"
          /\ set' = [set EXCEPT !.pc = "save"]
       \/ /\ (LeaseTimesOut("set") /\ Succeeds) \/ Fails
          /\ SetReturns("err")
    /\ UNCHANGED <<settings, task, slock, repair, rec, patch, ui, mend, chk, ustate, starts, gh>>

\* The save closure: under the SettingsLock, only automatic_check of the
\* latest settings is replaced.
SaveAuto(value) == settings' = [settings EXCEPT !.auto = value]

\* OFF, or ON without a registration: save, then delete the task of an OFF.
SetSave ==
    /\ set.pc = "save" /\ SettingsLockFree
    /\ \/ /\ Succeeds
          /\ SaveAuto(set.want)
          /\ IF ~set.want /\ (set.prev \/ set.rep)
             THEN set' = [set EXCEPT !.pc = "delete"] /\ lease' = lease
             ELSE SetReturns("ok")
       \/ Fails /\ settings' = settings /\ SetReturns("err")
    /\ UNCHANGED <<task, slock, repair, rec, patch, ui, mend, chk, ustate, starts, gh>>

SetDelete ==
    /\ set.pc = "delete"
    /\ \/ /\ Succeeds /\ DeleteTask
          /\ repair' = (repair /\ ~set.rep)
          /\ SetReturns("ok")
       \/ /\ Fails /\ UNCHANGED <<task, gh>>
          /\ repair' = (repair \/ ~set.prev)
          /\ SetReturns("warn")
    /\ UNCHANGED <<settings, slock, rec, patch, ui, mend, chk, ustate, starts>>

SetRegister ==
    /\ set.pc = "register"
    /\ \/ /\ Succeeds /\ RegisterTask
          /\ set' = [set EXCEPT !.pc = "saveOn"]
          /\ UNCHANGED <<repair, lease>>
       \/ /\ Fails /\ task' = task
          /\ repair' = TRUE
          /\ SetReturns("err")
    /\ UNCHANGED <<settings, slock, rec, patch, ui, mend, chk, ustate, starts, gh>>

SetSaveOn ==
    /\ set.pc = "saveOn" /\ SettingsLockFree
    /\ \/ Succeeds /\ SaveAuto(TRUE) /\ set' = [set EXCEPT !.pc = "run"]
       \/ Fails /\ settings' = settings /\ set' = [set EXCEPT !.pc = "undo"]
    /\ UNCHANGED <<task, lease, slock, repair, rec, patch, ui, mend, chk, ustate,
                   starts, gh>>

\* The save failed: the task just registered is deleted as far as possible.
SetUndo ==
    /\ set.pc = "undo"
    /\ \/ Succeeds /\ DeleteTask
       \/ Fails /\ task' = task /\ gh' = [gh EXCEPT !.orphan = TRUE]
    /\ SetReturns("err")
    /\ UNCHANGED <<settings, slock, repair, rec, patch, ui, mend, chk, ustate, starts>>

SetRun ==
    /\ set.pc = "run"
    /\ \/ Succeeds /\ StartTask /\ SetReturns("ok")
       \/ /\ (~task /\ Succeeds) \/ Fails
          /\ set' = [set EXCEPT !.pc = "backLease"]
          /\ UNCHANGED <<chk, lease>>
    /\ UNCHANGED <<settings, task, slock, repair, rec, patch, ui, mend, ustate, starts, gh>>

\* rollback_apply_after_run_failure: nothing is touched without the lease.
SetBackLease ==
    /\ set.pc = "backLease"
    /\ \/ /\ lease = None /\ Succeeds
          /\ lease' = "set"
          /\ set' = [set EXCEPT !.pc = "backDelete"]
          /\ repair' = repair
       \/ /\ (LeaseTimesOut("set") /\ Succeeds) \/ Fails
          /\ repair' = TRUE
          /\ SetReturns("warn")
    /\ UNCHANGED <<settings, task, slock, rec, patch, ui, mend, chk, ustate, starts, gh>>

SetBackDelete ==
    /\ set.pc = "backDelete"
    /\ \/ Succeeds /\ DeleteTask
       \/ Fails /\ UNCHANGED <<task, gh>>
    /\ set' = [set EXCEPT !.pc = "backSave"]
    /\ UNCHANGED <<settings, lease, slock, repair, rec, patch, ui, mend, chk, ustate, starts>>

SetBackSave ==
    /\ set.pc = "backSave" /\ SettingsLockFree
    /\ \/ Succeeds /\ SaveAuto(FALSE)
       \/ Fails /\ settings' = settings
    /\ SetReturns("warn")
    /\ UNCHANGED <<task, slock, repair, rec, patch, ui, mend, chk, ustate, starts, gh>>

\* The warning is kept or cleared; the page takes the snapshot of a good answer.
\* A command that overlapped the startup worker also clears a warning the
\* worker raised in the meantime.
SetEnd ==
    /\ set.pc = "end"
    /\ repair' = CASE set.out = "ok" -> FALSE [] set.out = "warn" -> TRUE [] OTHER -> repair
    /\ ui' = IF set.out = "err" THEN ui ELSE settings.auto
    /\ set' = IdleSet
    /\ gh' = [gh EXCEPT !.orphan = gh.orphan \/ (set.out = "ok" /\ repair /\ ~set.calm)]
    /\ UNCHANGED <<settings, task, lease, slock, rec, patch, mend, chk, ustate,
                   faults, starts>>

Set == SetPrevious \/ SetBegin \/ SetLease \/ SetSave \/ SetDelete \/ SetRegister
          \/ SetSaveOn \/ SetUndo \/ SetRun \/ SetBackLease \/ SetBackDelete
          \/ SetBackSave \/ SetEnd

-----------------------------------------------------------------------------
(* settings_patch: a change of another field, against the revision it edits. *)

PatchCall ==
    /\ rec.pc # "down" /\ patch.pc = "idle" /\ settings.other < MaxPatches
    /\ patch' = [pc |-> "sent", base |-> settings]
    /\ UNCHANGED <<settings, task, lease, slock, repair, rec, set, ui, mend, chk, ustate, faults, starts, gh>>

\* A revision that moved is a conflict and saves nothing.
PatchApply ==
    /\ patch.pc = "sent" /\ SettingsLockFree
    /\ \/ /\ settings = patch.base /\ Succeeds
          /\ settings' = [settings EXCEPT !.other = settings.other + 1]
          /\ gh' = [gh EXCEPT !.other = gh.other + 1]
       \/ settings # patch.base /\ Succeeds /\ UNCHANGED <<settings, gh>>
       \/ Fails /\ UNCHANGED <<settings, gh>>
    /\ ui' = settings.auto
    /\ patch' = IdlePatch
    /\ UNCHANGED <<task, lease, slock, repair, rec, set, mend, chk, ustate, starts>>

-----------------------------------------------------------------------------
(* repair_update_task_after_install: the installer's own process, no lock. *)

MendRead ==
    /\ mend = "idle" /\ settings.auto
    /\ mend' = "register"
    /\ UNCHANGED <<settings, task, lease, slock, repair, rec, set, patch, ui, chk, ustate, faults, starts, gh>>

MendRegister ==
    /\ mend = "register"
    /\ mend' = "idle"
    /\ \/ /\ Succeeds /\ RegisterTask
          /\ gh' = [gh EXCEPT !.orphan = gh.orphan \/ ~settings.auto]
       \/ Fails /\ UNCHANGED <<task, gh>>
    /\ UNCHANGED <<settings, lease, slock, repair, rec, set, patch, ui, chk, ustate, starts>>

-----------------------------------------------------------------------------
(* The checker process. *)

ToChk(c, pc) == chk' = [chk EXCEPT ![c].pc = pc]

Exit(c) ==
    /\ chk' = [chk EXCEPT ![c] = IdleChecker]
    /\ lease' = IF lease = c THEN None ELSE lease

\* The scheduler starts a registered task.  A registration runs one instance;
\* a task deleted and registered again can have a second one.
Launch ==
    /\ task /\ StartChecker
    /\ UNCHANGED <<settings, task, lease, slock, config, mend, ustate, faults, starts, gh>>

\* A checker ends on its own, is terminated, or is refused its settings.
Die(c) ==
    /\ chk[c].pc # "idle"
    /\ Fails
    /\ gh' = [gh EXCEPT !.lost = gh.lost \/ chk[c].pc = "note"]
    /\ Exit(c)
    /\ UNCHANGED <<settings, task, slock, config, mend, ustate, starts>>

\* acquire_lock: a lock held elsewhere ends the checker at once.
\* Mutant: a checker that meets the lock goes on without it.
AcquireLock_Shared(c) ==
    /\ chk[c].pc = "lock"
    /\ lease' = IF lease = None THEN c ELSE lease
    /\ ToChk(c, "reread")
    /\ UNCHANGED <<settings, task, slock, config, mend, ustate, faults, starts, gh>>

AcquireLock(c) ==
    /\ chk[c].pc = "lock"
    /\ \/ lease = None /\ lease' = c /\ ToChk(c, "reread")
       \/ lease # None /\ Exit(c)
    /\ UNCHANGED <<settings, task, slock, config, mend, ustate, faults, starts, gh>>

\* settings_after_lock
Reread(c) ==
    /\ chk[c].pc = "reread"
    /\ IF settings.auto THEN ToChk(c, "load") /\ lease' = lease ELSE Exit(c)
    /\ UNCHANGED <<settings, task, slock, config, mend, ustate, faults, starts, gh>>

\* A state file that does not parse is put aside and the default taken.
LoadState(c) ==
    /\ chk[c].pc = "load"
    /\ \/ /\ Succeeds
          /\ chk' = [chk EXCEPT ![c].pc = "last", ![c].st = ustate]
          /\ UNCHANGED <<ustate, gh>>
       \/ /\ Fails
          /\ chk' = [chk EXCEPT ![c].pc = "last", ![c].st = FreshState]
          /\ ustate' = FreshState
          /\ gh' = [gh EXCEPT !.lost = TRUE]
    /\ UNCHANGED <<settings, task, lease, slock, config, mend, starts>>

\* The last look at the settings and should_throttle, then the request.
ReadLast(c) ==
    /\ chk[c].pc = "last"
    /\ \/ settings.auto /\ ToChk(c, "fetch") /\ lease' = lease
       \/ Exit(c)
    /\ UNCHANGED <<settings, task, slock, config, mend, ustate, faults, starts, gh>>

\* The answer: rate limited, an error or nothing to install, after which the
\* state keeps what it says of announcements; a release announced already;
\* or a new one.
Fetched(c) ==
    /\ chk[c].pc = "fetch"
    /\ \/ ustate' = chk[c].st /\ Exit(c)
       \/ \E v \in Candidates \ chk[c].st :
             /\ chk' = [chk EXCEPT ![c].pc = "toast", ![c].found = v]
             /\ UNCHANGED <<ustate, lease>>
    /\ UNCHANGED <<settings, task, slock, config, mend, faults, starts, gh>>

\* Only a toast that Windows accepted is noted; another is tried again.
Toast(c) ==
    /\ chk[c].pc = "toast"
    /\ \/ /\ Succeeds
          /\ ToChk(c, "note")
          /\ gh' = [gh EXCEPT !.toast = chk[c].found, !.lost = FALSE]
          /\ UNCHANGED <<ustate, lease>>
       \/ /\ faults < MaxFaults /\ faults' = faults + 1
          /\ ustate' = chk[c].st
          /\ gh' = gh
          /\ Exit(c)
    /\ UNCHANGED <<settings, task, slock, config, mend, starts>>

NoteToast(c) ==
    /\ chk[c].pc = "note"
    /\ \/ /\ Succeeds
          /\ ustate' = {chk[c].found}
          /\ gh' = gh
       \/ /\ Fails
          /\ ustate' = ustate
          /\ gh' = [gh EXCEPT !.lost = TRUE]
    /\ Exit(c)
    /\ UNCHANGED <<settings, task, slock, config, mend, starts>>

Checker(c) == AcquireLock(c) \/ Reread(c) \/ LoadState(c) \/ ReadLast(c)
                 \/ Fetched(c) \/ Toast(c) \/ NoteToast(c)

-----------------------------------------------------------------------------
Next ==
    \/ StartConfig \/ StopConfig \/ Rec
    \/ SetCall \/ Set
    \/ PatchCall \/ PatchApply
    \/ MendRead \/ MendRegister
    \/ Launch
    \/ \E c \in Checkers : Checker(c) \/ Die(c)

\* Each thread and process of the system runs on; who starts Config, presses
\* the switch, or makes a call fail is left open.
Fairness ==
    /\ WF_vars(Rec) /\ WF_vars(Set)
    /\ \A c \in Checkers : WF_vars(Checker(c))

Spec == Init /\ [][Next]_vars /\ Fairness

-----------------------------------------------------------------------------
\* The release server is asked, and a release announced, only while the saved
\* setting is ON: whoever saves OFF holds the lease of the checker, which the
\* checker takes before it looks at the setting again (run_inner,
\* apply_automatic_check_transaction_with_lease).
OffIsQuiet ==
    \A c \in Checkers : chk[c].pc \in {"fetch", "toast", "note"} => settings.auto

\* Once the startup worker and the command have ended without a warning, the
\* task is registered exactly when the setting is ON; the two exceptions are
\* a cleanup that failed after a failed save, and an installer that registered
\* from a setting it had read before (set_automatic_check,
\* reconcile_automatic_check_task).
AgreesAtRest ==
    rec.pc = "done" /\ set.pc = "idle" /\ ~repair /\ ~gh.orphan => (task = settings.auto)

\* What settings_patch saved is still there whatever the update check does to
\* the same file: its two writers hold the settings lock from their read to
\* their save.
PatchesSurvive == settings.other = gh.other

\* The same release is announced twice running only when the record of the
\* first announcement was lost (run_flow, StateStore::save).
NotToastedTwice ==
    [][\A c \in Checkers :
          chk[c].pc = "toast" /\ chk'[c].pc = "note" /\ ~gh.lost => chk[c].found # gh.toast]_vars

\* A press of the switch is always answered: the command and the startup
\* worker take the settings lock and the lease in opposite orders, and only
\* the deadline of the lease gets them out of each other's way.
SwitchIsAnswered == (set.pc # "idle") ~> (set.pc = "idle")
=============================================================================
