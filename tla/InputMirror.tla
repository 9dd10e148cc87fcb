----------------------------- MODULE InputMirror -----------------------------
(***************************************************************************)
(* The mirror of the reading in EngineHost: the STA thread of the TIP      *)
(* sends what the user types to an input worker, which keeps an engine     *)
(* session with the same text.  Source: background_input.rs (the mailbox,  *)
(* run_worker and its transport) and its callers in key_event_sink.rs.     *)
(*                                                                         *)
(* STA and worker share one atomic word (generation and phase), one atomic *)
(* close bound and a bounded channel; each step here is one access of one  *)
(* of them.  A compare-exchange loop is one step: the iteration that wins. *)
(***************************************************************************)
EXTENDS Integers, Sequences, SequencesExt, FiniteSetsExt

CONSTANTS MaxOps,           \* how many operations the user makes
          MaxMirrorFaults,  \* how many crashes of the engine and failed requests happen
          Capacity          \* of the channel

ASSUME MirrorAssumption == MaxOps \in Nat /\ MaxMirrorFaults \in Nat /\ Capacity \in Nat \ {0}

VARIABLES
    st,     \* the STA: composition, canonical reading, the accesses its call still makes
    mb,     \* SharedState and the channel
    wk,     \* run_worker's local variables
    ses,    \* the transport's session: open in the client, alive in the engine, its text
    env,    \* operations and faults so far
    past    \* the reading last committed; a reseed of this generation was refused

mirrorVars == <<st, mb, wk, ses, env, past>>

Closed == [open |-> FALSE, alive |-> FALSE, text |-> <<>>]
NoIntent == [gen |-> 0, kind |-> "none", text |-> <<>>]

\* The calls of the mailbox as the accesses they make.
BeginComposition == <<"advance">>
RequestClose == <<"advance", "bound", "close">>

\* bounded_mailbox; the thread may fail to start, which drops the receiver.
MirrorInit ==
    /\ st = [todo |-> <<>>, composing |-> FALSE, reading |-> <<>>, key |-> 0, cursor |-> FALSE,
             intent |-> NoIntent, gen |-> 0]
    /\ mb = [gen |-> 1, phase |-> "dirty", bound |-> 0, queue |-> <<>>, dropped |-> FALSE]
    /\ \E pc \in {"top", "exit"} :
          wk = [pc |-> pc, gen |-> 0, intent |-> NoIntent, mismatch |-> FALSE]
    /\ ses = Closed
    /\ env = [ops |-> 0, faults |-> 0]
    /\ past = [last |-> <<>>, missed |-> FALSE]

-----------------------------------------------------------------------------
(* Operations of the STA thread.                                           *)

Operation(next) ==
    /\ st.todo = <<>> /\ ~mb.dropped /\ env.ops < MaxOps
    /\ st' = next
    /\ env' = [env EXCEPT !.ops = @ + 1]
    /\ UNCHANGED <<mb, wk, ses>>

\* input_char_with_original up to the mailbox; cursor: typed away from the end of the reading.
TypeKey(cursor) ==
    /\ Operation([st EXCEPT !.key = env.ops + 1, !.cursor = cursor,
                            !.todo = (IF st.composing THEN <<>> ELSE BeginComposition) \o <<"key">>])
    /\ cursor => st.composing /\ st.reading # <<>>
    /\ UNCHANGED past

\* edit_reading and the partial commit: the reading got shorter and is replayed from its start.
Edit(text) ==
    /\ st.composing /\ text # <<>>
    /\ Operation([st EXCEPT !.reading = text, !.todo = RequestClose \o <<"reseed">>])
    /\ UNCHANGED past

\* The same edits in clause_mouse, reading_edit and local_clause_ui: the next key will replay.
EditWithoutReseed(text) ==
    /\ st.composing /\ text # <<>>
    /\ Operation([st EXCEPT !.reading = text, !.todo = RequestClose])
    /\ UNCHANGED past

\* Escape, a backspace that empties the reading, an abandoned composition, deactivation,
\* and every commit that ends the engine session.
Cancel ==
    /\ st.composing
    /\ Operation([st EXCEPT !.composing = FALSE, !.reading = <<>>, !.todo = RequestClose])
    /\ UNCHANGED past

\* Enter on a live reading, after the document took it.
Enter ==
    /\ st.composing
    /\ Operation([st EXCEPT !.composing = FALSE, !.reading = <<>>, !.todo = <<"commit">>])
    /\ past' = [past EXCEPT !.last = st.reading]

\* BackgroundInputWorker::drop.
Drop ==
    /\ Operation([st EXCEPT !.todo = RequestClose \o <<"drop">>])
    /\ UNCHANGED past

-----------------------------------------------------------------------------
(* The accesses of the STA thread.                                         *)

Access(name, rest) ==
    /\ st.todo # <<>> /\ Head(st.todo) = name
    /\ st' = [st EXCEPT !.todo = rest \o Tail(@)]
    /\ UNCHANGED <<wk, ses, env>>

\* advance_to_dirty.
Advance ==
    /\ st.todo # <<>> /\ Head(st.todo) = "advance"
    /\ st' = [st EXCEPT !.todo = Tail(@), !.gen = mb.gen + 1]
    /\ mb' = [mb EXCEPT !.gen = @ + 1, !.phase = "dirty"]
    /\ past' = [past EXCEPT !.missed = FALSE]
    /\ UNCHANGED <<wk, ses, env>>

\* advance_to_dirty(close): the fetch_max.
Bound ==
    /\ Access("bound", <<>>)
    /\ mb' = [mb EXCEPT !.bound = Max({@, st.gen})]
    /\ UNCHANGED past

Receiving == wk.pc # "exit" /\ Len(mb.queue) < Capacity

\* request_close: the Close is best effort.
SendClose ==
    /\ Access("close", <<>>)
    /\ mb' = [mb EXCEPT !.queue = IF Receiving
                                  THEN Append(@, [NoIntent EXCEPT !.gen = st.gen, !.kind = "close"])
                                  ELSE @]
    /\ UNCHANGED past

\* needs_reseed, then InputModule::handle: a key away from the end always asks for a reseed.
TakeKey ==
    /\ st.todo # <<>> /\ Head(st.todo) = "key"
    /\ LET reseed == st.cursor \/ mb.phase = "dirty"
           reading == IF st.cursor THEN <<st.key>> \o st.reading ELSE Append(st.reading, st.key)
       IN st' = [st EXCEPT !.composing = TRUE, !.reading = reading,
                           !.todo = <<IF reseed THEN "reseed" ELSE "delta">> \o Tail(@)]
    /\ UNCHANGED <<mb, wk, ses, env, past>>

\* try_reseed: DIRTY to RESEED_QUEUED, or nothing at all.
Reseed ==
    /\ st.todo # <<>> /\ Head(st.todo) = "reseed"
    /\ UNCHANGED <<wk, ses, env>>
    /\ \/ /\ mb.phase = "dirty"
          /\ mb' = [mb EXCEPT !.phase = "reseed_queued"]
          /\ st' = [st EXCEPT !.todo = <<"send">> \o Tail(@),
                              !.intent = [gen |-> mb.gen, kind |-> "reseed", text |-> st.reading]]
          /\ UNCHANGED past
       \/ /\ mb.phase # "dirty"
          /\ st' = [st EXCEPT !.todo = Tail(@)]
          /\ past' = [past EXCEPT !.missed = TRUE]
          /\ UNCHANGED mb

Fed == {"reseed_queued", "synced"}

\* try_delta.
Delta ==
    /\ st.todo # <<>> /\ Head(st.todo) = "delta"
    /\ st' = IF mb.phase \in Fed
             THEN [st EXCEPT !.todo = <<"send">> \o Tail(@),
                             !.intent = [gen |-> mb.gen, kind |-> "delta", text |-> <<st.key>>]]
             ELSE [st EXCEPT !.todo = Tail(@)]
    /\ UNCHANGED <<mb, wk, ses, env, past>>

\* try_commit_and_close.
Commit ==
    /\ st.todo # <<>> /\ Head(st.todo) = "commit"
    /\ IF mb.phase \in Fed
       THEN /\ mb' = [mb EXCEPT !.phase = "terminal"]
            /\ st' = [st EXCEPT !.todo = <<"send">> \o Tail(@),
                                !.intent = [NoIntent EXCEPT !.gen = mb.gen, !.kind = "commit"]]
       ELSE /\ st' = [st EXCEPT !.todo = RequestClose \o Tail(@)]
            /\ UNCHANGED mb
    /\ UNCHANGED <<wk, ses, env, past>>

\* Mutant: a full channel only drops the intent.
Send_Drops ==
    /\ Access("send", <<>>)
    /\ mb' = [mb EXCEPT !.queue = IF Receiving THEN Append(@, st.intent) ELSE @]
    /\ UNCHANGED past
\* enqueue: a full or closed channel gives the generation up.
Send ==
    /\ Access("send", IF Receiving THEN <<>> ELSE RequestClose)
    /\ mb' = [mb EXCEPT !.queue = IF Receiving THEN Append(@, st.intent) ELSE @]
    /\ UNCHANGED past

DropSender ==
    /\ Access("drop", <<>>)
    /\ mb' = [mb EXCEPT !.dropped = TRUE]
    /\ UNCHANGED past

\* A backspace, or a commit of the first part.
Shorter == IF st.reading = <<>> THEN {} ELSE {Front(st.reading), Tail(st.reading)}

STA ==
    \/ \E cursor \in BOOLEAN : TypeKey(cursor)
    \/ \E text \in Shorter : Edit(text) \/ EditWithoutReseed(text)
    \/ Cancel \/ Enter \/ Drop

Accesses ==
    Advance \/ Bound \/ SendClose \/ TakeKey \/ Reseed \/ Delta \/ Commit \/ Send \/ DropSender

-----------------------------------------------------------------------------
(* The input worker.                                                       *)

WorkerStep(pc, next) == wk.pc = pc /\ wk' = next /\ UNCHANGED <<st, env, past>>

\* Mutant: a session is closed only by the Close intent, which the channel may have dropped.
Turn_Ignores == WorkerStep("top", [wk EXCEPT !.pc = "recv"]) /\ UNCHANGED <<mb, ses>>
\* The close bound is looked at once per turn, on every poll.
Turn ==
    /\ WorkerStep("top", [wk EXCEPT !.pc = "recv",
                                    !.gen = IF wk.gen < mb.bound THEN 0 ELSE @])
    /\ ses' = IF wk.gen # 0 /\ wk.gen < mb.bound THEN Closed ELSE ses
    /\ UNCHANGED mb

\* recv_timeout: an intent, the poll interval, or the end of the channel.
Receive ==
    \/ /\ mb.queue # <<>>
       /\ WorkerStep("recv", [wk EXCEPT !.pc = "got", !.intent = Head(mb.queue)])
       /\ mb' = [mb EXCEPT !.queue = Tail(@)]
       /\ UNCHANGED ses
    \/ /\ mb.queue = <<>> /\ ~mb.dropped
       /\ WorkerStep("recv", [wk EXCEPT !.pc = "top"])
       /\ UNCHANGED <<mb, ses>>
    \/ /\ mb.queue = <<>> /\ mb.dropped
       /\ WorkerStep("recv", [wk EXCEPT !.pc = "exit", !.gen = 0])
       /\ ses' = Closed
       /\ UNCHANGED mb

\* An intent of another generation is stale; a new generation starts with a new session.
Take ==
    LET stale == wk.intent.gen # mb.gen
        close == wk.intent.kind = "close"
    IN /\ WorkerStep("got", [wk EXCEPT !.pc = IF stale \/ close THEN "top" ELSE "apply",
                                       !.gen = IF stale THEN @ ELSE IF close THEN 0 ELSE wk.intent.gen,
                                       !.intent = IF stale \/ close THEN NoIntent ELSE @])
       /\ ses' = IF ~stale /\ (close \/ wk.gen # wk.intent.gen) THEN Closed ELSE ses
       /\ UNCHANGED mb

\* The session apply works in: a reseed closes the old one, ensure_session opens one if needed.
Base == IF wk.intent.kind = "reseed" \/ ~ses.open THEN [Closed EXCEPT !.open = TRUE, !.alive = TRUE]
        ELSE ses

\* Every request was answered as expected.
Apply ==
    /\ ~wk.mismatch /\ Base.alive
    /\ WorkerStep("apply", [wk EXCEPT !.pc = CASE wk.intent.kind = "reseed" -> "sync"
                                               [] wk.intent.kind = "commit" -> "closing"
                                               [] wk.intent.kind = "delta" -> "top",
                                      !.intent = IF wk.intent.kind = "delta" THEN NoIntent ELSE @])
    /\ ses' = [Base EXCEPT !.text = @ \o wk.intent.text]
    /\ UNCHANGED mb

\* The session was lost in a crash, another version answered before, or a request fails now;
\* a mismatch of identity met while connecting is remembered for good.
ApplyFails ==
    /\ wk.pc = "apply"
    /\ \E mismatch \in {wk.mismatch, ~ses.open \/ wk.intent.kind = "reseed"} :
          wk' = [wk EXCEPT !.pc = "failed", !.mismatch = mismatch]
    /\ ses' = [Base EXCEPT !.alive = FALSE]
    /\ \/ (wk.mismatch \/ ~Base.alive) /\ wk'.mismatch = wk.mismatch /\ env' = env
       \/ env.faults < MaxMirrorFaults /\ env' = [env EXCEPT !.faults = @ + 1]
    /\ UNCHANGED <<st, mb, past>>

\* Mutant: a failed worker leaves the word to the STA.
MarkFailed_Keeps ==
    /\ wk.pc = "failed"
    /\ wk' = [wk EXCEPT !.pc = "closing"]
    /\ UNCHANGED <<st, mb, ses, env, past>>
\* mark_worker_failed: the generation is given up unless the STA moved on.
MarkFailed ==
    /\ wk.pc = "failed"
    /\ wk' = [wk EXCEPT !.pc = IF mb.gen = wk.intent.gen THEN "failed_bound" ELSE "closing"]
    /\ mb' = IF mb.gen = wk.intent.gen THEN [mb EXCEPT !.gen = @ + 1, !.phase = "dirty"] ELSE mb
    /\ past' = [past EXCEPT !.missed = @ /\ mb.gen # wk.intent.gen]
    /\ UNCHANGED <<st, ses, env>>

MarkFailedBound ==
    /\ WorkerStep("failed_bound", [wk EXCEPT !.pc = "closing"])
    /\ mb' = [mb EXCEPT !.bound = Max({@, wk.intent.gen + 1})]
    /\ UNCHANGED ses

\* After a failure and after CommitAndClose.
Close ==
    /\ WorkerStep("closing", [wk EXCEPT !.pc = "top", !.gen = 0, !.intent = NoIntent])
    /\ ses' = Closed
    /\ UNCHANGED mb

\* The reseed is acknowledged unless the STA has moved the word in the meantime.
Sync ==
    /\ WorkerStep("sync", [wk EXCEPT !.pc = "top", !.intent = NoIntent])
    /\ mb' = IF mb.gen = wk.intent.gen /\ mb.phase = "reseed_queued"
             THEN [mb EXCEPT !.phase = "synced"] ELSE mb
    /\ UNCHANGED ses

InputWorker ==
    \/ Turn \/ Receive \/ Take \/ Apply \/ ApplyFails
    \/ MarkFailed \/ MarkFailedBound \/ Close \/ Sync

\* The engine process dies with its sessions and is started again.
Crash ==
    /\ ses.alive /\ env.faults < MaxMirrorFaults
    /\ ses' = [ses EXCEPT !.alive = FALSE]
    /\ env' = [env EXCEPT !.faults = @ + 1]
    /\ UNCHANGED <<st, mb, wk, past>>

MirrorNext == STA \/ Accesses \/ InputWorker \/ Crash

\* The worker's loop polls every 10 ms and every request has a deadline; a call on the STA ends.
MirrorSpec == MirrorInit /\ [][MirrorNext]_mirrorVars /\ WF_mirrorVars(Accesses) /\ WF_mirrorVars(InputWorker)

-----------------------------------------------------------------------------
(* Properties.                                                             *)

\* What the worker holds and the channel carries, oldest first.
OnTheWay == (IF wk.pc \in {"got", "apply"} THEN <<wk.intent>> ELSE <<>>) \o mb.queue

Reseeds(g, i) == i.gen = g /\ i.kind = "reseed"

\* A session's text after the intent i, and after a line of intents, of generation g.
Followed(g, text, i) ==
    IF Reseeds(g, i) THEN i.text
    ELSE IF i.gen = g /\ i.kind = "delta" THEN text \o i.text ELSE text
Replayed(g, text, line) ==
    LET after[n \in 0..Len(line)] == IF n = 0 THEN text ELSE Followed(g, after[n - 1], line[n])
    IN after[Len(line)]

\* What the engine session will hold once they are applied.
Mirrored == Replayed(mb.gen, IF wk.gen = mb.gen THEN ses.text ELSE <<>>, OnTheWay)

Told ==
    /\ st.todo = <<>> /\ mb.phase # "dirty" /\ wk.pc \notin {"exit", "failed"}
    /\ \/ \E n \in DOMAIN OnTheWay : Reseeds(mb.gen, OnTheWay[n])
       \/ wk.gen = mb.gen /\ ses.alive

Intended == IF mb.phase = "terminal" THEN past.last ELSE st.reading

\* Whatever interleaving of keys, edits, commits, failures of the worker and a full channel:
\* once the mailbox counts a generation as fed, the session's text and the intents on their
\* way add up to the reading the user sees (after Enter: the reading that was committed and
\* that CommitAndClose makes the engine learn).  A refused reseed is the exception.
MirrorIsFaithful == Told /\ ~past.missed => Mirrored = Intended

\* The same without the exception: input_module.rs:1209 expects of a key typed away from the
\* end of the reading that "cursor edit must reseed".
CursorEditReseeds == Told => Mirrored = Intended

\* A reseed that was counted as queued is acknowledged or given up; a lost one would leave
\* the mailbox sending deltas to a session that never got its beginning.
ReseedSettles == mb.phase = "reseed_queued" ~> mb.phase # "reseed_queued"

\* A session the STA asked to close does not stay open in the engine.
StaleSessionCloses == (wk.gen # 0 /\ wk.gen < mb.bound) ~> (wk.gen = 0 \/ wk.gen >= mb.bound)
=============================================================================
