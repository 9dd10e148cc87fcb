----------------------------- MODULE EngineLink -----------------------------
(***************************************************************************)
(* The synchronous connection of the STA thread to EngineHost: correction  *)
(* conversion (Tab), the live result that a settle or Escape asks for,     *)
(* commits of candidates and clauses, undo and reconversion.  Sources: the *)
(* engine_* methods and ensure_engine of text_service.rs, their callers in *)
(* key_event_sink.rs, engine_link.rs and the client of the ipc crate.      *)
(*                                                                         *)
(* The protocol has no request ids: that an answer belongs to the request  *)
(* just sent rests on strict alternation, which timeouts, answers that are *)
(* owed, reconnections and a dying engine put to the test.                 *)
(***************************************************************************)
EXTENDS Integers, Sequences, FiniteSets

CONSTANTS MaxOps,       \* how many operations the user makes
          MaxLate,      \* how many requests time out
          MaxFaults,    \* how often the engine dies, refuses a handshake or reports busy
          MaxLen,       \* length of a reading, in segments
          RetryMax      \* RELOAD_RETRY_MAX, 5 in the code

ASSUME LinkAssumption ==
    /\ MaxOps \in Nat /\ MaxLate \in Nat /\ MaxFaults \in Nat
    /\ MaxLen \in Nat \ {0} /\ RetryMax \in Nat

VARIABLES
    tip,    \* the composition: reading, captured reading, candidates shown, clause navigation
    link,   \* client (and engine_session), pending_since, spawn_attempted; backoff; reload retry
    sta,    \* the blocking call the STA is in: requests still to make and what they are for
    wire,   \* requests and answers on the current pipe
    srv,    \* the engine process and the session this pipe owns
    env     \* operations, timeouts and faults so far

vars == <<tip, link, sta, wire, srv, env>>

Nothing == [reading |-> <<>>, recon |-> <<>>, cands |-> "none", nav |-> FALSE]
NoPipe == [req |-> <<>>, rep |-> <<>>, broken |-> FALSE]
\* The engine s without a session for this pipe.
Cleared(s) == [s EXCEPT !.text = <<>>, !.cached = FALSE, !.nav = FALSE]

Init ==
    /\ tip = Nothing
    /\ link = [open |-> FALSE, owed |-> FALSE, spawned |-> FALSE,
               cool |-> FALSE, mute |-> FALSE, retries |-> 0, timer |-> FALSE]
    /\ sta = [pc |-> "idle", plan |-> <<>>, goal |-> "none", stage |-> "none", once |-> FALSE]
    /\ wire = NoPipe
    /\ \E up \in BOOLEAN : srv = [up |-> up, text |-> <<>>, cached |-> FALSE, nav |-> FALSE]
    /\ env = [ops |-> 0, late |-> 0, faults |-> 0]

-----------------------------------------------------------------------------
(* The connection as a value.                                              *)

\* drop_engine.  The backoff is kept; the engine cleans the session up when the pipe closes.
Dropped(l) ==
    [l EXCEPT !.open = FALSE, !.owed = FALSE, !.spawned = FALSE, !.timer = FALSE]

\* engine_end_session: closing the pipe is the message.  (engine_session is set and cleared with
\* the client, so the StartSession that ensure_session would send never goes out.)
Ended(l) == IF l.open THEN Dropped(l) ELSE l

Awaiting(op) == sta.pc = "await" /\ sta.plan # <<>> /\ Head(sta.plan) = op
Reading == sta.pc = "await" /\ wire.rep # <<>>
Answer == Head(wire.rep)
Rest == [wire EXCEPT !.rep = Tail(@)]

\* A new value of the connection, after the answer if one was being read; a closed one takes its pipe and its session with it.
SetLink(l) ==
    /\ link' = l
    /\ wire' = IF l.open THEN (IF Reading THEN Rest ELSE wire) ELSE NoPipe
    /\ srv' = IF l.open THEN srv ELSE Cleared(srv)

\* A request goes out: from here on no earlier request or answer is the STA's own.
Sent(w, op, text) ==
    LET old(q) == [i \in DOMAIN q |-> [q[i] EXCEPT !.own = FALSE]]
    IN [w EXCEPT !.req = Append(old(@), [op |-> op, text |-> text, own |-> TRUE]), !.rep = old(@)]

-----------------------------------------------------------------------------
(* Operations: each is a plan of requests and a goal that their end serves. *)

Ready == sta.pc = "idle" /\ env.ops < MaxOps

Begin(goal, plan) ==
    /\ Ready
    /\ sta' = [sta EXCEPT !.pc = "run", !.goal = goal, !.plan = plan]
    /\ env' = [env EXCEPT !.ops = @ + 1]
    /\ UNCHANGED <<link, wire, srv>>

Local(l) ==
    /\ Ready
    /\ env' = [env EXCEPT !.ops = @ + 1]
    /\ SetLink(l)
    /\ UNCHANGED sta

\* Mutant: the connection in use is kept, and the reading is added to what its session holds.
Reanchor_Reuses == <<"ensure">> \o [i \in DOMAIN tip.reading |-> "insert"]
\* reanchor_engine_from_local: a new connection gets the canonical reading segment by segment.
Reanchor == <<"drop", "ensure">> \o [i \in DOMAIN tip.reading |-> "insert"]

Composing == tip.reading # <<>> /\ tip.recon = <<>>

\* input_char: the engine is not told.
Key ==
    /\ tip.recon = <<>> /\ Len(tip.reading) < MaxLen
    /\ Local(link)
    /\ tip' = [tip EXCEPT !.reading = Append(@, Len(@) + 1), !.cands = "none", !.nav = FALSE]

\* trigger_typo_convert.
Tab == Composing /\ tip.cands = "none" /\ Begin("typo", Reanchor \o <<"typo">>) /\ UNCHANGED tip

\* settle_active_input without candidates.
Settle == Composing /\ tip.cands = "none" /\ Begin("settle", Reanchor \o <<"live">>) /\ UNCHANGED tip

\* Escape over candidates: restore_live_preedit.
Escape ==
    /\ Composing /\ tip.cands # "none"
    /\ Begin("restore", Reanchor \o <<"live">>)
    /\ tip' = [tip EXCEPT !.cands = "none", !.nav = FALSE]

\* Candidates of an explicit snapshot whose clause data the TIP could not use.
SnapshotCandidates ==
    /\ Composing /\ tip.cands = "none"
    /\ Local(link)
    /\ tip' = [tip EXCEPT !.cands = "snapshot"]

\* commit_candidate on candidates of this connection.
CommitCandidate ==
    /\ Composing /\ tip.cands = "typo" /\ ~tip.nav
    /\ \E n \in 1..Len(tip.reading) : Begin("commit", <<IF n = Len(tip.reading) THEN "commit" ELSE "prefix">>)
    /\ UNCHANGED tip

\* Document edits can be refused; then nothing is folded away.
CommitSnapshotCandidate ==
    /\ Composing /\ tip.cands = "snapshot" /\ ~tip.nav
    /\ Local(Dropped(link))
    /\ \E rest \in {<<>>, Tail(tip.reading)}, applied \in BOOLEAN :
          tip' = IF applied THEN [Nothing EXCEPT !.reading = rest] ELSE tip

\* move_clause, sync_clause_to_selection and commit_clauses.
Arrow == Composing /\ tip.cands # "none" /\ Begin("move", <<"move">>) /\ UNCHANGED tip
Pick == Composing /\ tip.nav /\ Begin("select", <<"select">>) /\ UNCHANGED tip
CommitClauses == Composing /\ tip.nav /\ Begin("clauses", <<"clauses">>) /\ UNCHANGED tip

\* Enter on a live reading: commit_local_and_reset drops the main connection.
Enter ==
    /\ Composing /\ tip.cands = "none"
    /\ Local(Dropped(link))
    /\ tip' = Nothing

Capture(plan) ==
    /\ tip = Nothing
    /\ tip' = [tip EXCEPT !.recon = <<"captured">>]
    /\ Begin("reconvert", plan)

\* start_commit_undo: the text just committed is taken back as a reading.
Undo == Capture(<<"end", "ensure", "insert", "convert">>)

\* start_reconvert: Latin text is typed into the session, other text is sent as a surface.
Reconvert ==
    \/ Capture(<<"end", "ensure", "insert", "convert">>)
    \/ Capture(<<"end", "ensure", "surface">>)

\* commit_candidate while reconverting: the text is written first, then the correction is told.
CommitReconversion ==
    /\ tip.recon # <<>> /\ tip.cands = "recon"
    /\ \E record \in BOOLEAN : Begin("recommit", IF record THEN <<"correct">> ELSE <<>>)
    /\ UNCHANGED tip

\* cancel_reconvert, when the document takes the original text back.
CancelReconversion ==
    /\ tip.recon # <<>>
    /\ Local(Ended(link))
    /\ tip' = Nothing

\* fire_reload_retry.
ReloadRetry ==
    /\ sta.pc = "idle" /\ link.timer
    /\ link' = [link EXCEPT !.timer = FALSE]
    /\ sta' = [sta EXCEPT !.pc = "run", !.goal = "reload", !.plan = <<"reload">>]
    /\ UNCHANGED <<tip, wire, srv, env>>

\* poll_power_events after a resume.
Resume ==
    /\ Local(LET l == [link EXCEPT !.cool = FALSE, !.mute = FALSE]
             IN IF tip = Nothing THEN Dropped(l) ELSE l)
    /\ UNCHANGED tip

\* The cooldown of ReconnectBackoff is over.
Cooled == link.cool /\ link' = [link EXCEPT !.cool = FALSE] /\ UNCHANGED <<tip, sta, wire, srv, env>>

-----------------------------------------------------------------------------
(* The end of an operation.                                                *)

Idle == [sta EXCEPT !.pc = "idle", !.plan = <<>>, !.goal = "none"]

Finish(t, l) == tip' = t /\ SetLink(l) /\ sta' = Idle /\ UNCHANGED env

Goal(g) == sta.goal = g

\* FullReset of apply_commit_plan, and commit_clauses: a refused edit gives the connection up.
FullCommit(l) == Finish(Nothing, Ended(l)) \/ Finish(tip, Dropped(l))

\* The requests failed: every operation goes on with what the TIP itself knows.  A reconversion
\* is cancelled; that the document refuses to take its text back is left out.
GiveUp(l) ==
    \/ Goal("typo") /\ Finish(tip, l)
    \/ Goal("restore") /\ Finish(tip, l)
    \/ Goal("move") /\ Finish(tip, l)
    \/ Goal("select") /\ Finish(tip, l)
    \/ Goal("reload") /\ Finish(tip, l)
    \/ Goal("settle") /\ (Finish(Nothing, Ended(l)) \/ Finish(tip, l))
    \/ Goal("commit") /\ FullCommit(l)
    \/ Goal("clauses") /\ FullCommit(l)
    \/ Goal("reconvert") /\ Finish(Nothing, Ended(l))
    \/ Goal("recommit") /\ Finish(Nothing, Ended(l))

\* PartialReseed: the rest of the reading stays, in the TIP and in the session.
PrefixCommit(l) ==
    Finish([Nothing EXCEPT !.reading = Tail(tip.reading)], l) \/ Finish(tip, Dropped(l))

\* The last request was answered as expected.
Achieve(op, l) ==
    \/ op = "typo" /\ Finish([tip EXCEPT !.cands = "typo"], l)
    \/ op \in {"convert", "surface"} /\ Finish([tip EXCEPT !.cands = "recon"], l)
    \/ op = "live" /\ Goal("restore") /\ Finish(tip, l)
    \/ op = "live" /\ Goal("settle") /\ (Finish(Nothing, Ended(l)) \/ Finish(tip, l))
    \/ op = "commit" /\ FullCommit(l)
    \/ op = "prefix" /\ PrefixCommit(l)
    \/ op = "clauses" /\ FullCommit(l)
    \/ op = "move" /\ Finish([tip EXCEPT !.nav = TRUE], l)
    \/ op = "select" /\ Finish(tip, l)
    \/ op = "correct" /\ Finish(Nothing, Ended(l))
    \/ op = "reload" /\ Goal("reload") /\ Finish(tip, l)

-----------------------------------------------------------------------------
(* Steps of a call.                                                        *)

At(step) == sta.pc = "run" /\ sta.plan # <<>> /\ Head(sta.plan) = step
Done == [sta EXCEPT !.pc = "run", !.plan = Tail(@)]

\* recommit without a correction has no request to make.
NoRequest == sta.pc = "run" /\ sta.plan = <<>> /\ GiveUp(link)

DropStep == At("drop") /\ SetLink(Dropped(link)) /\ sta' = Done /\ UNCHANGED <<tip, env>>
EndStep == At("end") /\ SetLink(Ended(link)) /\ sta' = Done /\ UNCHANGED <<tip, env>>

\* ensure_engine: a probe while it cools down, or the full course.
EnsureStep ==
    /\ At("ensure")
    /\ sta' = IF link.open \/ (link.cool /\ link.mute) THEN Done
              ELSE [sta EXCEPT !.pc = "course", !.once = FALSE,
                               !.stage = IF link.cool THEN "probe" ELSE "first"]
    /\ UNCHANGED <<tip, link, wire, srv, env>>

\* Connect and StartSession on the new pipe.
Connect ==
    /\ sta.pc = "course" /\ sta.stage \in {"probe", "first", "second", "spawned"} /\ srv.up
    /\ sta' = [sta EXCEPT !.pc = "await", !.plan = <<"start">> \o @, !.once = TRUE]
    /\ wire' = Sent(NoPipe, "start", <<>>)
    /\ srv' = Cleared(srv)
    /\ UNCHANGED <<tip, link, env>>

\* Nobody listens, or the handshake failed: what ensure_engine tries next.
After(stage, l) ==
    CASE stage = "probe" -> "done"
      [] stage = "first" -> IF l.spawned THEN "failed" ELSE "second"
      [] stage = "second" -> "spawn"
      [] OTHER -> "failed"

NotListening ==
    /\ sta.pc = "course" /\ ~srv.up /\ sta.stage \in {"probe", "first", "second", "spawned"}
    /\ sta' = [sta EXCEPT !.stage = After(@, link)]
    /\ link' = [link EXCEPT !.spawned = @ \/ sta'.stage = "second"]
    /\ UNCHANGED <<tip, wire, srv, env>>

\* spawn_engine_hidden may fail, and the process may not listen in time.
Spawn ==
    /\ sta.pc = "course" /\ sta.stage = "spawn"
    /\ \E spawned, listens \in BOOLEAN :
          /\ sta' = [sta EXCEPT !.stage = IF spawned THEN "spawned" ELSE "failed"]
          /\ srv' = [srv EXCEPT !.up = @ \/ (spawned /\ listens)]
    /\ UNCHANGED <<tip, link, wire, env>>

\* A free probe costs nothing; a failed course starts the cooldown.
CourseFails ==
    /\ sta.pc = "course" /\ sta.stage \in {"done", "failed"}
    /\ link' = IF sta.stage = "failed" THEN [link EXCEPT !.cool = TRUE, !.mute = sta.once] ELSE link
    /\ sta' = Done
    /\ UNCHANGED <<tip, wire, srv, env>>

\* start_and_store did not leave a client behind: a mute probe, or the course goes on.
SessionFails(l) ==
    /\ SetLink([l EXCEPT !.cool = @ \/ sta.stage = "probe", !.mute = @ \/ sta.stage = "probe",
                         !.spawned = @ \/ After(sta.stage, l) = "second"])
    /\ sta' = [sta EXCEPT !.pc = "course", !.plan = Tail(@), !.stage = After(@, l)]
    /\ UNCHANGED <<tip, env>>

Requests == {"insert", "typo", "live", "convert", "surface", "commit", "prefix", "move", "select",
             "clauses", "correct"}

\* The segment an insert carries: as many went before as are left to go after.
Segment ==
    IF tip.recon # <<>> THEN tip.recon
    ELSE LET left == Cardinality({i \in DOMAIN sta.plan : sta.plan[i] = "insert"})
         IN <<tip.reading[Len(tip.reading) - left + 1]>>

Payload(op) == CASE op = "insert" -> Segment [] op = "surface" -> tip.recon [] OTHER -> <<>>

\* Every request but ReloadConfig first reads an answer that is owed (INV1).  Without a
\* connection the call returns None.
Write ==
    \E op \in Requests :
       /\ At(op) /\ ~link.owed
       /\ \/ /\ link.open
             /\ wire' = Sent(wire, op, Payload(op))
             /\ sta' = [sta EXCEPT !.pc = "await"]
             /\ UNCHANGED <<tip, link, srv, env>>
          \/ ~link.open /\ GiveUp(link)

\* prepare_send: the late answer is read and thrown away.
Drain ==
    /\ link.owed /\ \E op \in Requests : At(op)
    /\ wire.rep # <<>>
    /\ wire' = [wire EXCEPT !.rep = Tail(@)]
    /\ link' = [link EXCEPT !.owed = FALSE]
    /\ UNCHANGED <<tip, sta, srv, env>>

\* It does not come in time (LiveConvert and RecordCorrection keep the connection, the others
\* drop it), has not come for PENDING_MAX, or the pipe is broken.
DrainFails ==
    /\ link.owed /\ \E op \in Requests : At(op)
    /\ \/ wire.rep = <<>> /\ ~wire.broken /\ \E op \in {"live", "correct"} : At(op) /\ GiveUp(link)
       \/ GiveUp(Dropped(link))

\* engine_reload_config does not drain: a request while an answer is owed is an error.
Reload ==
    /\ At("reload")
    /\ \/ link.open /\ ~link.owed
          /\ wire' = Sent(wire, "reload", <<>>)
          /\ sta' = [sta EXCEPT !.pc = "await"]
          /\ UNCHANGED <<tip, link, srv, env>>
       \/ link.open /\ link.owed /\ GiveUp(Dropped(link))
       \/ ~link.open /\ GiveUp(link)

-----------------------------------------------------------------------------
(* Answers.                                                                *)

Expected(op) ==
    CASE op = "start" -> "session" [] op = "insert" -> "reading"
      [] op \in {"typo", "convert", "surface"} -> "candidates" [] op = "live" -> "live"
      [] op \in {"commit", "prefix", "clauses"} -> "committed" [] op \in {"move", "select"} -> "view"
      [] op \in {"correct", "reload"} -> "ok"

\* The handshake accepts: the client is stored and the settings are pushed at once.
Accepted ==
    /\ Awaiting("start") /\ wire.rep # <<>> /\ Answer.kind = "session"
    /\ link' = [link EXCEPT !.open = TRUE, !.retries = 0]
    /\ wire' = Sent(Rest, "reload", <<>>)
    /\ sta' = [sta EXCEPT !.plan = <<"reload">> \o Tail(@)]
    /\ UNCHANGED <<tip, srv, env>>

\* The engine speaks another protocol version.
Rejected ==
    /\ Awaiting("start") /\ wire.rep # <<>> /\ Answer.kind = "foreign"
    /\ SessionFails(Dropped(link))

\* schedule_reload_retry: a busy engine is asked again, a bounded number of times per connection.
Rescheduled(l) ==
    [l EXCEPT !.retries = IF @ <= RetryMax THEN @ + 1 ELSE @, !.timer = l.retries < RetryMax]

\* ReloadConfig was answered: by the course (back to ensure_engine's caller) or by the timer.
Reloaded ==
    /\ Awaiting("reload") /\ wire.rep # <<>> /\ Answer.kind \in {"ok", "error"}
    /\ LET l == IF Answer.kind = "ok" THEN [link EXCEPT !.retries = 0] ELSE Rescheduled(link)
       IN IF Goal("reload")
          THEN tip' = tip /\ link' = l /\ sta' = Idle
          ELSE /\ link' = [l EXCEPT !.cool = FALSE, !.mute = FALSE]
               /\ sta' = [Done EXCEPT !.plan = Tail(Tail(sta.plan))]
               /\ tip' = tip
    /\ wire' = Rest
    /\ UNCHANGED <<srv, env>>

\* The answer to the last or to an earlier request of the plan.
Answered ==
    \E op \in Requests :
       /\ Awaiting(op) /\ wire.rep # <<>> /\ Answer.kind = Expected(op)
       /\ IF Tail(sta.plan) # <<>>
          THEN wire' = Rest /\ sta' = Done /\ UNCHANGED <<tip, link, srv, env>>
          ELSE Achieve(op, link)

Declinable == {"commit", "prefix", "move", "select", "clauses"}

\* An Error declines a commit or a clause operation and leaves a correction unrecorded; any
\* other answer than the expected one gives the connection up.
Unexpected ==
    \E op \in Requests :
       /\ Awaiting(op) /\ wire.rep # <<>> /\ Answer.kind # Expected(op)
       /\ IF op = "correct" \/ (op \in Declinable /\ Answer.kind = "error")
          THEN GiveUp(link) ELSE GiveUp(Dropped(link))

Late(op) == Awaiting(op) /\ wire.rep = <<>> /\ env.late < MaxLate

\* INV3: Insert and LiveConvert keep the connection and owe the answer.
TimeoutKeeps ==
    /\ \E op \in {"insert", "live"} : Late(op)
    /\ link' = [link EXCEPT !.owed = TRUE]
    /\ sta' = [sta EXCEPT !.pc = "gave_up"]
    /\ env' = [env EXCEPT !.late = @ + 1]
    /\ UNCHANGED <<tip, wire, srv>>

\* Mutant: a late answer to a commit or clause request is nobody's business.
DropsWhenLate_NotDeclinable(op) == op \notin Declinable
\* All other requests drop the connection.
DropsWhenLate(op) == TRUE

TimeoutDrops ==
    /\ \E op \in Requests \ {"insert", "live"} :
          Late(op) /\ SetLink(IF DropsWhenLate(op) THEN Dropped(link) ELSE link)
    /\ sta' = [sta EXCEPT !.pc = "gave_up"]
    /\ env' = [env EXCEPT !.late = @ + 1]
    /\ UNCHANGED tip

GaveUp == sta.pc = "gave_up" /\ GiveUp(link)

\* StartSession or ReloadConfig in ensure_engine and by the reload timer.
TimeoutInCourse ==
    /\ \E op \in {"start", "reload"} : Late(op) \/ (Awaiting(op) /\ wire.rep = <<>> /\ wire.broken)
    /\ env' = [env EXCEPT !.late = IF wire.broken THEN @ ELSE @ + 1]
    /\ tip' = tip
    /\ LET dropped == IF Awaiting("start") THEN [link EXCEPT !.open = FALSE] ELSE Dropped(link)
           failed == [dropped EXCEPT !.cool = @ \/ sta.stage = "probe", !.mute = @ \/ sta.stage = "probe",
                                     !.spawned = @ \/ After(sta.stage, dropped) = "second"]
       IN IF Goal("reload") THEN SetLink(dropped) /\ sta' = Idle
          ELSE /\ SetLink(failed)
               /\ sta' = [sta EXCEPT !.pc = "course", !.stage = After(@, dropped), !.plan = Tail(@)]

\* The pipe broke and nothing is left to read.
Broken ==
    /\ \E op \in Requests : Awaiting(op)
    /\ wire.rep = <<>> /\ wire.broken
    /\ GiveUp(Dropped(link))

-----------------------------------------------------------------------------
(* The engine.                                                             *)

Reply(kind, text) ==
    /\ wire' = [wire EXCEPT !.req = Tail(@),
                            !.rep = Append(@, [kind |-> kind, text |-> text, own |-> Head(wire.req).own])]
    /\ UNCHANGED <<tip, link, sta>>

\* One request of this pipe, by what it does to the session: insert invalidates the candidate
\* cache, a conversion fills it, a commit consumes reading and cache, clause navigation needs
\* cached candidates that cover the reading.
Serve ==
    /\ srv.up /\ wire.req # <<>> /\ ~wire.broken
    /\ LET r == Head(wire.req)
           consumed == IF r.op = "prefix" THEN Tail(srv.text) ELSE <<>>
       IN \/ /\ r.op = "start" /\ Reply("session", <<>>)
             /\ UNCHANGED <<srv, env>>
          \/ /\ r.op = "start" /\ env.faults < MaxFaults /\ Reply("foreign", <<>>)
             /\ env' = [env EXCEPT !.faults = @ + 1] /\ UNCHANGED srv
          \/ /\ r.op = "insert" /\ Reply("reading", srv.text \o r.text)
             /\ srv' = [srv EXCEPT !.text = @ \o r.text, !.cached = FALSE, !.nav = FALSE]
             /\ UNCHANGED env
          \/ /\ r.op \in {"typo", "live", "convert"} /\ Reply(Expected(r.op), srv.text)
             /\ srv' = [srv EXCEPT !.cached = TRUE, !.nav = FALSE]
             /\ UNCHANGED env
          \/ /\ r.op = "surface" /\ Reply("candidates", r.text)
             /\ srv' = [srv EXCEPT !.text = r.text, !.cached = TRUE]
             /\ UNCHANGED env
          \/ /\ r.op \in {"commit", "prefix"} /\ UNCHANGED env
             /\ IF srv.cached /\ srv.text # <<>>
                THEN /\ Reply("committed", srv.text)
                     /\ srv' = [srv EXCEPT !.text = consumed, !.cached = FALSE, !.nav = FALSE]
                ELSE Reply("error", <<>>) /\ UNCHANGED srv
          \/ /\ r.op \in {"move", "select"} /\ UNCHANGED env
             /\ \/ /\ srv.cached /\ (r.op = "select" => srv.nav)
                   /\ Reply("view", srv.text) /\ srv' = [srv EXCEPT !.nav = TRUE]
                \/ Reply("error", <<>>) /\ UNCHANGED srv
          \/ /\ r.op = "clauses" /\ UNCHANGED env
             /\ IF srv.nav THEN Reply("committed", srv.text)
                                /\ srv' = Cleared(srv)
                ELSE Reply("error", <<>>) /\ UNCHANGED srv
          \/ r.op \in {"correct", "reload"} /\ Reply("ok", <<>>) /\ UNCHANGED <<srv, env>>
          \/ /\ r.op = "reload" /\ env.faults < MaxFaults /\ Reply("error", <<>>)
             /\ env' = [env EXCEPT !.faults = @ + 1] /\ UNCHANGED srv

\* The process dies; what it had written stays readable.
Die ==
    /\ srv.up /\ env.faults < MaxFaults
    /\ srv' = [Cleared(srv) EXCEPT !.up = FALSE]
    /\ wire' = [wire EXCEPT !.req = <<>>, !.broken = link.open \/ Awaiting("start")]
    /\ env' = [env EXCEPT !.faults = @ + 1]
    /\ UNCHANGED <<tip, link, sta>>

\* A spawned engine listens at last, or another process started one.
Listen == ~srv.up /\ srv' = [srv EXCEPT !.up = TRUE] /\ UNCHANGED <<tip, link, sta, wire, env>>

User ==
    \/ Key \/ Tab \/ Settle \/ Escape \/ SnapshotCandidates \/ CommitCandidate
    \/ CommitSnapshotCandidate \/ Arrow \/ Pick \/ CommitClauses \/ Enter
    \/ Undo \/ Reconvert \/ CommitReconversion \/ CancelReconversion \/ Resume

Call ==
    \/ NoRequest \/ DropStep \/ EndStep \/ EnsureStep \/ Connect \/ NotListening \/ Spawn
    \/ CourseFails \/ Write \/ Drain \/ DrainFails \/ Reload
    \/ Accepted \/ Rejected \/ Reloaded \/ Answered \/ Unexpected
    \/ TimeoutKeeps \/ TimeoutDrops \/ GaveUp \/ TimeoutInCourse \/ Broken

Engine == Serve \/ Die \/ Listen

Next == User \/ ReloadRetry \/ Cooled \/ Call \/ Engine

Spec == Init /\ [][Next]_vars

-----------------------------------------------------------------------------
(* Properties.                                                             *)

\* Without request ids: the answer the STA is about to take is the one to the request it just
\* sent, over every mix of timeouts, owed answers, drains, reloads and reconnections.
AnswersAreOwn == Reading => Answer.own

\* What an answer speaks of is what the user is converting: the reading, or the captured text
\* of a reconversion.  Candidates, clause views and commits of a session that a commit, a
\* refused document edit or a lost insert put out of step would say something else.  (Clause
\* moves over candidates of a snapshot are not covered: they ask a session nobody reanchored.)
AnswersMatchTheReading ==
    Reading /\ Answer.kind \in {"candidates", "live", "committed", "view"}
            /\ tip.cands # "snapshot"
       => Answer.text = (IF tip.recon # <<>> THEN tip.recon ELSE tip.reading)

\* The same for clause moves over candidates of a snapshot.
ClauseMovesMatchTheReading ==
    Reading /\ Answer.kind = "view" => Answer.text = tip.reading
=============================================================================
