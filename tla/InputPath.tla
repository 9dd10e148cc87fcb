----------------------------- MODULE InputPath -----------------------------
(***************************************************************************)
(* The path of a keystroke through the TIP: reading, conversion queue,     *)
(* commit sessions of the host document, and the events that interrupt     *)
(* them (late and refused edit sessions, late engine replies, focus        *)
(* changes, compositions the host ends).  Sources: key_event_sink.rs,      *)
(* local_clause_ui.rs, pending_commit.rs, commit_session.rs,               *)
(* preedit_apply.rs and the edit-session part of text_service.rs.          *)
(*                                                                         *)
(* Everything here runs on one STA thread, but TSF may refuse an edit      *)
(* session, run it at once, or keep it and run it later.  A key, a timer   *)
(* or a callback is one step; the drain of the queue it starts is one step *)
(* per queued action (pc = "drain"), and keys wait until it stops.         *)
(*                                                                         *)
(* Typed characters are 1, 2, 3... in the order of the keys, so a text is  *)
(* a sequence of numbers and "in the order typed" is "increasing".         *)
(***************************************************************************)
EXTENDS ConversionQueue

CONSTANTS Contexts,        \* the documents
          First,           \* the document that has the focus first
          Moves,           \* the focus changes, as pairs of documents
          MaxChars,        \* how many characters the user types
          MaxKeys,         \* how many other keys the user presses
          RetryMax,        \* COMPOSITION_END_RETRY_MAX, 3 in the code
          Slots            \* edit sessions the host may keep for later

ASSUME InputAssumption == /\ First \in Contexts /\ Moves \subseteq Contexts \X Contexts
                          /\ MaxChars \in Nat
                          /\ MaxKeys \in Nat /\ RetryMax \in Nat \ {0, 1}
                          /\ Slots \in SUBSET (Nat \ {0})

VARIABLES
    q,          \* conversion_queue
    reading,    \* state.canonical_reading()
    mode,       \* idle, editing, converting (local_clauses.mode)
    window,     \* candidate window of the clause: closed, loading, ready
    snap,       \* explicit_snapshot_pending
    redraw,     \* local_clause_redraw_pending
    open,       \* a composition of ours is open in the document
    endp,       \* composition_end_pending with its retry count and caret
    req,        \* commit requests whose session the host may still run
    pend,       \* the slot of pending_commit, 0 for none
    ctx,        \* the focused document
    doc,        \* what was written into each document
    pc, parked, \* the STA between two events, or draining; a key to admit again
    keys,       \* how many more keys other than text the user presses
    next,       \* the next character to be typed
    where,      \* the document each accepted character was typed in
    gone,       \* characters the user erased or whose composition was given up
    thrown,     \* accepted characters a clear or a commit dropped
    leaked,     \* characters kept by a reading after their document or their commit
    overtaken   \* characters that waited in the queue when a later key did not

tsf  == <<open, endp, req, pend, doc>>
edit == <<reading, mode, window, redraw>>
typed == <<next, where>>
ghost == <<gone, thrown, leaked>>
vars == <<q, reading, mode, window, snap, redraw, open, endp, req, pend, ctx, doc,
          pc, parked, keys, next, where, gone, thrown, leaked, overtaken>>

Chars == 1..MaxChars
NoAct == Act("None", 0)
NoEnd == [on |-> FALSE, tries |-> 0, caret |-> FALSE]
FreeReq == [body |-> <<>>, ctx |-> "none", held |-> FALSE, applied |-> FALSE,
            stale |-> FALSE, past |-> FALSE, cur |-> FALSE, owned |-> FALSE]

Init == /\ q = EmptyQueue /\ reading = <<>> /\ mode = "idle" /\ window = "closed"
        /\ snap = FALSE /\ redraw = FALSE /\ open = FALSE /\ endp = NoEnd
        /\ req = [s \in Slots |-> FreeReq] /\ pend = 0
        /\ ctx = First /\ doc = [c \in Contexts |-> <<>>]
        /\ pc = "idle" /\ parked = NoAct /\ next = 1 /\ keys = MaxKeys
        /\ where = [ch \in Chars |-> "none"]
        /\ gone = {} /\ thrown = {} /\ leaked = {} /\ overtaken = {}

-----------------------------------------------------------------------------
(* Edit sessions.  What a session did is a value, so that one handler can  *)
(* run several of them.                                                    *)

(* One close-only attempt (EndCompositionOnly): closed, closed for good by *)
(* the host, or to be retried; the third failure gives the composition up  *)
(* unless the caret of the committed text still has to be placed.          *)
FinishEnd(e) ==
    IF ~e.on THEN {[ok |-> TRUE, e |-> e, bump |-> FALSE]}
    ELSE {[ok |-> TRUE, e |-> NoEnd, bump |-> b] : b \in BOOLEAN} \cup
         {IF e.tries + 1 < RetryMax
            THEN [ok |-> FALSE, e |-> [e EXCEPT !.tries = @ + 1, !.caret = c], bump |-> FALSE]
          ELSE IF c THEN [ok |-> FALSE, e |-> e, bump |-> FALSE]
          ELSE [ok |-> TRUE, e |-> NoEnd, bump |-> TRUE] : c \in {FALSE, e.caret}}

(* What is left to close after the body was written.                       *)
SessionEnds(composed) ==
    {NoEnd, [on |-> TRUE, tries |-> 1, caret |-> TRUE]}
      \cup IF composed THEN {[on |-> TRUE, tries |-> 1, caret |-> FALSE]} ELSE {}

(* A slot is given back when neither the host nor pending_commit has it.   *)
Tidy(r, p) == [s \in Slots |-> IF r[s].held \/ s = p THEN r[s] ELSE FreeReq]
Invalidated(r) == [s \in Slots |-> [r[s] EXCEPT !.cur = FALSE]]
Revoked(r, p) ==
    IF p = 0 THEN r ELSE [r EXCEPT ![p].stale = @ \/ ~r[p].applied]
Disowned(r, p, bump) == IF bump /\ p # 0 THEN [r EXCEPT ![p].owned = FALSE] ELSE r
RequestWaits(r) == ~r.applied /\ ~r.stale /\ ~r.past

Write(body) == [doc EXCEPT ![ctx] = @ \o body]

Outcome(ok, r, p, d, o, e) ==
    [ok |-> ok, req |-> Tidy(r, p), pend |-> p, doc |-> d, open |-> o, endp |-> e]

(* CommitText is requested once the composition before it is closed.  Only *)
(* the commit of the queue may be answered later; any other is revoked     *)
(* when its request returns without having written.                        *)
FreshCommit(r, body, queued) ==
    LET opened(f) == open /\ (endp.on => f.e.on)
        slots == {s \in Slots : ~r[s].held}
        slot  == CHOOSE s \in slots : \A t \in slots : s <= t
        asked == [FreeReq EXCEPT !.body = body, !.ctx = ctx, !.held = TRUE,
                                 !.cur = TRUE, !.owned = TRUE, !.stale = ~queued]
        Refused(f)  == {Outcome(FALSE, r, 0, doc, opened(f), f.e)}
        Deferred(f) == IF slots = {} THEN {}
                       ELSE {Outcome(FALSE, [r EXCEPT ![slot] = asked],
                                     IF queued THEN slot ELSE 0, doc, opened(f), f.e)}
        Written(f)  == UNION {{Outcome(TRUE, r, 0, Write(body), opened(f) /\ g.e.on, g.e)
                                 : g \in FinishEnd(e)} : e \in SessionEnds(opened(f))}
    IN  UNION {IF f.ok THEN Refused(f) \cup Deferred(f) \cup Written(f) ELSE Refused(f)
                 : f \in FinishEnd(endp)}

DoCommit_Again(body, queued) ==   \* mutant: a written body is not remembered
    FreshCommit(Invalidated(Tidy(Revoked(req, pend), 0)), body, queued)
DoCommit(body, queued) ==
    LET p == req[pend]
        released == Revoked(req, pend)
    IN  IF pend = 0 THEN FreshCommit(Invalidated(req), body, queued)
        ELSE IF ~p.owned \/ p.ctx # ctx \/ p.body # body
          THEN {Outcome(FALSE, req, pend, doc, open, endp)}
        ELSE IF p.applied
          THEN {Outcome(TRUE, released, 0, doc, open /\ f.e.on, f.e) : f \in FinishEnd(endp)}
        ELSE IF RequestWaits(p) THEN {Outcome(FALSE, req, pend, doc, open, endp)}
        ELSE FreshCommit(Invalidated(Tidy(released, 0)), body, queued)

(* Cancelling takes the text of the composition out of the document; when  *)
(* that text is already committed only the composition is closed.          *)
DoCancel ==
    LET r == Invalidated(Revoked(req, pend))
    IN  IF endp.on
          THEN {Outcome(f.ok, r, 0, doc, open /\ f.e.on, f.e)
                  : f \in FinishEnd([endp EXCEPT !.caret = FALSE])}
          ELSE {Outcome(TRUE, r, 0, doc, FALSE, endp), Outcome(FALSE, r, 0, doc, open, endp)}

Take(o) == /\ req' = o.req /\ pend' = o.pend /\ doc' = o.doc
           /\ open' = o.open /\ endp' = o.endp

(* A display may be refused; while a commit is pending it always is.       *)
Display == open' \in {open, open \/ pend = 0}
Render  == \/ redraw' = FALSE /\ pend = 0 /\ open' = TRUE
           \/ redraw' = TRUE /\ Display

ResetInput == /\ reading' = <<>> /\ mode' = "idle" /\ window' = "closed" /\ redraw' = FALSE

(* The body a queued Commit writes: the clauses, or the reading the wait   *)
(* started from, or the reading.                                           *)
CommitBody == IF mode = "converting" \/ redraw \/ q.initial = {} THEN reading
              ELSE CHOOSE r \in q.initial : TRUE

Accept(ch) == IF ch = 0 THEN UNCHANGED typed
              ELSE next' = next + 1 /\ where' = [where EXCEPT ![ch] = ctx]

Drop(dead) == thrown' = thrown \cup dead
Erase(dead) == gone' = gone \cup dead

-----------------------------------------------------------------------------
(* Losing the document that owns the queue.                                *)
RetiredQueue_Unwritten ==   \* mutant: detach does not ask whether the body is written
    Detach(q, IF pend # 0 THEN {req[pend].body} ELSE {}, FALSE)
RetiredQueue ==
    LET body == IF pend # 0 THEN {req[pend].body}
                ELSE IF HasCommit(q) THEN {reading} ELSE {}
    IN  Detach(q, body, pend # 0 /\ req[pend].applied)

RetireOwner == /\ q' = RetiredQueue
               /\ req' = Tidy(Invalidated(Revoked(req, pend)), 0) /\ pend' = 0
               /\ snap' = FALSE

ResetAbandoned == /\ RetireOwner /\ ResetInput
                  /\ open' = FALSE /\ endp' = NoEnd
                  /\ Erase(ToSet(reading) \ UNION {ToSet(b) : b \in RetiredQueue.unwritten})
                  /\ UNCHANGED doc

(* OnSetFocus and OnKillThreadFocus: the queue is retired when it has      *)
(* work, the composition abandoned when one is open.                       *)
OnSetFocus(c) ==
    /\ pc = "idle" /\ <<ctx, c>> \in Moves
    /\ ctx' = c
    /\ IF open THEN ResetAbandoned /\ UNCHANGED leaked
       ELSE /\ IF HasWork(q) THEN RetireOwner
               ELSE q' = q /\ req' = Invalidated(req) /\ UNCHANGED <<pend, snap>>
            /\ leaked' = leaked \cup ToSet(reading)
            /\ UNCHANGED <<edit, open, endp, doc, gone>>
    /\ UNCHANGED <<pc, parked, typed, thrown>>

(* The host ends our composition, also in the middle of a drain.           *)
OnCompositionTerminated ==
    /\ open
    /\ IF endp.on
         THEN /\ endp' = NoEnd /\ open' = FALSE /\ req' = Invalidated(req)
              /\ UNCHANGED <<q, edit, snap, pend, doc, gone>>
         ELSE ResetAbandoned
    /\ UNCHANGED <<ctx, pc, parked, typed, thrown, leaked>>

(* OnPushContext, OnPopContext: requests in flight lose their validity.    *)
OnPushContext ==
    /\ pc = "idle" /\ \E s \in Slots : req[s].cur
    /\ req' = Invalidated(req)
    /\ UNCHANGED <<q, edit, snap, open, endp, pend, ctx, doc, pc, parked, typed, ghost>>

(* The host runs a session it kept: CommitText.DoEditSession.              *)
RunHeldSession(s) ==
    /\ pc = "idle" /\ req[s].held
    /\ IF req[s].cur /\ ~req[s].stale /\ ~req[s].past
         THEN \E e \in SessionEnds(open) :
                /\ doc' = [doc EXCEPT ![req[s].ctx] = @ \o req[s].body]
                /\ endp' = e /\ open' = (open /\ e.on)
                /\ req' = Tidy([req EXCEPT ![s].held = FALSE, ![s].applied = TRUE], pend)
         ELSE /\ req' = Tidy([req EXCEPT ![s].held = FALSE, ![s].stale = TRUE], pend)
              /\ UNCHANGED <<doc, endp, open>>
    /\ UNCHANGED <<q, edit, snap, pend, ctx, pc, parked, typed, ghost>>

(* 1200 ms pass.                                                           *)
Tick ==
    \/ /\ q.due = "running" /\ q' = [q EXCEPT !.due = "past"] /\ UNCHANGED req
       /\ UNCHANGED <<edit, snap, open, endp, pend, ctx, doc, pc, parked, typed, ghost>>
    \/ /\ pend # 0 /\ ~req[pend].past /\ req' = [req EXCEPT ![pend].past = TRUE]
       /\ UNCHANGED <<q, edit, snap, open, endp, pend, ctx, doc, pc, parked, typed, ghost>>

-----------------------------------------------------------------------------
(* drain_conversion_actions, one queued action at a time.                  *)

Stop == pc' = "idle"
More == pc' = "drain"
Failed(qq) == [qq EXCEPT !.failed = TRUE]

(* The action is done; input behind an unfinished close waits for Enter.   *)
Done(qq, e) == [CompleteFront(qq) EXCEPT !.failed = @ \/ (e.on /\ ~qq.lost)]

DrainStops ==
    /\ q.lost \/ q.waiting \/ q.failed \/ q.acts = <<>>
    /\ Stop /\ UNCHANGED <<q, edit, tsf, ghost>>

(* Nothing runs before the display of the last edit is repaired.           *)
DrainRedraws ==
    /\ redraw
    /\ \/ redraw' = FALSE /\ pend = 0 /\ open' = TRUE /\ More
       \/ UNCHANGED <<redraw, open>> /\ Stop
    /\ UNCHANGED <<q, reading, mode, window, endp, req, pend, doc, ghost>>

(* Text behind a conversion gets the Commit it needs.                      *)
DrainPrepends ==
    /\ FrontIs(q, TextOps) /\ mode = "converting"
    /\ IF CanPrependCommit(q) THEN q' = PrependCommit(q) /\ More
       ELSE q' = Failed(q) /\ Stop
    /\ UNCHANGED <<edit, tsf, ghost>>

DrainExhausts ==
    /\ FrontIs(q, ExhaustibleOps) /\ mode = "converting"
    /\ q' = ExhaustedCommit(q) /\ More
    /\ UNCHANGED <<edit, tsf, ghost>>

(* The body is asked for once; a deferred session leaves the queue waiting *)
(* (or failed, when no timer could be armed to look for its result).       *)
DrainCommit ==
    /\ FrontIs(q, {"Commit"})
    /\ IF mode = "idle"
         THEN q' = Done(q, endp) /\ More /\ UNCHANGED <<edit, tsf, ghost>>
         ELSE \E o \in DoCommit(CommitBody, TRUE) :
           /\ leaked' = leaked \cup (ToSet(CommitBody) \ ToSet(reading))
           /\ IF o.ok
             THEN /\ Take(o) /\ ResetInput /\ q' = Done(q, o.endp)
                  /\ Drop(ToSet(reading) \ ToSet(CommitBody))
                  /\ More /\ UNCHANGED gone
             ELSE /\ UNCHANGED <<edit, gone, thrown>> /\ Stop
                  /\ IF o.pend # 0 /\ RequestWaits(o.req[o.pend])
                       THEN \/ Take(o) /\ q' = [q EXCEPT !.waiting = TRUE]
                            \/ /\ Take([o EXCEPT !.req[o.pend].stale = TRUE])
                               /\ q' = Failed(q)
                       ELSE Take(o) /\ q' = Failed(q)

DrainInsert ==
    /\ FrontIs(q, {"Insert"}) /\ mode # "converting"
    /\ \E f \in FinishEnd(endp) :
         /\ endp' = f.e /\ req' = Disowned(req, pend, f.bump)
         /\ IF f.ok
              THEN /\ reading' = Append(reading, Head(q.acts).ch) /\ mode' = "editing"
                   /\ q' = CompleteFront(q) /\ More
                   /\ open' \in {open /\ ~endp.on, TRUE}
              ELSE q' = Failed(q) /\ Stop /\ UNCHANGED <<reading, mode, open>>
    /\ UNCHANGED <<window, redraw, pend, doc, ghost>>

(* Shift+letter: what is being composed is settled first, then the letter  *)
(* is committed by itself.                                                 *)
DrainDirect ==
    /\ FrontIs(q, {"Direct"}) /\ mode # "converting"
    /\ \E o \in DoCommit(IF mode = "idle" THEN <<Head(q.acts).ch>> ELSE reading, FALSE) :
         /\ Take(o)
         /\ IF ~o.ok \/ (mode # "idle" /\ o.endp.on)
              THEN q' = Failed(q) /\ Stop
              ELSE q' = (IF mode = "idle" THEN Done(q, o.endp) ELSE q) /\ More
         /\ IF o.ok THEN ResetInput ELSE UNCHANGED edit
    /\ UNCHANGED ghost

(* The window of the selected clause, asked for again by Space.            *)
Space == /\ window' \in {"loading", "closed"} \cup (IF window = "ready" THEN {"ready"} ELSE {})
         /\ Render /\ UNCHANGED <<reading, mode>>

(* trigger_convert: a live conversion on screen is taken over, otherwise   *)
(* the engine is asked for a snapshot and the queue waits.                 *)
Convert(qq) ==
    \/ /\ mode' = "converting" /\ Render /\ q' = CompleteFront(qq)
       /\ UNCHANGED <<reading, window, snap>>
    \/ /\ q' = CompleteFront(BeginWait(qq, {reading})) /\ snap' = TRUE
       /\ UNCHANGED <<edit, open>>

DrainCandidate ==
    /\ FrontIs(q, {"Candidate"}) /\ More
    /\ CASE mode = "converting" ->
              /\ Space /\ UNCHANGED snap
              /\ q' = CompleteFront(IF window' = "loading" THEN BeginWait(q, {}) ELSE q)
         [] mode = "editing" -> Convert(q)
         [] OTHER -> q' = CompleteFront(q) /\ UNCHANGED <<edit, open, snap>>
    /\ UNCHANGED <<endp, req, pend, doc, ghost>>

(* Esc closes the window, goes back to the reading of the clause, and at   *)
(* the second press to editing the reading.                                *)
Escape == /\ IF window # "closed" THEN mode' = mode ELSE mode' \in {"converting", "editing"}
          /\ window' = "closed" /\ Render /\ UNCHANGED reading

CancelInput(o) == /\ Take(o)
                  /\ IF o.ok THEN ResetInput /\ Erase(ToSet(reading))
                     ELSE UNCHANGED <<edit, gone>>

DrainCancel ==
    /\ FrontIs(q, {"Cancel"})
    /\ CASE mode = "converting" -> /\ Escape /\ q' = Done(q, endp) /\ More
                                   /\ UNCHANGED <<endp, req, pend, doc, gone>>
         [] mode = "editing"    -> \E o \in DoCancel : /\ CancelInput(o)
                                     /\ IF o.ok THEN q' = Done(q, o.endp) /\ More
                                        ELSE q' = q /\ Stop
         [] OTHER -> q' = Done(q, endp) /\ More /\ UNCHANGED <<edit, tsf, gone>>
    /\ UNCHANGED <<thrown, leaked>>

(* Deleting the last character cancels the composition.                    *)
DeleteTail == /\ reading' = Front(reading) /\ Erase({Last(reading)})
              /\ window' = "closed" /\ UNCHANGED <<mode, endp, req, pend, doc>>

DrainBackspace ==
    /\ FrontIs(q, {"Backspace"})
    /\ CASE mode = "idle" -> q' = Done(q, endp) /\ More /\ UNCHANGED <<edit, tsf, gone>>
         [] mode # "idle" /\ Len(reading) > 1 ->
                                /\ DeleteTail /\ q' = Done(q, endp) /\ More
                                /\ IF mode = "converting" THEN Render
                                   ELSE Display /\ UNCHANGED redraw
         [] OTHER -> \E o \in DoCancel : /\ CancelInput(o)
                       /\ IF o.ok \/ mode = "editing" THEN q' = Done(q, o.endp) /\ More
                          ELSE q' = Failed(q) /\ Stop
    /\ UNCHANGED <<thrown, leaked>>

DrainMove ==
    /\ FrontIs(q, {"Move"})
    /\ q' = Done(q, endp) /\ More
    /\ IF mode = "converting" THEN window' = "closed" /\ Render ELSE UNCHANGED <<window, redraw, open>>
    /\ UNCHANGED <<reading, mode, endp, req, pend, doc, ghost>>

Runs == ~(q.lost \/ q.waiting \/ q.failed \/ q.acts = <<>>)

Drain ==
    /\ pc = "drain"
    /\ \/ DrainStops /\ UNCHANGED snap
       \/ Runs /\ DrainRedraws /\ UNCHANGED snap
       \/ Runs /\ ~redraw /\ UNCHANGED snap
            /\ (DrainPrepends \/ DrainExhausts \/ DrainCommit \/ DrainInsert \/ DrainDirect
                  \/ DrainCancel \/ DrainBackspace \/ DrainMove)
       \/ Runs /\ ~redraw /\ DrainCandidate
    /\ UNCHANGED <<ctx, parked, typed>>

-----------------------------------------------------------------------------
(* Keys.  handle_conversion_wait_key gets the key while something is       *)
(* awaited, failed or queued behind a Commit; a pending close eats the key *)
(* otherwise; only then is it a plain key.                                 *)

(* Text that reached the head of the queue while converting has its Commit *)
(* put in front before a later key can take the free slot.                 *)
Awaited(qq) == qq.lost \/ snap \/ window = "loading" \/ redraw \/ HasCommit(qq) \/ qq.failed
Headed == IF mode = "converting" /\ ~q.lost /\ FrontIs(q, TextOps)
            THEN IF CanPrependCommit(q) THEN PrependCommit(q) ELSE Failed(q)
            ELSE q
HeadStuck == mode = "converting" /\ ~q.lost /\ FrontIs(q, TextOps) /\ ~CanPrependCommit(q)
Claims(op) == q.lost \/ q.failed \/ (op \in {"Commit", "Cancel"} /\ HasCommit(q))
WaitTakes(op) == Awaited(Headed) /\ (Claims(op) \/ ~endp.on)

CanAdmit(qq, op) == IF op \in TextOps /\ mode = "converting" /\ ~HasCommit(qq)
                      THEN CanPushCommitThenInsert(qq) ELSE CanPush(qq)
Admitted(qq, a) == IF a.op \in TextOps /\ mode = "converting" /\ ~HasCommit(qq)
                     THEN PushCommitThenInsert(qq, a) ELSE PushBack(qq, a)

(* The owner is lost: only Esc does anything, it discards what was kept.   *)
WaitLost(a) ==
    /\ q.lost
    /\ IF a.op = "Cancel"
         THEN q' = EmptyQueue /\ Erase(QueuedChars(q) \cup UNION {ToSet(b) : b \in q.unwritten})
         ELSE UNCHANGED <<q, gone>>
    /\ UNCHANGED <<edit, snap, tsf, pc, parked, typed, thrown, leaked>>

(* Candidates are loading and nothing is promised behind a Commit: the key *)
(* decides over the window.                                                *)
WaitLoading(a, how) ==
    /\ ~q.lost /\ window = "loading"
    /\ how \in {Disposition(a.op, HasCommit(Headed))} \cup (IF a.op = "Move" THEN {"Defer"} ELSE {})
    /\ how # "Defer"
    /\ window' = "closed" /\ Drop(QueuedChars(Headed)) /\ Accept(a.ch)
    /\ IF how = "Close" \/ a.op = "Move" THEN q' = EmptyQueue /\ Stop /\ Render
       ELSE /\ q' = (IF how = "CommitThenInsert" THEN PushCommitThenInsert(EmptyQueue, a)
                     ELSE PushBack(EmptyQueue, a))
            /\ More /\ UNCHANGED <<redraw, open>>
    /\ UNCHANGED <<reading, mode, snap, endp, req, pend, doc, parked, gone, leaked>>

Deferred(a) == window = "loading" => a.op = "Move" \/ Disposition(a.op, HasCommit(Headed)) = "Defer"

(* Esc gives up a failed commit and what was typed behind it.              *)
WaitCancelsFailure(a) ==
    /\ ~q.lost /\ Deferred(a) /\ Headed.failed /\ a.op = "Cancel"
    /\ q' = EmptyQueue
    /\ \E o \in DoCancel : /\ Take(o)
                           /\ IF o.ok THEN ResetInput ELSE UNCHANGED edit
                           /\ Erase(QueuedChars(q) \cup IF o.ok THEN ToSet(reading) ELSE {})
    /\ UNCHANGED <<snap, pc, parked, typed, thrown, leaked>>

(* Editing during the snapshot wait gives the wait up, and with it the     *)
(* queue.                                                                  *)
WaitGivesUpSnapshot(a) ==
    /\ ~q.lost /\ snap /\ ~HasCommit(Headed) /\ ~(Headed.failed /\ a.op = "Cancel")
    /\ a.op \in EditOps \cup {"Cancel"}
    /\ snap' = FALSE /\ Drop(QueuedChars(q)) /\ Accept(a.ch)
    /\ IF a.op = "Cancel" THEN q' = EmptyQueue /\ Stop /\ Display
       ELSE q' = PushBack(EmptyQueue, a) /\ More /\ UNCHANGED open
    /\ UNCHANGED <<edit, endp, req, pend, doc, parked, gone, leaked>>

(* Enter retries: the close first, then the queue.                         *)
WaitRetries(a) ==
    /\ ~q.lost /\ Deferred(a) /\ Headed.failed /\ a.op = "Commit"
    /\ \E f \in FinishEnd(endp) :
         /\ endp' = f.e /\ req' = Disowned(req, pend, f.bump)
         /\ open' = (open /\ (endp.on => f.e.on))
         /\ IF f.ok THEN q' = [Headed EXCEPT !.failed = FALSE] /\ More
            ELSE q' = Headed /\ Stop
    /\ UNCHANGED <<edit, snap, pend, doc, parked, typed, ghost>>

(* fail_conversion_wait: a commit in flight is only looked at              *)
(* (poll_pending_commit), any other wait is ended and the window closed.   *)
PollPending ==
    LET p == req[pend]
        over == [q EXCEPT !.waiting = FALSE]
    IN  IF ~p.owned THEN RetireOwner /\ leaked' = leaked \cup ToSet(reading)
        ELSE /\ IF q.failed \/ RequestWaits(p) THEN UNCHANGED <<q, req>>
                ELSE IF p.applied THEN q' = over /\ UNCHANGED req
                ELSE q' = Failed(over) /\ req' = Revoked(req, pend)
             /\ UNCHANGED <<pend, snap, leaked>>

FailConversionWait ==
    IF pend # 0 THEN PollPending /\ UNCHANGED window
    ELSE /\ q' = FailWait(q) /\ window' = "closed" /\ snap' = FALSE
         /\ UNCHANGED <<req, pend, leaked>>

(* The queue takes the key, or, full, is drained once and asked again.     *)
WaitAdmits(a) ==
    /\ ~q.lost /\ Deferred(a)
    /\ ~(Headed.failed /\ a.op \in {"Commit", "Cancel"})
    /\ ~(snap /\ ~HasCommit(Headed) /\ a.op \in EditOps \cup {"Cancel"})
    /\ IF CanAdmit(Headed, a.op)
         THEN /\ q' = Admitted(Headed, a) /\ Accept(a.ch)
              /\ (IF snap THEN Stop ELSE More)
              /\ UNCHANGED <<window, snap, req, pend, parked, leaked>>
         ELSE FailConversionWait /\ More /\ parked' = a /\ UNCHANGED typed
    /\ UNCHANGED <<reading, mode, redraw, open, endp, doc, gone, thrown>>

(* No slot is left for the Commit that text at the head needs.             *)
WaitHeadStuck(a) ==
    /\ HeadStuck /\ q' = Failed(q)
    /\ UNCHANGED <<edit, snap, tsf, pc, parked, typed, ghost>>

WaitKey(a) ==
    IF HeadStuck THEN WaitHeadStuck(a)
    ELSE \/ WaitLost(a) \/ WaitCancelsFailure(a) \/ WaitGivesUpSnapshot(a)
         \/ WaitRetries(a) \/ WaitAdmits(a)
         \/ \E how \in {"Commit", "CommitThenInsert", "Close", "Immediate"} : WaitLoading(a, how)

(* The key that did not fit, after the drain it caused.                    *)
AdmitParked ==
    /\ pc = "idle" /\ parked # NoAct
    /\ IF CanAdmit(q, parked.op)
         THEN q' = Admitted(q, parked) /\ Accept(parked.ch) /\ (IF snap THEN Stop ELSE More)
         ELSE UNCHANGED <<q, typed, pc>>
    /\ parked' = NoAct
    /\ UNCHANGED <<edit, snap, tsf, ctx, ghost>>

(* A close in progress eats the key.                                       *)
EndKey(a) ==
    /\ IF a.op = "Cancel" /\ endp.caret
         THEN /\ q' = EmptyQueue
              /\ \E o \in DoCancel : /\ Take(o)
                                     /\ IF o.ok THEN ResetInput ELSE UNCHANGED edit
                                     /\ Erase(QueuedChars(q) \cup IF o.ok THEN ToSet(reading) ELSE {})
         ELSE /\ \E f \in FinishEnd(endp) :
                   /\ endp' = f.e /\ req' = Disowned(req, pend, f.bump)
                   /\ open' = (open /\ f.e.on)
              /\ UNCHANGED <<q, edit, pend, doc, gone>>
    /\ UNCHANGED <<snap, pc, parked, typed, thrown, leaked>>

(* Plain keys while converting go through the queue when they change text. *)
ConvertingKey(a) ==
    /\ mode = "converting"
    /\ CASE a.op \in TextOps \cup {"Commit", "Backspace"} ->
              LET fits == IF a.op \in TextOps THEN CanPushCommitThenInsert(q) ELSE CanPush(q)
              IN  /\ fits
                  /\ q' = (IF a.op \in TextOps THEN PushCommitThenInsert(q, a) ELSE PushBack(q, a))
                  /\ window' = (IF a.op = "Backspace" THEN window ELSE "closed")
                  /\ Accept(a.ch) /\ More
                  /\ UNCHANGED <<reading, mode, redraw, open>>
         [] a.op = "Candidate" ->
              /\ Space /\ Stop /\ UNCHANGED typed
              /\ q' = IF window' = "loading" THEN BeginWait(q, {}) ELSE q
         [] a.op = "Cancel" -> Escape /\ Stop /\ UNCHANGED <<q, typed>>
         [] OTHER -> /\ window' = "closed" /\ Render /\ Stop
                     /\ UNCHANGED <<q, reading, mode, typed>>
    /\ UNCHANGED <<snap, endp, req, pend, doc, parked, ghost>>

(* A letter while nothing is converted extends the reading.                *)
InputChar(a) ==
    /\ mode # "converting" /\ a.op = "Insert"
    /\ reading' = Append(reading, a.ch) /\ mode' = "editing"
    /\ Display /\ Accept(a.ch)
    /\ UNCHANGED <<q, window, snap, redraw, endp, req, pend, doc, pc, parked, ghost>>

(* Shift+letter: settle what is composed, then commit the letter; when the *)
(* letter is refused the host inserts it by itself.  A settle that did not *)
(* close the composition swallows the key.                                 *)
CommitCharDirect(a) ==
    /\ mode # "converting" /\ a.op = "Direct"
    /\ IF mode = "idle"
         THEN /\ \E o \in DoCommit(<<a.ch>>, FALSE) :
                   Take([o EXCEPT !.doc = Write(<<a.ch>>)])
              /\ Accept(a.ch) /\ UNCHANGED <<edit, pc, parked>>
         ELSE /\ \E o \in DoCommit(reading, FALSE) :
                   /\ Take(o)
                   /\ IF o.ok THEN ResetInput ELSE UNCHANGED edit
                   /\ IF o.ok /\ ~o.endp.on THEN pc' = "direct" /\ parked' = a
                      ELSE UNCHANGED <<pc, parked>>
              /\ UNCHANGED typed
    /\ UNCHANGED <<q, snap, ghost>>

DirectAfterSettle ==
    /\ pc = "direct" /\ pc' = "idle" /\ parked' = NoAct
    /\ \E o \in DoCommit(<<parked.ch>>, FALSE) : Take([o EXCEPT !.doc = Write(<<parked.ch>>)])
    /\ Accept(parked.ch)
    /\ UNCHANGED <<q, edit, snap, ctx, ghost>>

(* Enter, Esc, Backspace and Space on a reading.                           *)
EditingKey(a) ==
    /\ mode = "editing"
    /\ CASE a.op = "Commit" -> /\ \E o \in DoCommit(reading, FALSE) :
                                    Take(o) /\ (IF o.ok THEN ResetInput ELSE UNCHANGED edit)
                               /\ UNCHANGED <<q, snap, gone>>
         [] a.op = "Cancel" -> (\E o \in DoCancel : CancelInput(o)) /\ UNCHANGED <<q, snap>>
         [] a.op = "Backspace" -> /\ IF Len(reading) > 1
                                       THEN DeleteTail /\ Display /\ UNCHANGED redraw
                                       ELSE \E o \in DoCancel : CancelInput(o)
                                  /\ UNCHANGED <<q, snap>>
         [] a.op = "Candidate" -> \/ /\ mode' = "converting" /\ Render
                                     /\ UNCHANGED <<q, reading, window, snap, endp, req, pend, doc, gone>>
                                  \/ /\ q' = BeginWait(q, {reading}) /\ snap' = TRUE
                                     /\ UNCHANGED <<edit, tsf, gone>>
         [] OTHER -> FALSE
    /\ UNCHANGED <<pc, parked, typed, thrown, leaked>>

Key(op) ==
    /\ pc = "idle" /\ parked = NoAct
    /\ IF op \in TextOps THEN next <= MaxChars /\ UNCHANGED keys
       ELSE keys > 0 /\ keys' = keys - 1
    /\ LET a == Act(op, IF op \in TextOps THEN next ELSE 0)
       IN  IF WaitTakes(op) THEN WaitKey(a)
           ELSE IF endp.on THEN EndKey(a)
           ELSE ConvertingKey(a) \/ InputChar(a) \/ CommitCharDirect(a) \/ EditingKey(a)
    /\ UNCHANGED ctx

-----------------------------------------------------------------------------
(* The timer: results of the engine and of the pending commit.             *)

PollPendingCommit ==
    /\ pc = "idle" /\ parked = NoAct /\ pend # 0
    /\ ~req[pend].owned \/ ~(q.failed \/ RequestWaits(req[pend]))
    /\ PollPending /\ More
    /\ UNCHANGED <<edit, open, endp, ctx, doc, parked, typed, gone, thrown>>

(* The end of a wait that is not a commit: past its deadline it fails,     *)
(* answered it goes on with the candidates, otherwise it fails.            *)
WaitOver(ready) == IF Expired(q) \/ ~ready THEN FailWait(q) ELSE Resolved(q)

PollClauseReply(w, boundary) ==
    /\ pc = "idle" /\ parked = NoAct /\ pend = 0 /\ window = "loading"
    /\ window' = (IF Expired(q) THEN "closed" ELSE w) /\ Render
    /\ q' = IF q.waiting THEN WaitOver(w = "ready" \/ boundary) ELSE q
    /\ More
    /\ UNCHANGED <<reading, mode, snap, endp, req, pend, ctx, doc, parked, typed, ghost>>

PollExpiredWait ==
    /\ pc = "idle" /\ parked = NoAct /\ pend = 0 /\ Expired(q)
    /\ FailConversionWait /\ More
    /\ UNCHANGED <<reading, mode, redraw, open, endp, ctx, doc, parked, typed, gone, thrown>>

(* The snapshot asked for by Space arrives, or is given up (a lost         *)
(* connection, another protocol version): the poll 10 ms later then ends   *)
(* the wait, and is part of this step.                                     *)
PollSnapshot ==
    /\ pc = "idle" /\ parked = NoAct /\ snap
    /\ snap' = FALSE /\ More
    /\ \/ /\ mode = "editing" /\ mode' = "converting" /\ window' = "closed" /\ Render
          /\ q' = Resolved(q)
       \/ q' = FailWait(q) /\ UNCHANGED <<mode, window, redraw, open>>
    /\ UNCHANGED <<reading, endp, req, pend, ctx, doc, parked, typed, ghost>>

PollRedraw ==
    /\ pc = "idle" /\ parked = NoAct /\ redraw /\ pend = 0
    /\ redraw' = FALSE /\ open' = TRUE /\ More
    /\ UNCHANGED <<q, reading, mode, window, snap, endp, req, pend, ctx, doc, parked, typed, ghost>>

(* The display counter is used up: the composition is committed where it   *)
(* stands.                                                                 *)
EndDisplayAtCapacity ==
    /\ pc = "idle" /\ parked = NoAct /\ open /\ pend = 0 /\ ~endp.on /\ ~q.lost
    /\ snap' = FALSE /\ redraw' = FALSE
    /\ IF CapacityCommit(Resolved(q)) = {}
         THEN q' = Failed(Resolved(q)) /\ UNCHANGED <<window, pc>>
         ELSE q' \in CapacityCommit(Resolved(q)) /\ window' = "closed" /\ More
    /\ UNCHANGED <<reading, mode, endp, open, req, pend, ctx, doc, parked, typed, ghost>>

Poll == PollPendingCommit \/ PollExpiredWait

Event == \/ Drain \/ AdmitParked \/ DirectAfterSettle
         \/ Poll \/ PollSnapshot \/ PollRedraw \/ EndDisplayAtCapacity
         \/ \E w \in {"ready", "closed"}, b \in BOOLEAN : PollClauseReply(w, b)
         \/ \E c \in Contexts : OnSetFocus(c)
         \/ OnCompositionTerminated \/ OnPushContext
         \/ \E s \in Slots : RunHeldSession(s)
         \/ Tick

(* History: a key that goes straight to the text overtakes what is queued. *)
Overtakes == next' # next /\ next \notin QueuedChars(q')

Remembers == overtaken' = overtaken \cup (IF Overtakes THEN QueuedChars(q) ELSE {})

Next == /\ (\E op \in Ops : Key(op)) \/ (Event /\ UNCHANGED keys)
        /\ Remembers

NoKey == UNCHANGED keys /\ Remembers
Fairness == /\ WF_vars(Drain /\ NoKey) /\ WF_vars(Poll /\ NoKey)
            /\ WF_vars(Tick /\ NoKey) /\ WF_vars(AdmitParked /\ NoKey)
            /\ WF_vars(DirectAfterSettle /\ NoKey)

Spec == Init /\ [][Next]_vars /\ Fairness

-----------------------------------------------------------------------------
(* Properties.                                                             *)

Written == UNION {ToSet(doc[c]) : c \in Contexts}
Unwritten == UNION {ToSet(b) : b \in q.unwritten}

(* y may stand behind x in a text.                                         *)
Follows(x, y) == x # y /\ (x < y \/ y \in overtaken)
InOrder(s) == \A i, j \in DOMAIN s :
                  i < j /\ {s[i], s[j]} \cap (leaked \cup {0}) = {} => Follows(s[i], s[j])
(* The queue as a text: 0 where an action has none.                        *)
QueuedText == [i \in DOMAIN q.acts |-> q.acts[i].ch]
Spent == pend # 0 /\ req[pend].applied

(* Types of the state.                                                     *)
InputTypeOK ==
    /\ QueueTypeOK(q, Chars)
    /\ reading \in Seq(Chars) /\ mode \in {"idle", "editing", "converting"}
    /\ window \in {"closed", "loading", "ready"}
    /\ snap \in BOOLEAN /\ redraw \in BOOLEAN /\ open \in BOOLEAN
    /\ endp.on \in BOOLEAN /\ endp.tries \in 0..RetryMax - 1
    /\ pend \in Slots \cup {0} /\ ctx \in Contexts
    /\ pc \in {"idle", "drain", "direct"} /\ next \in 1..MaxChars + 1
    /\ gone \cup thrown \cup leaked \subseteq Chars

(* Whatever the host refuses, defers or answers late, every character is   *)
(* written at most once, in the order it was typed, and what is still      *)
(* composed or queued comes after what is written (the immutable body of   *)
(* pending_commit.rs and the one-shot take_text_applied of apply_state.rs  *)
(* are there for this).  Excused are the characters a later key overtook.  *)
WrittenOnceInOrder ==
    /\ \A c, d \in Contexts :
         c # d => (ToSet(doc[c]) \cap ToSet(doc[d])) \subseteq leaked
    /\ \A c \in Contexts : InOrder(doc[c])
    /\ ~q.lost => InOrder(doc[ctx] \o (IF Spent THEN <<>> ELSE reading) \o QueuedText)

(* What the TIP shows as unprocessed after it lost the document was indeed *)
(* not written, and no accepted input is replayed into another document    *)
(* (ConversionQueue::detach).                                              *)
OwnerLossIsHonest ==
    /\ q.lost => (QueuedChars(q) \cup Unwritten) \cap Written \subseteq leaked
    /\ \A c \in Contexts : \A ch \in ToSet(doc[c]) \ leaked : where[ch] = c

(* An accepted character is in a document, in the reading, in the queue or *)
(* shown as unwritten, unless the user took it back, its composition was   *)
(* given up, or it is one of the two known drops.                          *)
NothingLost ==
    \A ch \in 1..(next - 1) :
        ch \in Written \cup ToSet(reading) \cup QueuedChars(q) \cup Unwritten
                 \cup gone \cup thrown

(* The bounds of the queue and of the retries hold, and no accepted        *)
(* character is lost: a full queue refuses a key whole                     *)
(* (conversion_queue.rs, push_commit_then_mapped_insert).                  *)
InputInv == InputTypeOK /\ NothingLost

(* "Accepted operations survive engine waits" (conversion_queue.rs:1).     *)
AcceptedInputSurvives == thrown = {}

(* A focus change leaves no reading behind for the next document (the      *)
(* comment on OnSetFocus).                                                 *)
FocusLeavesNothing == leaked = {}

(* What is queued was typed after what is composed: "later input in order" *)
(* also behind a Cancel (the test at conversion_queue.rs:476).             *)
QueueFollowsReading ==
    ~q.lost /\ ~Spent =>
        \A x \in ToSet(reading) \ leaked, y \in QueuedChars(q) \ leaked : x < y

(* Every wait of the queue ends, by an answer or by its deadline, even     *)
(* when the engine and the host never answer.                              *)
WaitEnds == q.waiting ~> ~q.waiting
=============================================================================
