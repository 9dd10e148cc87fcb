----------------------- MODULE BackgroundInput_proofs -----------------------
(***************************************************************************)
(* What holds between the STA thread of the TIP and the workers of         *)
(* background_input.rs, for any number of keys, configurations, requests,  *)
(* faults and any capacity of their queues.                                *)
(*                                                                         *)
(* The snapshot stream: the snapshot worker never sleeps over work,        *)
(* receipts precede the conversions that follow them and only current      *)
(* answers are shown.  The invariant has one part for each of the three,   *)
(* and one for what the worker and its connection know of each other.      *)
(*                                                                         *)
(* The mirror of the reading: the input worker's engine session holds what *)
(* the user typed.  The session's text is a replay of the intents on the   *)
(* way, a function defined by recursion over a sequence; what it yields    *)
(* when an intent is added, applied or overtaken is proved by taking the   *)
(* least place at which two replays differ.                                *)
(***************************************************************************)
EXTENDS SnapshotStream, InputMirror, SequenceTheorems, WellFoundedInduction, TLAPS

Snap == [req : Nat \ {0}, rev : Nat, cfg : Nat, conn : Nat, purpose : {Live, Explicit},
         after : Nat]
Result == [req : Nat \ {0}, rev : Nat, cfg : Nat, conn : Nat, purpose : {Live, Explicit},
           after : Nat, under : Nat, auto : BOOLEAN, enh : BOOLEAN]
Shown == [rev : Nat, cfg : Nat, conn : Nat, under : Nat]
Status == [kind : {"configured", "invalidated", "mismatch"}, cfg : Nat, conn : Nat]
Receipt == [n : Nat, conn : Nat]

Commands == {"config", "work", "close"}

StaType ==
  [pc : {"idle", "push", "pollpush", "poll"}, composing : BOOLEAN, rev : Nat, cfg : Nat,
   ack : Nat \X Nat, cfgPending : BOOLEAN, mismatch : BOOLEAN, expected : {None} \cup Snap,
   heard : BOOLEAN, req : Nat, expl : BOOLEAN, deadline : BOOLEAN, debounce : BOOLEAN,
   timer : BOOLEAN, shown : {None} \cup Shown]
SharedType ==
  [desired : Nat, gen : Nat, lane : Seq(Commands),
   pending : {None} \cup Snap, notified : BOOLEAN, epoch : Nat, statuses : Seq(Status),
   result : {None} \cup Result, enhanced : {None} \cup Result, receipts : Seq(Receipt),
   shutdown : BOOLEAN]
WorkerType ==
  [pc : {"top", "due", "wait", "work", "drain", "take", "drained", "exit"}, latest : Nat,
   cfg : Nat, retry : BOOLEAN, probe : BOOLEAN, snap : {None} \cup Snap, replay : BOOLEAN,
   selected : {None} \cup Snap, cur : {None} \cup Snap]
EngineType == [conn : {"none", "up", "lost"}, cfg : Nat, faults : Nat]
HistoryType == [sent : Seq(Nat), applied : SUBSET Nat, straddled : BOOLEAN]

TypeOK ==
  /\ sh \in SharedType /\ w \in WorkerType /\ enh \in {None} \cup Result
  /\ eng \in EngineType /\ gh \in HistoryType

(* A state x of the STA that expects nothing, or the answer to the reading *)
(* and the configuration it has, asked when at most n receipts were out.   *)
Expects(x, n) ==
  /\ x \in StaType
  /\ x.expected # None =>
       x.expected.rev = x.rev /\ x.expected.cfg = x.cfg /\ x.expected.after <= n

(* A coalesced wakeup still has its command in the lane.                   *)
Wakeups ==
  /\ sh.notified => \E i \in DOMAIN sh.lane : sh.lane[i] = "work"
  /\ NoLostWakeup

(* The worker converts only what was made for the configuration and the    *)
(* connection it has, and the engine process behind that connection has    *)
(* the same configuration, or is gone.                                     *)
Connected ==
  /\ w.pc \in {"drain", "take", "drained"} => w.cfg # 0
  /\ w.pc = "drained" => w.cur # None /\ w.cur.cfg = w.cfg /\ w.cur.conn = sh.epoch
  /\ w.pc # "exit" /\ w.cfg # 0 => eng.cfg = w.cfg \/ eng.conn = "lost"

(* An answer says under which configuration it was computed: its own.      *)
AnswersUnder(r) == r # None => r.under = r.cfg
Answered == AnswersUnder(sh.result) /\ AnswersUnder(sh.enhanced) /\ AnswersUnder(enh)

(* A receipt sent on the connection there is has been applied or waits.    *)
Since(s) == s # None => s.after <= Len(gh.sent)
Receipts ==
  /\ \A n \in DOMAIN gh.sent : gh.sent[n] <= sh.epoch
  /\ \A n \in DOMAIN gh.sent : gh.sent[n] = sh.epoch =>
       n \in gh.applied \/ \E i \in DOMAIN sh.receipts : sh.receipts[i].n = n
  /\ \A i \in DOMAIN sh.receipts :
       sh.receipts[i].n \in DOMAIN gh.sent /\ sh.receipts[i].conn = gh.sent[sh.receipts[i].n]
  /\ Since(sh.pending) /\ Since(w.snap) /\ Since(w.selected) /\ Since(w.cur)

IInv ==
  TypeOK /\ Expects(t, Len(gh.sent)) /\ Wakeups /\ Connected /\ Answered /\ Receipts

-----------------------------------------------------------------------------
(* Operators.                                                              *)

LEMMA NothingIsNoSnapshot == /\ \A s \in Snap : s # None
                             /\ \A r \in Result : r # None
  BY DEF None, Snap, Result

(* y expects and shows what x does, for the same reading and configuration. *)
Keeps(x, y) ==
  /\ y \in StaType /\ y.rev = x.rev /\ y.cfg = x.cfg
  /\ y.shown = x.shown /\ y.expected = x.expected

(* y is x, no longer expecting anything.                                   *)
Drops(x, y) ==
  /\ y \in StaType /\ y.rev = x.rev /\ y.cfg = x.cfg
  /\ y.shown = x.shown /\ y.expected = None

LEMMA ForgetDrops == ASSUME NEW x \in StaType PROVE Drops(x, Forget(x))
  BY DEF StaType, Drops, Forget

LEMMA DisarmedKeeps == ASSUME NEW x \in StaType PROVE Keeps(x, Disarmed(x))
  BY DEF StaType, Keeps, Disarmed

LEMMA IdleKeeps == ASSUME NEW x \in StaType PROVE Keeps(x, DisarmedIfIdle(x))
<1>1. Keeps(x, x) BY DEF Keeps
<1> QED BY <1>1, DisarmedKeeps DEF DisarmedIfIdle

LEMMA ArmedKeeps == ASSUME NEW x \in StaType, NEW g \in Nat PROVE Keeps(x, Armed(x, g))
<1>1. Keeps(x, [x EXCEPT !.timer = TRUE]) BY DEF StaType, Keeps
<1> QED BY <1>1, DisarmedKeeps DEF Armed

LEMMA StatusKeeps ==
  ASSUME NEW x \in StaType, NEW g \in Nat PROVE Keeps(x, ArmedForStatus(x, g))
<1> DEFINE y == [x EXCEPT !.cfgPending = Represented(x.cfg, g) /\ ~x.mismatch]
<1>1. Keeps(x, y) BY DEF StaType, Keeps, Represented
<1>2. y \in StaType BY <1>1 DEF Keeps
<1> HIDE DEF y
<1>3. Keeps(y, Armed(y, g)) /\ Keeps(y, DisarmedIfIdle(y)) BY <1>2, ArmedKeeps, IdleKeeps
<1>4. Keeps(x, Armed(y, g)) /\ Keeps(x, DisarmedIfIdle(y)) BY <1>1, <1>3 DEF Keeps
<1>5. ArmedForStatus(x, g) = IF y.cfgPending THEN Armed(y, g) ELSE DisarmedIfIdle(y)
  BY DEF ArmedForStatus, y
<1> QED BY <1>4, <1>5

LEMMA KeepsExpects ==
  ASSUME NEW x, NEW y, NEW n \in Nat, NEW m \in Nat, n <= m, Keeps(x, y), Expects(x, n)
  PROVE  Expects(y, m)
<1>1. CASE x.expected = None BY <1>1 DEF Keeps, Expects
<1>2. CASE x.expected # None
  <2>1. x.expected \in Snap BY <1>2 DEF Expects, StaType
  <2>2. x.expected.after \in Nat BY <2>1 DEF Snap
  <2> QED BY <1>2, <2>2 DEF Keeps, Expects
<1> QED BY <1>1, <1>2

LEMMA DropsExpects ==
  ASSUME NEW x, NEW y, NEW n \in Nat, Drops(x, y) PROVE Expects(y, n)
  BY DEF Drops, Expects

LEMMA ReboundIsOlder ==
  ASSUME NEW s \in {None} \cup Snap, NEW c \in Nat, NEW n \in Nat
  PROVE  /\ Rebound(s, c, n) \in {None} \cup Snap
         /\ Rebound(s, c, n) # None =>
              /\ s # None /\ Rebound(s, c, n).rev = s.rev /\ Rebound(s, c, n).cfg = s.cfg
              /\ Rebound(s, c, n).after = s.after
<1>1. CASE s # None /\ s.cfg = c
  <2>1. Rebound(s, c, n) = [s EXCEPT !.conn = n] BY <1>1 DEF Rebound
  <2>2. s \in Snap BY <1>1
  <2>3. [s EXCEPT !.conn = n] \in Snap BY <2>2 DEF Snap
  <2>4. /\ [s EXCEPT !.conn = n].rev = s.rev /\ [s EXCEPT !.conn = n].cfg = s.cfg
        /\ [s EXCEPT !.conn = n].after = s.after BY <2>2 DEF Snap
  <2> QED BY <1>1, <2>1, <2>3, <2>4
<1>2. CASE ~(s # None /\ s.cfg = c) BY <1>2 DEF Rebound
<1> QED BY <1>1, <1>2

LEMMA PushedStatuses ==
  ASSUME NEW q \in Seq(Status), NEW s \in Status PROVE ForcePush(q, s) \in Seq(Status)
<1>1. CASE Len(q) < StatusCap BY <1>1 DEF ForcePush
<1>2. CASE ~(Len(q) < StatusCap)
  <2>1. q # <<>> BY <1>2, StreamAssumption
  <2>2. Tail(q) \in Seq(Status) BY <2>1
  <2> QED BY <1>2, <2>2 DEF ForcePush
<1> QED BY <1>1, <1>2

LEMMA SentCommand ==
  ASSUME TypeOK, NEW c \in Commands
  PROVE  /\ TrySend(c) \in Seq(Commands) /\ TrySend(c) # <<>>
         /\ Len(sh.lane) < LaneCap => \E i \in DOMAIN TrySend(c) : TrySend(c)[i] = c
         /\ (\E i \in DOMAIN sh.lane : sh.lane[i] = "work") =>
               \E i \in DOMAIN TrySend(c) : TrySend(c)[i] = "work"
<1>1. sh.lane \in Seq(Commands) BY DEF TypeOK, SharedType
<1>2. CASE Len(sh.lane) < LaneCap
  <2>1. TrySend(c) = Append(sh.lane, c) BY <1>2 DEF TrySend
  <2>2. Append(sh.lane, c) \in Seq(Commands) /\ Append(sh.lane, c) # <<>> BY <1>1
  <2>3. Append(sh.lane, c)[Len(sh.lane) + 1] = c /\ Len(sh.lane) + 1 \in DOMAIN Append(sh.lane, c)
    BY <1>1
  <2>4. ASSUME NEW i \in DOMAIN sh.lane, sh.lane[i] = "work"
        PROVE  i \in DOMAIN Append(sh.lane, c) /\ Append(sh.lane, c)[i] = "work"
    BY <1>1, <2>4
  <2> QED BY <1>2, <2>1, <2>2, <2>3, <2>4
<1>3. CASE ~(Len(sh.lane) < LaneCap)
  <2>1. TrySend(c) = sh.lane BY <1>3 DEF TrySend
  <2>2. sh.lane # <<>> BY <1>1, <1>3, StreamAssumption
  <2> QED BY <1>1, <1>3, <2>1, <2>2
<1> QED BY <1>2, <1>3

LEMMA TakenCommand ==
  ASSUME TypeOK, sh.lane # <<>>
  PROVE  /\ Tail(sh.lane) \in Seq(Commands)
         /\ (\E i \in DOMAIN sh.lane : sh.lane[i] = "work") /\ Head(sh.lane) # "work" =>
               \E i \in DOMAIN Tail(sh.lane) : Tail(sh.lane)[i] = "work"
<1>1. sh.lane \in Seq(Commands) BY DEF TypeOK, SharedType
<1>2. Tail(sh.lane) \in Seq(Commands) BY <1>1
<1>3. ASSUME NEW i \in DOMAIN sh.lane, sh.lane[i] = "work", Head(sh.lane) # "work"
      PROVE  i - 1 \in DOMAIN Tail(sh.lane) /\ Tail(sh.lane)[i - 1] = "work"
  <2>1. i \in 1..Len(sh.lane) /\ i # 1 BY <1>1, <1>3
  <2> QED BY <1>1, <1>3, <2>1
<1> QED BY <1>2, <1>3

(* An accepted answer is the one to the very snapshot that is expected.    *)
LEMMA AnswerFits ==
  ASSUME NEW r \in Result, t \in StaType, Answers(r)
  PROVE  /\ t.expected \in Snap
         /\ r.rev = t.expected.rev /\ r.cfg = t.expected.cfg /\ r.conn = t.expected.conn
<1>1. t.expected \in Snap BY DEF Answers, StaType
<1>2. PICK e \in Snap : e = t.expected BY <1>1
<1>3. DOMAIN e = {"req", "rev", "cfg", "conn", "purpose", "after"} BY <1>2 DEF Snap
<1>4. [f \in DOMAIN e |-> r[f]] = e BY <1>2 DEF Answers
<1>5. e["rev"] = r["rev"] /\ e["cfg"] = r["cfg"] /\ e["conn"] = r["conn"] BY <1>3, <1>4
<1> QED BY <1>1, <1>2, <1>5

LEMMA ConvertedIs ==
  ASSUME w.cur \in Snap, eng \in EngineType, NEW a \in BOOLEAN
  PROVE  /\ Converted(a) \in Result /\ Converted(a).under = eng.cfg
         /\ Converted(a).cfg = w.cur.cfg /\ Converted(a).after = w.cur.after
<1>1. PICK e \in Snap : e = w.cur OBVIOUS
<1>2. eng.cfg \in Nat BY DEF EngineType
<1> QED BY <1>1, <1>2 DEF Result, Snap, Converted
-----------------------------------------------------------------------------
(* Initial states.                                                         *)

LEMMA Initially == Init => IInv
<1> SUFFICES ASSUME Init PROVE IInv OBVIOUS
<1>0. PICK pc \in {"top", "exit"} :
        w = [pc |-> pc, latest |-> 0, cfg |-> 0, retry |-> FALSE, probe |-> FALSE,
             snap |-> None, replay |-> FALSE, selected |-> None, cur |-> None]
  BY DEF Init
<1>1. sh = [desired |-> 1, gen |-> 1, lane |-> <<"config">>, pending |-> None,
            notified |-> FALSE, epoch |-> 1, statuses |-> <<>>, result |-> None,
            enhanced |-> None, receipts |-> <<>>, shutdown |-> FALSE]
  BY DEF Init
<1>2. /\ enh = None /\ eng = [conn |-> "none", cfg |-> 0, faults |-> MaxFaults]
      /\ gh = [sent |-> <<>>, applied |-> {}, straddled |-> FALSE]
  BY DEF Init
<1>3. TypeOK
  <2>1. <<"config">> \in Seq(Commands) BY DEF Commands
  <2>2. sh \in SharedType BY <1>1, <2>1 DEF SharedType
  <2>3. w \in WorkerType BY <1>0 DEF WorkerType
  <2>4. enh \in {None} \cup Result /\ eng \in EngineType
    BY <1>2, StreamAssumption DEF EngineType
  <2>5. gh \in HistoryType BY <1>2 DEF HistoryType
  <2> QED BY <2>2, <2>3, <2>4, <2>5 DEF TypeOK
<1>4. Expects(t, Len(gh.sent)) BY DEF Init, Expects, StaType
<1>5. Wakeups BY <1>0, <1>1 DEF Wakeups, NoLostWakeup
<1>6. Connected BY <1>0 DEF Connected
<1>7. Answered BY <1>1, <1>2 DEF Answered, AnswersUnder
<1>8. Receipts BY <1>0, <1>1, <1>2 DEF Receipts, Since
<1> QED BY <1>3, <1>4, <1>5, <1>6, <1>7, <1>8 DEF IInv

-----------------------------------------------------------------------------
(* Steps of the STA.                                                       *)

(* What the two action properties say of a step.                           *)
ShowsTheCurrent ==
  t'.shown \notin {None, t.shown} =>
    /\ t'.shown.rev = t.rev /\ t'.shown.cfg = t.cfg /\ t'.shown.conn = sh.epoch
    /\ t'.shown.under = t.cfg
ReceiptsPrecede ==
  sh'.result \notin {None, sh.result} =>
    \A n \in 1..sh'.result.after : gh.sent[n] = sh.epoch => n \in gh.applied

Good == IInv' /\ ShowsTheCurrent /\ ReceiptsPrecede

(* A step of the STA's own: nothing shared is touched.                     *)
LEMMA StaAlone ==
  ASSUME IInv, UNCHANGED <<sh, w, enh, eng, gh>>, Expects(t', Len(gh.sent)),
         ShowsTheCurrent
  PROVE  Good
<1>1. TypeOK' BY DEF IInv, TypeOK
<1>2. Expects(t, Len(gh.sent))' OBVIOUS
<1>3. Wakeups' BY DEF IInv, Wakeups, NoLostWakeup
<1>4. Connected' BY DEF IInv, Connected
<1>5. Answered' BY DEF IInv, Answered, AnswersUnder
<1>6. Receipts' BY DEF IInv, Receipts, Since
<1>7. ReceiptsPrecede BY DEF ReceiptsPrecede
<1> QED BY <1>1, <1>2, <1>3, <1>4, <1>5, <1>6, <1>7 DEF IInv, Good

LEMMA Types ==
  ASSUME IInv
  PROVE  /\ t \in StaType /\ t.rev \in Nat /\ t.cfg \in Nat /\ t.req \in Nat
         /\ sh \in SharedType /\ sh.gen \in Nat /\ sh.epoch \in Nat /\ sh.desired \in Nat
         /\ sh.lane \in Seq(Commands) /\ sh.receipts \in Seq(Receipt)
         /\ w \in WorkerType /\ w.cfg \in Nat /\ w.latest \in Nat /\ eng \in EngineType
         /\ gh \in HistoryType /\ gh.sent \in Seq(Nat) /\ Len(gh.sent) \in Nat
<1>1. t \in StaType /\ sh \in SharedType /\ w \in WorkerType /\ eng \in EngineType
      /\ gh \in HistoryType
  BY DEF IInv, TypeOK, Expects
<1>2. gh.sent \in Seq(Nat) BY <1>1 DEF HistoryType
<1>3. Len(gh.sent) \in Nat BY <1>2
<1> QED BY <1>1, <1>2, <1>3 DEF StaType, SharedType, WorkerType

LEMMA AnyKeyKeeps ==
  ASSUME IInv, Key \/ Finish PROVE Good
<1>1. t \in StaType /\ Len(gh.sent) \in Nat BY Types
<1>2. Drops(t, Forget(t)) BY <1>1, ForgetDrops
<1>3. PICK f \in StaType : f = Forget(t) /\ f.expected = None BY <1>2 DEF Drops
<1>4. CASE Key
  <2>1. t' = [f EXCEPT !.composing = TRUE, !.rev = @ + 1, !.debounce = TRUE, !.shown = None]
    BY <1>3, <1>4 DEF Key
  <2>a. PICK n \in Nat : n = f.rev + 1 BY <1>3 DEF StaType
  <2>2. t' \in StaType BY <1>3, <2>1, <2>a DEF StaType
  <2>3. t'.expected = None /\ t'.shown = None BY <1>3, <2>1 DEF StaType
  <2> QED BY <1>4, <2>2, <2>3, StaAlone DEF Key, Expects, ShowsTheCurrent
<1>5. CASE Finish
  <2>1. t' = [f EXCEPT !.composing = FALSE, !.rev = @ + 1, !.shown = None]
    BY <1>3, <1>5 DEF Finish
  <2>a. PICK n \in Nat : n = f.rev + 1 BY <1>3 DEF StaType
  <2>2. t' \in StaType BY <1>3, <2>1, <2>a, ZenonT(60) DEF StaType
  <2>3. t'.expected = None /\ t'.shown = None BY <1>3, <2>1 DEF StaType
  <2> QED BY <1>5, <2>2, <2>3, StaAlone DEF Finish, Expects, ShowsTheCurrent
<1> QED BY <1>4, <1>5

(* A snapshot is made of the reading and the configuration x has.          *)
LEMMA MadeExpects ==
  ASSUME IInv, NEW x, Keeps(t, x) \/ (x \in StaType /\ x.rev = t.rev /\ x.cfg = t.cfg
                                      /\ x.shown = t.shown),
         NEW p \in {Live, Explicit}, NEW pc \in {"idle", "push", "pollpush", "poll"}
  PROVE  Expects(Made(x, p, pc), Len(gh.sent)) /\ Made(x, p, pc).shown = t.shown
<1>1. x \in StaType /\ x.rev = t.rev /\ x.cfg = t.cfg /\ x.shown = t.shown BY DEF Keeps
<1>2. PICK s : s = Snapshot(p) OBVIOUS
<1>3. s = [req |-> t.req + 1, rev |-> t.rev, cfg |-> t.cfg, conn |-> sh.epoch,
           purpose |-> p, after |-> Len(gh.sent)] BY <1>2 DEF Snapshot
<1>4. s \in Snap BY <1>3, Types, SMTT(30) DEF Snap
<1>5. s.rev = t.rev /\ s.cfg = t.cfg /\ s.after <= Len(gh.sent) BY <1>3, Types
<1>6. Made(x, p, pc) = [x EXCEPT !.expected = s, !.heard = FALSE, !.req = @ + 1, !.pc = pc]
  BY <1>2 DEF Made
<1>7. PICK m : m = Made(x, p, pc) OBVIOUS
<1>8. PICK n \in Nat : n = x.req + 1 BY <1>1 DEF StaType
<1>9. m \in StaType BY <1>1, <1>4, <1>6, <1>7, <1>8 DEF StaType
<1>10. m.expected = s /\ m.rev = x.rev /\ m.cfg = x.cfg /\ m.shown = x.shown
  BY <1>1, <1>6, <1>7 DEF StaType
<1> QED BY <1>1, <1>5, <1>7, <1>9, <1>10 DEF Expects

(* x of the same reading, asking, or arming the timer for the answer.      *)
LEMMA SubmittedExpects ==
  ASSUME IInv, NEW x, Expects(x, Len(gh.sent)), x.rev = t.rev, x.cfg = t.cfg,
         x.shown = t.shown, NEW pc \in {"idle", "push", "pollpush", "poll"}
  PROVE  Expects(Submitted(x, pc), Len(gh.sent)) /\ Submitted(x, pc).shown = t.shown
<1>1. x \in StaType BY DEF Expects
<1>2. /\ Expects(Made(x, Explicit, pc), Len(gh.sent))
      /\ Made(x, Explicit, pc).shown = t.shown
  BY <1>1, MadeExpects
<1>3. Keeps(x, ArmedForStatus(x, sh.gen)) BY <1>1, Types, StatusKeeps
<1>4. Expects(ArmedForStatus(x, sh.gen), Len(gh.sent)) BY <1>3, Types, KeepsExpects
<1> QED BY <1>2, <1>3, <1>4 DEF Submitted, Keeps

LEMMA DebounceKeeps == ASSUME IInv, Debounce PROVE Good
<1> DEFINE x == [t EXCEPT !.debounce = FALSE]
<1>1. t \in StaType BY Types
<1>2. Keeps(t, x) BY <1>1 DEF StaType, Keeps
<1>a. Expects(x, Len(gh.sent)) BY <1>2, Types, KeepsExpects DEF IInv
<1>3. Expects(x, Len(gh.sent)) /\ x \in StaType /\ x.shown = t.shown BY <1>2, <1>a DEF Keeps
<1>4. \/ t' = x \/ t' = Made(x, Live, "push") \/ t' = ArmedForStatus(x, sh.gen)
  <2>1. t.composing \in BOOLEAN BY <1>1 DEF StaType
  <2> QED BY <2>1 DEF Debounce
<1>5. UNCHANGED <<sh, w, enh, eng, gh>> BY DEF Debounce
<1> HIDE DEF x
<1>6. Expects(Made(x, Live, "push"), Len(gh.sent)) /\ Made(x, Live, "push").shown = t.shown
  BY <1>2, MadeExpects
<1>7. Keeps(x, ArmedForStatus(x, sh.gen)) BY <1>3, Types, StatusKeeps
<1>8. Expects(ArmedForStatus(x, sh.gen), Len(gh.sent)) BY <1>3, <1>7, Types, KeepsExpects
<1>9. Expects(t', Len(gh.sent)) /\ t'.shown = t.shown
  BY <1>3, <1>4, <1>6, <1>7, <1>8 DEF Keeps
<1> QED BY <1>5, <1>9, StaAlone DEF ShowsTheCurrent

LEMMA SpaceKeeps == ASSUME IInv, Space PROVE Good
<1> DEFINE promoted == t.shown # None /\ t.shown.conn = sh.epoch /\ t.shown.cfg = t.cfg
           f == [Forget(t) EXCEPT !.deadline = FALSE]
           e == [t EXCEPT !.expl = TRUE]
           y == IF promoted THEN f ELSE Submitted(e, "push")
<1>1. t \in StaType BY Types
<1>2. f \in StaType /\ f.expected = None /\ f.shown = t.shown
  <2>1. PICK g \in StaType : g = Forget(t) /\ g.expected = None /\ g.shown = t.shown
    BY <1>1, ForgetDrops DEF Drops
  <2> QED BY <2>1 DEF StaType
<1>3. Keeps(t, e) BY <1>1 DEF StaType, Keeps
<1>4. t' = Armed(y, sh.gen) /\ UNCHANGED <<sh, w, enh, eng, gh>> BY DEF Space
<1> HIDE DEF e, f
<1>5. Expects(e, Len(gh.sent)) BY <1>3, Types, KeepsExpects DEF IInv
<1>6. Expects(Submitted(e, "push"), Len(gh.sent)) /\ Submitted(e, "push").shown = t.shown
  BY <1>3, <1>5, SubmittedExpects DEF Keeps
<1>7. Expects(y, Len(gh.sent)) /\ y.shown = t.shown BY <1>2, <1>6 DEF Expects
<1> HIDE DEF y
<1>8. Keeps(y, Armed(y, sh.gen)) BY <1>7, Types, ArmedKeeps DEF Expects
<1>9. Expects(t', Len(gh.sent)) /\ t'.shown = t.shown
  BY <1>4, <1>7, <1>8, Types, KeepsExpects DEF Keeps
<1> QED BY <1>4, <1>9, StaAlone DEF ShowsTheCurrent

LEMMA CancelKeeps == ASSUME IInv, CancelExplicit PROVE Good
<1> DEFINE y == [Forget(t) EXCEPT !.expl = FALSE]
<1>1. y \in StaType /\ y.expected = None /\ y.shown = t.shown
  <2>1. PICK g \in StaType : g = Forget(t) /\ g.expected = None /\ g.shown = t.shown
    BY Types, ForgetDrops DEF Drops
  <2> QED BY <2>1 DEF StaType
<1>2. t' = DisarmedIfIdle(y) /\ UNCHANGED <<sh, w, enh, eng, gh>> BY DEF CancelExplicit
<1> HIDE DEF y
<1>3. Keeps(y, t') BY <1>1, <1>2, IdleKeeps
<1>4. Expects(t', Len(gh.sent)) /\ t'.shown = t.shown BY <1>1, <1>3 DEF Keeps, Expects
<1> QED BY <1>2, <1>4, StaAlone DEF ShowsTheCurrent

LEMMA EndPollKeeps == ASSUME IInv, NEW p \in BOOLEAN, EndPoll(p) PROVE Good
<1> DEFINE x == [t EXCEPT !.pc = "idle", !.cfgPending = @ /\ Represented(t.cfg, sh.gen)]
           f == [Forget(x) EXCEPT !.deadline = FALSE, !.expl = FALSE]
           y == IF p THEN f ELSE x
<1>1. Keeps(t, x) BY Types DEF StaType, Keeps, Represented
<1>2. t' = Armed(y, sh.gen) /\ UNCHANGED <<sh, w, enh, eng, gh>> BY DEF EndPoll
<1>3. x \in StaType /\ x.shown = t.shown BY <1>1 DEF Keeps
<1> HIDE DEF x
<1>4. f \in StaType /\ f.expected = None /\ f.shown = t.shown
  <2>1. PICK g \in StaType : g = Forget(x) /\ g.expected = None /\ g.shown = t.shown
    BY <1>3, ForgetDrops DEF Drops
  <2> QED BY <2>1 DEF StaType
<1>5. Expects(x, Len(gh.sent)) BY <1>1, Types, KeepsExpects DEF IInv
<1> HIDE DEF f
<1>6. Expects(y, Len(gh.sent)) /\ y.shown = t.shown BY <1>3, <1>4, <1>5 DEF Expects
<1> HIDE DEF y
<1>7. Keeps(y, Armed(y, sh.gen)) BY <1>6, Types, ArmedKeeps DEF Expects
<1>8. Expects(t', Len(gh.sent)) BY <1>2, <1>6, <1>7, Types, KeepsExpects
<1>9. t'.shown = t.shown BY <1>2, <1>6, <1>7 DEF Keeps
<1> QED BY <1>2, <1>8, <1>9, StaAlone DEF ShowsTheCurrent
-----------------------------------------------------------------------------
(* Steps of the STA that touch what is shared.                             *)

(* What a step leaves alone when the worker and its connection rest.       *)
LEMMA StaysConnected ==
  ASSUME Connected, UNCHANGED <<w, eng>>, sh'.epoch = sh.epoch PROVE Connected'
  BY DEF Connected

LEMMA ReceiptsStay ==
  ASSUME Receipts, gh'.sent = gh.sent, gh'.applied = gh.applied, sh'.epoch = sh.epoch,
         sh'.receipts = sh.receipts, UNCHANGED w, Since(sh.pending)'
  PROVE  Receipts'
<1>1. Since(w.snap)' /\ Since(w.selected)' /\ Since(w.cur)' BY DEF Receipts, Since
<1> QED BY <1>1 DEF Receipts

LEMMA ChangeKeeps == ASSUME IInv, ChangeConfiguration PROVE Good
<1> DEFINE x == [Forget(t) EXCEPT !.cfg = @ + 1, !.ack = <<0, 0>>,
                                  !.deadline = FALSE, !.mismatch = FALSE, !.shown = None]
<1>1. /\ t' = ArmedForStatus(x, t.cfg + 1)
      /\ sh' = [sh EXCEPT !.desired = t.cfg + 1, !.gen = t.cfg + 1, !.lane = TrySend("config")]
      /\ UNCHANGED <<w, enh, eng, gh>>
  BY DEF ChangeConfiguration
<1>2. x \in StaType /\ x.expected = None /\ x.shown = None
  <2>1. PICK f \in StaType : f = Forget(t) /\ f.expected = None
    BY Types, ForgetDrops DEF Drops
  <2>2. PICK n \in Nat : n = f.cfg + 1 BY <2>1 DEF StaType
  <2>3. x = [f EXCEPT !.cfg = n, !.ack = <<0, 0>>,
                      !.deadline = FALSE, !.mismatch = FALSE, !.shown = None]
    BY <2>1, <2>2
  <2> HIDE DEF x
  <2>4. x \in StaType BY <2>1, <2>3, ZenonT(60) DEF StaType
  <2> QED BY <2>1, <2>3, <2>4 DEF StaType
<1> HIDE DEF x
<1>3. Keeps(x, t')
  <2>1. PICK n \in Nat : n = t.cfg + 1 BY Types DEF StaType
  <2>2. Keeps(x, ArmedForStatus(x, n)) BY <1>2, StatusKeeps
  <2> QED BY <1>1, <2>1, <2>2
<1>4. Expects(t', Len(gh.sent)) /\ t'.shown = None BY <1>2, <1>3 DEF Keeps, Expects
<1>5. /\ TrySend("config") \in Seq(Commands) /\ TrySend("config") # <<>>
      /\ (\E i \in DOMAIN sh.lane : sh.lane[i] = "work") =>
            \E i \in DOMAIN TrySend("config") : TrySend("config")[i] = "work"
  BY SentCommand DEF IInv, Commands
<1>6. PICK q \in Seq(Commands) : q = TrySend("config") BY <1>5
<1>7. sh' = [sh EXCEPT !.desired = t.cfg + 1, !.gen = t.cfg + 1, !.lane = q] BY <1>1, <1>6
<1>a. PICK n \in Nat : n = t.cfg + 1 BY Types
<1>b. sh' = [sh EXCEPT !.desired = n, !.gen = n, !.lane = q] BY <1>7, <1>a
<1>c. sh' \in SharedType BY <1>b, Types DEF SharedType
<1>8. /\ sh'.lane = q /\ sh'.notified = sh.notified
      /\ sh'.pending = sh.pending /\ sh'.result = sh.result /\ sh'.enhanced = sh.enhanced
      /\ sh'.receipts = sh.receipts /\ sh'.epoch = sh.epoch
  BY <1>7, Types DEF SharedType
<1>9. TypeOK' BY <1>1, <1>c DEF IInv, TypeOK
<1>10. Wakeups'
  <2>1. q # <<>> BY <1>5, <1>6
  <2>2. sh.notified => \E i \in DOMAIN q : q[i] = "work" BY <1>5, <1>6 DEF IInv, Wakeups
  <2> QED BY <1>8, <2>1, <2>2 DEF Wakeups, NoLostWakeup
<1>11. Connected' BY <1>1, <1>8, StaysConnected DEF IInv
<1>12. Answered' BY <1>1, <1>8 DEF IInv, Answered, AnswersUnder
<1>13. Receipts' BY <1>1, <1>8, ReceiptsStay DEF IInv, Receipts, Since
<1>14. Expects(t, Len(gh.sent))' BY <1>1, <1>4
<1> QED BY <1>4, <1>8, <1>9, <1>10, <1>11, <1>12, <1>13, <1>14
        DEF IInv, Good, ShowsTheCurrent, ReceiptsPrecede

LEMMA PushKeeps == ASSUME IInv, Push PROVE Good
<1> DEFINE x == [t EXCEPT !.pc = IF @ = "push" THEN "idle" ELSE "poll", !.deadline = TRUE]
           l == IF sh.notified THEN sh.lane ELSE TrySend("work")
           m == sh.notified \/ Len(sh.lane) < LaneCap
<1>1. /\ t' = Armed(x, sh.gen)
      /\ sh' = [sh EXCEPT !.pending = t.expected, !.notified = m, !.lane = l]
      /\ gh' = [gh EXCEPT !.straddled = @ \/ t.expected.conn # sh.epoch]
      /\ UNCHANGED <<w, enh, eng>>
  BY Types DEF Push, SharedType
<1>2. Keeps(t, x) BY Types DEF StaType, Keeps
<1>3. x \in StaType BY <1>2 DEF Keeps
<1> HIDE DEF x
<1>4. Expects(x, Len(gh.sent)) BY <1>2, Types, KeepsExpects DEF IInv
<1>5. Keeps(x, t') BY <1>1, <1>3, Types, ArmedKeeps
<1>6. Expects(t', Len(gh.sent)) BY <1>4, <1>5, Types, KeepsExpects
<1>7. t'.shown = t.shown BY <1>2, <1>5 DEF Keeps
<1>8. /\ l \in Seq(Commands) /\ l # <<>>
      /\ m => \E i \in DOMAIN l : l[i] = "work"
  <2>1. CASE sh.notified
    <3>1. \E i \in DOMAIN sh.lane : sh.lane[i] = "work" BY <2>1 DEF IInv, Wakeups
    <3>2. sh.lane # <<>> BY <3>1
    <3> QED BY <2>1, <3>1, <3>2, Types
  <2>2. CASE ~sh.notified
    BY <2>2, SentCommand DEF IInv, Commands
  <2> QED BY <2>1, <2>2
<1>9. sh.notified \in BOOLEAN /\ t.expected \in {None} \cup Snap BY Types DEF SharedType, StaType
<1>10. m \in BOOLEAN BY <1>9
<1> HIDE DEF l, m
<1>11. sh' \in SharedType BY <1>1, <1>8, <1>9, <1>10, Types DEF SharedType
<1>12. /\ sh'.lane = l /\ sh'.notified = m /\ sh'.pending = t.expected
       /\ sh'.result = sh.result /\ sh'.enhanced = sh.enhanced
       /\ sh'.receipts = sh.receipts /\ sh'.epoch = sh.epoch
  BY <1>1, Types DEF SharedType
<1>13. gh' \in HistoryType /\ gh'.sent = gh.sent /\ gh'.applied = gh.applied
  BY <1>1, Types DEF HistoryType
<1>14. TypeOK' BY <1>1, <1>11, <1>13 DEF IInv, TypeOK
<1>15. Wakeups' BY <1>8, <1>12 DEF Wakeups, NoLostWakeup
<1>16. Connected' BY <1>1, <1>12, StaysConnected DEF IInv
<1>17. Answered' BY <1>1, <1>12 DEF IInv, Answered, AnswersUnder
<1>18. Since(sh.pending)' BY <1>12, <1>13 DEF IInv, Expects, Since
<1>19. Receipts' BY <1>1, <1>12, <1>13, <1>18, ReceiptsStay DEF IInv
<1>20. Expects(t, Len(gh.sent))' BY <1>6, <1>13
<1> QED BY <1>7, <1>12, <1>14, <1>15, <1>16, <1>17, <1>19, <1>20
        DEF IInv, Good, ShowsTheCurrent, ReceiptsPrecede

LEMMA DeactivateKeeps == ASSUME IInv, Deactivate PROVE Good
<1> DEFINE x == [Forget(t) EXCEPT !.composing = FALSE, !.debounce = FALSE, !.shown = None]
<1>1. /\ t' = Disarmed(x)
      /\ sh' = [sh EXCEPT !.shutdown = TRUE, !.desired = 0, !.gen = 0, !.pending = None,
                  !.notified = FALSE, !.result = None, !.enhanced = None,
                  !.lane = TrySend("close")]
      /\ enh' = None /\ UNCHANGED <<w, eng, gh>>
  BY DEF Deactivate
<1>2. x \in StaType /\ x.expected = None /\ x.shown = None
  <2>1. PICK f \in StaType : f = Forget(t) /\ f.expected = None
    BY Types, ForgetDrops DEF Drops
  <2> QED BY <2>1, ZenonT(60) DEF StaType
<1> HIDE DEF x
<1>3. Keeps(x, t') BY <1>1, <1>2, DisarmedKeeps
<1>4. Expects(t', Len(gh.sent)) /\ t'.shown = None BY <1>2, <1>3 DEF Keeps, Expects
<1>5. TrySend("close") \in Seq(Commands) /\ TrySend("close") # <<>>
  BY SentCommand DEF IInv, Commands
<1>6. PICK q \in Seq(Commands) : q = TrySend("close") BY <1>5
<1>7. sh' = [sh EXCEPT !.shutdown = TRUE, !.desired = 0, !.gen = 0, !.pending = None,
                  !.notified = FALSE, !.result = None, !.enhanced = None, !.lane = q]
  BY <1>1, <1>6
<1>8. sh' \in SharedType BY <1>7, Types DEF SharedType
<1>9. /\ sh'.lane = q /\ sh'.notified = FALSE /\ sh'.pending = None /\ sh'.result = None
      /\ sh'.enhanced = None /\ sh'.receipts = sh.receipts /\ sh'.epoch = sh.epoch
  BY <1>7, Types DEF SharedType
<1>10. TypeOK' BY <1>1, <1>8 DEF IInv, TypeOK
<1>11. Wakeups' BY <1>5, <1>6, <1>9 DEF Wakeups, NoLostWakeup
<1>12. Connected' BY <1>1, <1>9, StaysConnected DEF IInv
<1>13. Answered' BY <1>1, <1>9 DEF Answered, AnswersUnder
<1>14. Receipts' BY <1>1, <1>9, ReceiptsStay DEF IInv, Since
<1>15. Expects(t, Len(gh.sent))' BY <1>1, <1>4
<1> QED BY <1>4, <1>9, <1>10, <1>11, <1>12, <1>13, <1>14, <1>15
        DEF IInv, Good, ShowsTheCurrent, ReceiptsPrecede
LEMMA PollStatusKeeps == ASSUME IInv, PollStatus PROVE Good
<1> DEFINE s == Head(sh.statuses)
           x == [t EXCEPT !.pc = "poll"]
           c == [x EXCEPT !.ack = <<t.cfg, sh.epoch>>, !.cfgPending = FALSE, !.mismatch = FALSE]
<1>1. /\ sh.statuses # <<>> /\ sh' = [sh EXCEPT !.statuses = Tail(@)]
      /\ UNCHANGED <<w, enh, eng, gh>>
  BY DEF PollStatus
<1>2. sh.statuses \in Seq(Status) BY Types DEF SharedType
<1>3. s \in Status /\ Tail(sh.statuses) \in Seq(Status) BY <1>1, <1>2
<1>4. t' = x \/ t' = OnConfigured(c) \/ t' = OnInvalidated(x) \/ t' = OnMismatch(x)
  <2>1. s.kind \in {"configured", "invalidated", "mismatch"} BY <1>3 DEF Status
  <2>2. StatusIsCurrent(s) \in BOOLEAN BY DEF StatusIsCurrent
  <2> QED BY <2>1, <2>2 DEF PollStatus
<1>5. Keeps(t, x) BY Types DEF StaType, Keeps
<1>6. Keeps(t, c) BY Types DEF StaType, Keeps
<1>7. x \in StaType /\ c \in StaType BY <1>5, <1>6 DEF Keeps
<1>8. Expects(x, Len(gh.sent)) BY <1>5, Types, KeepsExpects DEF IInv
<1>9. Expects(c, Len(gh.sent)) BY <1>6, Types, KeepsExpects, SMTT(30) DEF IInv
<1>10. x.shown = t.shown /\ c.shown = t.shown /\ c.rev = t.rev /\ c.cfg = t.cfg
  BY <1>5, <1>6 DEF Keeps
<1> HIDE DEF x, c
<1>11. Expects(OnConfigured(c), Len(gh.sent)) /\ OnConfigured(c).shown = t.shown
  <2>1. CASE c.expected # None /\ c.expected.cfg = c.cfg
    <3>1. PICK e : e = Rebound(c.expected, c.cfg, sh.epoch) OBVIOUS
    <3>2. OnConfigured(c) = [c EXCEPT !.expected = e] BY <2>1, <3>1 DEF OnConfigured
    <3>3. c.expected \in {None} \cup Snap /\ c.cfg \in Nat BY <1>7 DEF StaType
    <3>a. sh.epoch \in Nat BY Types
    <3>4. /\ e \in {None} \cup Snap
          /\ e # None => c.expected # None /\ e.rev = c.expected.rev
                         /\ e.cfg = c.expected.cfg /\ e.after = c.expected.after
      BY <3>1, <3>3, <3>a, ReboundIsOlder
    <3>5. PICK y : y = [c EXCEPT !.expected = e] OBVIOUS
    <3>6. y \in StaType BY <1>7, <3>4, <3>5 DEF StaType
    <3>7. y.expected = e /\ y.rev = c.rev /\ y.cfg = c.cfg /\ y.shown = c.shown
      BY <1>7, <3>5 DEF StaType
    <3> QED BY <1>9, <1>10, <3>2, <3>4, <3>5, <3>6, <3>7 DEF Expects
  <2>2. CASE ~(c.expected # None /\ c.expected.cfg = c.cfg) /\ c.expl
    <3>1. OnConfigured(c) = Submitted(c, "pollpush") BY <2>2 DEF OnConfigured
    <3> QED BY <1>9, <1>10, <3>1, SubmittedExpects
  <2>3. CASE ~(c.expected # None /\ c.expected.cfg = c.cfg) /\ ~c.expl
    <3>1. OnConfigured(c) = [c EXCEPT !.debounce = @ \/ c.composing]
      BY <2>3 DEF OnConfigured
    <3>2. Keeps(c, OnConfigured(c)) BY <1>7, <3>1 DEF StaType, Keeps
    <3>3. Expects(OnConfigured(c), Len(gh.sent)) BY <1>9, <3>2, Types, KeepsExpects
    <3> QED BY <1>10, <3>2, <3>3 DEF Keeps
  <2> QED BY <2>1, <2>2, <2>3
<1>12. Expects(OnInvalidated(x), Len(gh.sent)) /\ OnInvalidated(x).shown = t.shown
  <2>1. Keeps(x, OnInvalidated(x)) BY <1>7, ZenonT(60) DEF StaType, Keeps, OnInvalidated, Represented
  <2>2. Expects(OnInvalidated(x), Len(gh.sent)) BY <1>8, <2>1, Types, KeepsExpects
  <2> QED BY <1>10, <2>1, <2>2 DEF Keeps
<1>13. Expects(OnMismatch(x), Len(gh.sent)) /\ OnMismatch(x).shown = t.shown
  <2> DEFINE y == [Forget(x) EXCEPT !.ack = <<0, 0>>, !.mismatch = TRUE]
  <2>1. y \in StaType /\ y.expected = None /\ y.shown = x.shown
    <3>1. PICK f \in StaType : f = Forget(x) /\ f.expected = None /\ f.shown = x.shown
      BY <1>7, ForgetDrops DEF Drops
    <3> QED BY <3>1 DEF StaType
  <2>2. OnMismatch(x) = Disarmed(y) BY DEF OnMismatch
  <2> HIDE DEF y
  <2>3. Keeps(y, OnMismatch(x)) BY <2>1, <2>2, DisarmedKeeps
  <2> QED BY <1>10, <2>1, <2>3 DEF Keeps, Expects
<1>14. Expects(t', Len(gh.sent)) /\ t'.shown = t.shown
  BY <1>4, <1>8, <1>10, <1>11, <1>12, <1>13
<1>15. sh' \in SharedType BY <1>1, <1>3, Types DEF SharedType
<1>16. /\ sh'.lane = sh.lane /\ sh'.notified = sh.notified /\ sh'.pending = sh.pending
       /\ sh'.result = sh.result /\ sh'.enhanced = sh.enhanced
       /\ sh'.receipts = sh.receipts /\ sh'.epoch = sh.epoch /\ sh'.desired = sh.desired
  BY <1>1, Types DEF SharedType
<1>17. TypeOK' BY <1>1, <1>15 DEF IInv, TypeOK
<1>18. Wakeups' BY <1>1, <1>16 DEF IInv, Wakeups, NoLostWakeup
<1>19. Connected' BY <1>1, <1>16, StaysConnected DEF IInv
<1>20. Answered' BY <1>1, <1>16 DEF IInv, Answered, AnswersUnder
<1>21. Receipts' BY <1>1, <1>16, ReceiptsStay DEF IInv, Receipts, Since
<1>22. Expects(t, Len(gh.sent))' BY <1>1, <1>14
<1> QED BY <1>14, <1>16, <1>17, <1>18, <1>19, <1>20, <1>21, <1>22
        DEF IInv, Good, ShowsTheCurrent, ReceiptsPrecede

(* A picked up answer that writes nothing leaves the receipts alone.       *)
LEMMA NothingWritten ==
  ASSUME IInv, PollResult, UNCHANGED gh, Expects(t', Len(gh.sent)), ShowsTheCurrent
  PROVE  Good
<1> DEFINE e == IF sh.result # None THEN sh.enhanced ELSE None
<1>1. /\ sh' = [sh EXCEPT !.result = None, !.enhanced = e, !.receipts = @, !.lane = @]
      /\ UNCHANGED <<w, enh, eng>>
  BY DEF PollResult
<1>2. e \in {None} \cup Result BY Types DEF SharedType
<1>3. AnswersUnder(e) BY DEF IInv, Answered, AnswersUnder
<1> HIDE DEF e
<1>4. sh' \in SharedType BY <1>1, <1>2, Types DEF SharedType
<1>5. /\ sh'.lane = sh.lane /\ sh'.notified = sh.notified /\ sh'.pending = sh.pending
      /\ sh'.result = None /\ sh'.enhanced = e
      /\ sh'.receipts = sh.receipts /\ sh'.epoch = sh.epoch /\ sh'.desired = sh.desired
  BY <1>1, Types DEF SharedType
<1>6. TypeOK' BY <1>1, <1>4 DEF IInv, TypeOK
<1>7. Wakeups' BY <1>1, <1>5 DEF IInv, Wakeups, NoLostWakeup
<1>8. Connected' BY <1>1, <1>5, StaysConnected DEF IInv
<1>9. Answered' BY <1>1, <1>3, <1>5 DEF IInv, Answered, AnswersUnder
<1>10. Receipts' BY <1>1, <1>5, ReceiptsStay DEF IInv, Receipts, Since
<1> QED BY <1>5, <1>6, <1>7, <1>8, <1>9, <1>10 DEF IInv, Good, ReceiptsPrecede

(* A prefix written into the document owes its receipt to this connection. *)
LEMMA PrefixWritten ==
  ASSUME IInv, NEW r \in Result, NEW e \in {None} \cup Result, AnswersUnder(e),
         r.conn = sh.epoch, Expects(t', 0), t'.shown = None, UNCHANGED <<w, enh, eng>>,
         gh' = [gh EXCEPT !.sent = Append(@, r.conn)],
         sh' = [sh EXCEPT !.result = None, !.enhanced = e,
                          !.receipts = Append(@, [n |-> Len(gh'.sent), conn |-> r.conn]),
                          !.lane = TrySend("work")]
  PROVE  Good
<1> DEFINE last == Len(gh.sent) + 1
           owed == [n |-> last, conn |-> sh.epoch]
<1>1. gh.sent \in Seq(Nat) /\ sh.receipts \in Seq(Receipt) /\ sh.epoch \in Nat BY Types
<1>2. /\ Append(gh.sent, sh.epoch) \in Seq(Nat) /\ Len(Append(gh.sent, sh.epoch)) = last
      /\ last \in Nat
  BY <1>1
<1>3. owed \in Receipt BY <1>1, <1>2 DEF Receipt
<1>4. Append(sh.receipts, owed) \in Seq(Receipt) BY <1>1, <1>3
<1>5. /\ gh' \in HistoryType /\ gh'.sent = Append(gh.sent, sh.epoch)
      /\ gh'.applied = gh.applied
  BY <1>2, Types DEF HistoryType
<1>6. PICK l \in Seq(Commands) :
        /\ l = TrySend("work") /\ l # <<>>
        /\ (\E i \in DOMAIN sh.lane : sh.lane[i] = "work") => \E i \in DOMAIN l : l[i] = "work"
  BY SentCommand DEF IInv, Commands
<1>7. PICK q \in Seq(Receipt) : q = Append(sh.receipts, owed) BY <1>4
<1>8. sh' = [sh EXCEPT !.result = None, !.enhanced = e, !.receipts = q, !.lane = l]
  BY <1>2, <1>5, <1>6, <1>7
<1>9. sh' \in SharedType BY <1>8, Types DEF SharedType
<1>10. /\ sh'.lane = l /\ sh'.notified = sh.notified /\ sh'.pending = sh.pending
       /\ sh'.result = None /\ sh'.enhanced = e
       /\ sh'.receipts = q /\ sh'.epoch = sh.epoch
  BY <1>8, Types DEF SharedType
<1>11. TypeOK' BY <1>5, <1>9 DEF IInv, TypeOK
<1>12. Wakeups' BY <1>6, <1>10 DEF IInv, Wakeups, NoLostWakeup
<1>13. Connected' BY <1>10, StaysConnected DEF IInv
<1>14. Answered' BY <1>10 DEF IInv, Answered, AnswersUnder
<1>15. Receipts'
  <2>1. /\ \A n \in DOMAIN gh.sent : gh.sent[n] <= sh.epoch
        /\ \A n \in DOMAIN gh.sent : gh.sent[n] = sh.epoch =>
             n \in gh.applied \/ \E i \in DOMAIN sh.receipts : sh.receipts[i].n = n
        /\ \A i \in DOMAIN sh.receipts : sh.receipts[i].n \in DOMAIN gh.sent
             /\ sh.receipts[i].conn = gh.sent[sh.receipts[i].n]
    BY DEF IInv, Receipts
  <2>2. /\ DOMAIN gh'.sent = DOMAIN gh.sent \cup {last} /\ gh'.sent[last] = sh.epoch
        /\ \A n \in DOMAIN gh.sent : n # last /\ gh'.sent[n] = gh.sent[n]
    BY <1>1, <1>5, SMTT(30)
  <2>3. /\ DOMAIN q = DOMAIN sh.receipts \cup {Len(sh.receipts) + 1}
        /\ q[Len(sh.receipts) + 1] = owed
        /\ \A i \in DOMAIN sh.receipts : q[i] = sh.receipts[i]
    BY <1>1, <1>7
  <2>4. owed.n = last /\ owed.conn = sh.epoch OBVIOUS
  <2> HIDE DEF owed, last
  <2>5. \A n \in DOMAIN gh'.sent : gh'.sent[n] <= sh'.epoch
    BY <1>1, <1>10, <2>1, <2>2
  <2>6. ASSUME NEW n \in DOMAIN gh'.sent, gh'.sent[n] = sh'.epoch
        PROVE  n \in gh'.applied \/ \E i \in DOMAIN q : q[i].n = n
    <3>1. CASE n = last BY <2>3, <2>4, <3>1
    <3>2. CASE n \in DOMAIN gh.sent
      <4>1. gh.sent[n] = sh.epoch BY <1>10, <2>2, <2>6, <3>2
      <4>2. n \in gh.applied \/ \E i \in DOMAIN sh.receipts : sh.receipts[i].n = n
        BY <2>1, <3>2, <4>1
      <4>3. ASSUME NEW i \in DOMAIN sh.receipts, sh.receipts[i].n = n
            PROVE  i \in DOMAIN q /\ q[i].n = n
        BY <2>3, <4>3
      <4> QED BY <1>5, <4>2, <4>3
    <3> QED BY <2>2, <3>1, <3>2
  <2>7. ASSUME NEW i \in DOMAIN q
        PROVE  q[i].n \in DOMAIN gh'.sent /\ q[i].conn = gh'.sent[q[i].n]
    BY <2>1, <2>2, <2>3, <2>4, <2>7, SMTT(30)
  <2>8. ASSUME NEW s \in {None} \cup Snap, Since(s) PROVE s # None => s.after <= Len(gh'.sent)
    <3>1. CASE s = None BY <3>1
    <3>2. CASE s \in Snap
      <4>1. s.after \in Nat BY <3>2 DEF Snap
      <4> QED BY <1>1, <1>2, <1>5, <2>8, <4>1 DEF Since, last
    <3> QED BY <3>1, <3>2
  <2>9. /\ sh.pending \in {None} \cup Snap /\ w.snap \in {None} \cup Snap
        /\ w.selected \in {None} \cup Snap /\ w.cur \in {None} \cup Snap
    BY Types DEF SharedType, WorkerType
  <2>10. Since(sh.pending) /\ Since(w.snap) /\ Since(w.selected) /\ Since(w.cur)
    BY DEF IInv, Receipts
  <2>11. Since(sh.pending)' /\ Since(w.snap)' /\ Since(w.selected)' /\ Since(w.cur)'
    <3>2. Since(sh.pending)' BY <1>10, <2>8, <2>9, <2>10 DEF Since
    <3>3. w' = w OBVIOUS
    <3>4. Since(w.snap)' BY <3>3, <2>8, <2>9, <2>10 DEF Since
    <3>5. Since(w.selected)' BY <3>3, <2>8, <2>9, <2>10 DEF Since
    <3>6. Since(w.cur)' BY <3>3, <2>8, <2>9, <2>10 DEF Since
    <3> QED BY <3>2, <3>4, <3>5, <3>6
  <2>12. (\A n \in DOMAIN gh.sent : gh.sent[n] = sh.epoch =>
             n \in gh.applied \/ \E i \in DOMAIN sh.receipts : sh.receipts[i].n = n)'
    BY <1>10, <2>6
  <2>13. (\A i \in DOMAIN sh.receipts : sh.receipts[i].n \in DOMAIN gh.sent
             /\ sh.receipts[i].conn = gh.sent[sh.receipts[i].n])'
    BY <1>10, <2>7
  <2> QED BY <2>5, <2>11, <2>12, <2>13 DEF Receipts
<1>16. Expects(t, Len(gh.sent))'
  <2>1. t' \in StaType BY DEF Expects
  <2>2. CASE t'.expected = None BY <2>1, <2>2 DEF Expects
  <2>3. CASE t'.expected # None
    <3>1. t'.expected \in Snap BY <2>1, <2>3 DEF StaType
    <3>2. t'.expected.after \in Nat BY <3>1 DEF Snap
    <3> QED BY <2>3, <3>2, <1>2, <1>5 DEF Expects
  <2> QED BY <2>2, <2>3
<1> QED BY <1>10, <1>11, <1>12, <1>13, <1>14, <1>15, <1>16
        DEF IInv, Good, ShowsTheCurrent, ReceiptsPrecede

(* The display takes an answer to the very snapshot that is expected.      *)
LEMMA AcceptFits ==
  ASSUME IInv, NEW r \in Result, AnswersUnder(r), ResultIsCurrent(r), Answers(r),
         NEW x, Keeps(t, x), Accept(r, x)
  PROVE  Expects(t', Len(gh.sent)) /\ ShowsTheCurrent
<1> DEFINE v == [rev |-> r.rev, cfg |-> r.cfg, conn |-> r.conn, under |-> r.under]
           y == [x EXCEPT !.shown = v]
           z == [y EXCEPT !.deadline = FALSE, !.pc = "idle"]
           o == [y EXCEPT !.expl = FALSE]
<1>1. t' = IF r.enh THEN Armed(z, sh.gen) ELSE o BY DEF Accept
<1>2. t \in StaType /\ t.expected # None BY Types DEF Answers
<1>3. /\ t.expected.rev = t.rev /\ t.expected.cfg = t.cfg /\ t.expected.after <= Len(gh.sent)
  BY <1>2 DEF IInv, Expects
<1>4. r.rev = t.rev /\ r.cfg = t.cfg BY <1>2, <1>3, AnswerFits
<1>5. r.conn = sh.epoch BY DEF ResultIsCurrent
<1>6. r.under = t.cfg BY <1>4, NothingIsNoSnapshot DEF AnswersUnder
<1>7. v \in Shown BY <1>4, <1>5 DEF Result, Shown
<1>8. v.rev = t.rev /\ v.cfg = t.cfg /\ v.conn = sh.epoch /\ v.under = t.cfg
  BY <1>4, <1>5, <1>6
<1> HIDE DEF v
<1>9. Expects(x, Len(gh.sent)) BY Types, KeepsExpects DEF IInv
<1>10. /\ z \in StaType /\ z.shown = v /\ z.expected = x.expected /\ z.rev = x.rev
       /\ z.cfg = x.cfg
  BY <1>7 DEF Keeps, StaType
<1>11. /\ o \in StaType /\ o.shown = v /\ o.expected = x.expected /\ o.rev = x.rev
       /\ o.cfg = x.cfg
  BY <1>7 DEF Keeps, StaType
<1> HIDE DEF z, o
<1>12. Expects(z, Len(gh.sent)) /\ Expects(o, Len(gh.sent))
  BY <1>9, <1>10, <1>11 DEF Expects
<1>13. Keeps(z, Armed(z, sh.gen)) BY <1>10, Types, ArmedKeeps
<1>14. Expects(Armed(z, sh.gen), Len(gh.sent)) BY <1>12, <1>13, Types, KeepsExpects
<1>15. Expects(t', Len(gh.sent)) BY <1>1, <1>12, <1>14
<1>16. t'.shown = v BY <1>1, <1>10, <1>11, <1>13 DEF Keeps
<1> QED BY <1>8, <1>15, <1>16 DEF ShowsTheCurrent

LEMMA PollResultKeeps == ASSUME IInv, PollResult PROVE Good
<1> DEFINE r == IF sh.result # None THEN sh.result ELSE sh.enhanced
           x == [t EXCEPT !.heard = TRUE, !.pc = "poll"]
           e == IF sh.result # None THEN sh.enhanced ELSE None
           y == [x EXCEPT !.deadline = FALSE, !.pc = "idle"]
           f == [Forget(y) EXCEPT !.rev = @ + 1, !.debounce = TRUE, !.shown = None]
<1>1. /\ r \in Result /\ AnswersUnder(r)
      /\ e \in {None} \cup Result /\ AnswersUnder(e)
  <2>1. sh.result \in {None} \cup Result /\ sh.enhanced \in {None} \cup Result
    BY Types DEF SharedType
  <2>2. sh.result # None \/ sh.enhanced # None BY DEF PollResult
  <2>3. AnswersUnder(sh.result) /\ AnswersUnder(sh.enhanced) /\ AnswersUnder(None)
    BY DEF IInv, Answered, AnswersUnder
  <2> QED BY <2>1, <2>2, <2>3
<1>2. Keeps(t, x) BY Types DEF StaType, Keeps
<1>3. x \in StaType BY <1>2 DEF Keeps
<1>4. Keeps(t, y) BY Types DEF StaType, Keeps
<1>5. y \in StaType BY <1>4 DEF Keeps
<1>6. \/ t' = [t EXCEPT !.pc = "poll"] /\ UNCHANGED gh
      \/ ResultIsCurrent(r) /\ Answers(r) /\ Accept(r, x)
      \/ ResultIsCurrent(r) /\ Answers(r) /\ AutoCommit(r, x)
  BY DEF PollResult
<1>7. /\ sh' = [sh EXCEPT !.result = None, !.enhanced = e,
                  !.receipts = IF gh' = gh THEN @
                               ELSE Append(@, [n |-> Len(gh'.sent), conn |-> r.conn]),
                  !.lane = IF gh' = gh THEN @ ELSE TrySend("work")]
      /\ UNCHANGED <<w, enh, eng>>
  BY DEF PollResult
<1> HIDE DEF r, e, x
<1>8. CASE t' = [t EXCEPT !.pc = "poll"] /\ UNCHANGED gh
  <2>1. Keeps(t, t') BY <1>8, Types DEF StaType, Keeps
  <2>2. Expects(t', Len(gh.sent)) BY <2>1, Types, KeepsExpects DEF IInv
  <2>3. ShowsTheCurrent BY <2>1 DEF Keeps, ShowsTheCurrent
  <2> QED BY <1>8, <2>2, <2>3, NothingWritten
<1>9. CASE ResultIsCurrent(r) /\ Answers(r) /\ Accept(r, x)
  <2>1. Expects(t', Len(gh.sent)) /\ ShowsTheCurrent BY <1>1, <1>2, <1>9, AcceptFits
  <2>2. UNCHANGED gh BY <1>9 DEF Accept
  <2> QED BY <2>1, <2>2, NothingWritten
<1>10. CASE ResultIsCurrent(r) /\ Answers(r) /\ AutoCommit(r, x)
  <2>1. \/ /\ t' = Armed(f, sh.gen)
           /\ gh' = [gh EXCEPT !.sent = Append(@, r.conn)]
        \/ t' = Armed(y, sh.gen) /\ UNCHANGED gh
    BY <1>10 DEF AutoCommit
  <2>2. f \in StaType /\ f.expected = None /\ f.shown = None
    <3>1. PICK g \in StaType : g = Forget(y) /\ g.expected = None
      BY <1>5, ForgetDrops DEF Drops
    <3>2. PICK n \in Nat : n = g.rev + 1 BY <3>1 DEF StaType
    <3>3. f = [g EXCEPT !.rev = n, !.debounce = TRUE, !.shown = None] BY <3>1, <3>2
    <3> HIDE DEF f
    <3>4. f \in StaType BY <3>1, <3>3 DEF StaType
    <3> QED BY <3>1, <3>3, <3>4 DEF StaType
  <2> HIDE DEF f, y
  <2>3. CASE t' = Armed(y, sh.gen) /\ UNCHANGED gh
    <3>1. Expects(y, Len(gh.sent)) BY <1>4, Types, KeepsExpects DEF IInv
    <3>2. Keeps(y, t') BY <1>5, <2>3, Types, ArmedKeeps
    <3>3. Expects(t', Len(gh.sent)) BY <3>1, <3>2, Types, KeepsExpects
    <3>4. t'.shown = t.shown BY <1>4, <3>2 DEF Keeps
    <3>5. ShowsTheCurrent BY <3>4 DEF ShowsTheCurrent
    <3> QED BY <2>3, <3>3, <3>5, NothingWritten
  <2>4. CASE t' = Armed(f, sh.gen) /\ gh' = [gh EXCEPT !.sent = Append(@, r.conn)]
    <3>1. Keeps(f, t') BY <2>2, <2>4, Types, ArmedKeeps
    <3>2. Expects(t', 0) /\ t'.shown = None BY <2>2, <3>1 DEF Keeps, Expects
    <3>3. r.conn = sh.epoch BY <1>10 DEF ResultIsCurrent
    <3>4. gh' # gh
      <4>1. gh.sent \in Seq(Nat) /\ r.conn \in Nat BY Types, <1>1 DEF Result
      <4>2. Append(gh.sent, r.conn) # gh.sent BY <4>1
      <4>3. gh'.sent = Append(gh.sent, r.conn) BY <2>4, Types DEF HistoryType
      <4> QED BY <4>2, <4>3
    <3>5. sh' = [sh EXCEPT !.result = None, !.enhanced = e,
                   !.receipts = Append(@, [n |-> Len(gh'.sent), conn |-> r.conn]),
                   !.lane = TrySend("work")]
      BY <1>7, <3>4
    <3> QED BY <1>1, <1>7, <2>4, <3>2, <3>3, <3>5, PrefixWritten
  <2> QED BY <2>1, <2>3, <2>4
<1> QED BY <1>6, <1>8, <1>9, <1>10
-----------------------------------------------------------------------------
(* Steps of the worker.                                                    *)

(* Whether the snapshots of a step's next state are old enough.            *)
AllSince ==
  Since(sh'.pending) /\ Since(w'.snap) /\ Since(w'.selected) /\ Since(w'.cur)

LEMMA SameConnection ==
  ASSUME Receipts, UNCHANGED gh, sh'.epoch = sh.epoch, sh'.receipts = sh.receipts, AllSince
  PROVE  Receipts'
<1>1. Since(sh.pending)' /\ Since(w.snap)' /\ Since(w.selected)' /\ Since(w.cur)'
  BY DEF AllSince, Since
<1> QED BY <1>1 DEF Receipts

LEMMA NewConnection ==
  ASSUME IInv, UNCHANGED gh, sh'.epoch = sh.epoch + 1,
         sh'.receipts = sh.receipts \/ sh'.receipts = <<>>, AllSince
  PROVE  Receipts'
<1>1. Since(sh.pending)' /\ Since(w.snap)' /\ Since(w.selected)' /\ Since(w.cur)'
  BY DEF AllSince, Since
<1>2. \A n \in DOMAIN gh.sent : gh.sent[n] <= sh.epoch
  <2>1. Receipts BY DEF IInv
  <2> QED BY <2>1, Zenon DEF Receipts
<1>3. \A n \in DOMAIN gh.sent : gh.sent[n] \in Nat
  <2>1. PICK s \in Seq(Nat) : s = gh.sent BY Types
  <2>2. \A n \in DOMAIN s : s[n] \in Nat OBVIOUS
  <2> QED BY <2>1, <2>2
<1>4. \A n \in DOMAIN gh.sent : gh.sent[n] <= sh'.epoch /\ gh.sent[n] # sh'.epoch
  BY <1>2, <1>3, Types, SMTT(30)
<1>5. (\A i \in DOMAIN sh.receipts : sh.receipts[i].n \in DOMAIN gh.sent
          /\ sh.receipts[i].conn = gh.sent[sh.receipts[i].n])'
  BY DEF IInv, Receipts
<1> QED BY <1>1, <1>4, <1>5 DEF Receipts

LEMMA Rest ==
  ASSUME IInv
  PROVE  /\ Since(sh.pending) /\ Since(w.snap) /\ Since(w.selected) /\ Since(w.cur)
         /\ Since(None)
  BY DEF IInv, Receipts, Since

LEMMA NothingShown ==
  ASSUME IInv, UNCHANGED t, gh'.sent = gh.sent
  PROVE  Expects(t, Len(gh.sent))' /\ ShowsTheCurrent
<1>1. Expects(t, Len(gh.sent)) BY DEF IInv
<1>2. Expects(t', Len(gh'.sent)) BY <1>1
<1> QED BY <1>2 DEF ShowsTheCurrent

LEMMA NothingConverted ==
  ASSUME IInv, UNCHANGED enh, sh'.result = sh.result, sh'.enhanced = sh.enhanced
  PROVE  Answered' /\ ReceiptsPrecede
<1>1. Answered' BY DEF IInv, Answered, AnswersUnder
<1> QED BY <1>1 DEF ReceiptsPrecede

LEMMA AdoptedIs ==
  ASSUME IInv
  PROVE  /\ Adopted \in WorkerType /\ Adopted.snap = w.snap /\ Adopted.selected = w.selected
         /\ Adopted.cur = w.cur
         /\ Adopted.cfg # 0 => sh.desired = 0 /\ Adopted.cfg = w.cfg
<1>1. CASE sh.desired = 0 BY <1>1, Types DEF Adopted
<1>2. CASE sh.desired # 0
  <2>1. Adopted = [w EXCEPT !.latest = sh.desired, !.cfg = 0, !.retry = TRUE, !.probe = FALSE]
    BY <1>2 DEF Adopted
  <2>2. Adopted \in WorkerType BY <2>1, Types DEF WorkerType
  <2>3. /\ Adopted.snap = w.snap /\ Adopted.selected = w.selected /\ Adopted.cur = w.cur
        /\ Adopted.cfg = 0
    BY <2>1, Types DEF WorkerType
  <2> QED BY <2>2, <2>3
<1> QED BY <1>1, <1>2

LEMMA SlotTakenIs ==
  ASSUME IInv
  PROVE  /\ SlotTaken \in SharedType /\ SlotTaken.desired = 0 /\ SlotTaken.lane = sh.lane
         /\ SlotTaken.notified = sh.notified /\ SlotTaken.pending = sh.pending
         /\ SlotTaken.result = sh.result /\ SlotTaken.enhanced = sh.enhanced
         /\ SlotTaken.receipts = sh.receipts /\ SlotTaken.epoch = sh.epoch
<1>1. PICK g \in Nat : g = IF sh.desired > sh.gen THEN sh.desired ELSE sh.gen BY Types
<1>2. SlotTaken = [sh EXCEPT !.desired = 0, !.gen = g] BY <1>1 DEF SlotTaken
<1>3. SlotTaken \in SharedType BY <1>2, Types DEF SharedType
<1> QED BY <1>2, <1>3, Types DEF SharedType

LEMMA ExitKeeps == ASSUME IInv, Exit, UNCHANGED <<t, enh>> PROVE Good
<1>1. w' = [w EXCEPT !.pc = "exit", !.snap = None, !.selected = None, !.cur = None]
  BY DEF Exit
<1>2. sh' = [sh EXCEPT !.epoch = @ + 1, !.pending = None, !.notified = FALSE] BY DEF Exit
<1>3. w' \in WorkerType BY <1>1, Types DEF WorkerType
<1>4. w'.pc = "exit" /\ w'.snap = None /\ w'.selected = None /\ w'.cur = None
  BY <1>1, Types DEF WorkerType
<1>5. PICK n \in Nat : n = sh.epoch + 1 BY Types
<1>6. sh' \in SharedType BY <1>2, <1>5, Types DEF SharedType
<1>7. /\ sh'.epoch = sh.epoch + 1 /\ sh'.pending = None /\ sh'.notified = FALSE
      /\ sh'.receipts = sh.receipts /\ sh'.result = sh.result /\ sh'.enhanced = sh.enhanced
  BY <1>2, Types DEF SharedType
<1>8. eng' \in EngineType BY Types DEF Exit, EngineType
<1>9. UNCHANGED gh BY DEF Exit
<1>10. TypeOK' BY <1>3, <1>6, <1>8, <1>9 DEF IInv, TypeOK
<1>11. Wakeups' BY <1>4, <1>7 DEF Wakeups, NoLostWakeup
<1>12. Connected' BY <1>4 DEF Connected
<1>13. AllSince BY <1>4, <1>7, Rest DEF AllSince
<1>14. Receipts' BY <1>7, <1>9, <1>13, NewConnection
<1>15. Answered' /\ ReceiptsPrecede BY <1>7, NothingConverted
<1>16. Expects(t, Len(gh.sent))' /\ ShowsTheCurrent BY <1>9, NothingShown
<1> QED BY <1>10, <1>11, <1>12, <1>14, <1>15, <1>16 DEF IInv, Good

(* The worker takes the head of the lane, if there is one.                 *)
LEMMA LaneTaken ==
  ASSUME IInv, NEW l, NEW m,
         l = IF sh.lane = <<>> THEN sh.lane ELSE Tail(sh.lane),
         m = (sh.notified /\ ~(sh.lane # <<>> /\ Head(sh.lane) = "work"))
  PROVE  /\ l \in Seq(Commands) /\ m \in BOOLEAN
         /\ m => \E i \in DOMAIN l : l[i] = "work"
<1>1. CASE sh.lane = <<>>
  <2>1. sh.notified => \E i \in DOMAIN sh.lane : sh.lane[i] = "work" BY DEF IInv, Wakeups
  <2> QED BY <1>1, <2>1, Types DEF SharedType
<1>2. CASE sh.lane # <<>>
  <2>1. /\ Tail(sh.lane) \in Seq(Commands)
        /\ (\E i \in DOMAIN sh.lane : sh.lane[i] = "work") /\ Head(sh.lane) # "work" =>
               \E i \in DOMAIN Tail(sh.lane) : Tail(sh.lane)[i] = "work"
    BY <1>2, TakenCommand DEF IInv
  <2>2. sh.notified => \E i \in DOMAIN sh.lane : sh.lane[i] = "work" BY DEF IInv, Wakeups
  <2>3. sh.notified \in BOOLEAN BY Types DEF SharedType
  <2> QED BY <1>2, <2>1, <2>2, <2>3
<1> QED BY <1>1, <1>2

LEMMA TopKeeps == ASSUME IInv, Top, UNCHANGED <<t, enh>> PROVE Good
<1>1. CASE sh.shutdown /\ Exit BY <1>1, ExitKeeps
<1>2. CASE ~(sh.shutdown /\ Exit)
  <2> DEFINE work == sh.lane # <<>> /\ Head(sh.lane) = "work"
             next == IF work \/ (Adopted.cfg # 0 /\ Runnable) THEN "work" ELSE "wait"
  <2>1. /\ w.pc = "top" /\ UNCHANGED <<eng, gh>>
        /\ \E pc \in {next} \union (IF Adopted.retry \/ Adopted.probe THEN {"due"} ELSE {}) :
              w' = [Adopted EXCEPT !.pc = pc]
        /\ sh' = [SlotTaken EXCEPT !.lane = IF @ = <<>> THEN @ ELSE Tail(@),
                                   !.notified = @ /\ ~work]
    BY <1>2 DEF Top
  <2>2. PICK pc \in {next, "due"} : w' = [Adopted EXCEPT !.pc = pc] BY <2>1
  <2>3. PICK l : l = IF sh.lane = <<>> THEN sh.lane ELSE Tail(sh.lane) OBVIOUS
  <2>4. PICK m : m = (sh.notified /\ ~work) OBVIOUS
  <2>5. l \in Seq(Commands) /\ m \in BOOLEAN /\ (m => \E i \in DOMAIN l : l[i] = "work")
    BY <2>3, <2>4, LaneTaken
  <2>6. next \in {"work", "wait"} /\ (next = "wait" => ~(Adopted.cfg # 0 /\ Runnable)) OBVIOUS
  <2>7. sh' = [SlotTaken EXCEPT !.lane = l, !.notified = m] BY <2>1, <2>3, <2>4, SlotTakenIs
  <2> HIDE DEF next, work
  <2>8. sh' \in SharedType BY <2>5, <2>7, SlotTakenIs DEF SharedType
  <2>9. /\ sh'.lane = l /\ sh'.notified = m /\ sh'.desired = 0 /\ sh'.pending = sh.pending
        /\ sh'.result = sh.result /\ sh'.enhanced = sh.enhanced
        /\ sh'.receipts = sh.receipts /\ sh'.epoch = sh.epoch
    BY <2>7, SlotTakenIs DEF SharedType
  <2>10. w' \in WorkerType BY <2>2, <2>6, AdoptedIs DEF WorkerType
  <2>11. /\ w'.pc = pc /\ w'.cfg = Adopted.cfg /\ w'.snap = w.snap
         /\ w'.selected = w.selected /\ w'.cur = w.cur
    BY <2>2, AdoptedIs DEF WorkerType
  <2>12. TypeOK' BY <2>1, <2>8, <2>10 DEF IInv, TypeOK
  <2>13. Wakeups'
    <3>1. ASSUME w'.pc = "wait", w'.cfg # 0
          PROVE  w'.selected = None /\ sh'.pending = None
      <4>1. w.cfg # 0 /\ ~Runnable BY <2>2, <2>6, <2>11, <3>1, AdoptedIs
      <4> QED BY <2>9, <2>11, <4>1 DEF Runnable
    <3> QED BY <2>5, <2>9, <3>1 DEF Wakeups, NoLostWakeup
  <2>14. Connected'
    <3>1. w'.pc \in {"work", "wait", "due"} BY <2>2, <2>6, <2>11
    <3>2. w'.cfg # 0 => w'.cfg = w.cfg BY <2>11, AdoptedIs
    <3> QED BY <2>1, <3>1, <3>2 DEF IInv, Connected
  <2>15. AllSince BY <2>9, <2>11, Rest DEF AllSince
  <2>16. Receipts' BY <2>1, <2>9, <2>15, SameConnection DEF IInv
  <2>17. Answered' /\ ReceiptsPrecede BY <2>9, NothingConverted
  <2>18. Expects(t, Len(gh.sent))' /\ ShowsTheCurrent BY <2>1, NothingShown
  <2> QED BY <2>12, <2>13, <2>14, <2>16, <2>17, <2>18 DEF IInv, Good
<1> QED BY <1>1, <1>2

LEMMA WaitKeeps == ASSUME IInv, Wait, UNCHANGED <<t, enh>> PROVE Good
<1>1. CASE sh.shutdown /\ Exit BY <1>1, ExitKeeps
<1>2. CASE sh.lane # <<>> /\ ~sh.shutdown
  <2>1. /\ w.pc = "wait" /\ UNCHANGED <<eng, gh>>
        /\ w' = [w EXCEPT !.pc = IF Head(sh.lane) = "work" THEN "work" ELSE "top"]
        /\ sh' = [sh EXCEPT !.lane = Tail(@), !.notified = @ /\ ~(Head(sh.lane) = "work")]
    BY <1>2 DEF Wait
  <2>2. PICK l : l = IF sh.lane = <<>> THEN sh.lane ELSE Tail(sh.lane) OBVIOUS
  <2>3. PICK m : m = (sh.notified /\ ~(sh.lane # <<>> /\ Head(sh.lane) = "work")) OBVIOUS
  <2>4. l \in Seq(Commands) /\ m \in BOOLEAN /\ (m => \E i \in DOMAIN l : l[i] = "work")
    BY <2>2, <2>3, LaneTaken
  <2>5. sh' = [sh EXCEPT !.lane = l, !.notified = m] BY <1>2, <2>1, <2>2, <2>3, Types DEF SharedType
  <2>6. PICK pc \in {"work", "top"} : w' = [w EXCEPT !.pc = pc] BY <2>1
  <2>7. sh' \in SharedType BY <2>4, <2>5, Types DEF SharedType
  <2>8. /\ sh'.lane = l /\ sh'.notified = m /\ sh'.pending = sh.pending
        /\ sh'.result = sh.result /\ sh'.enhanced = sh.enhanced
        /\ sh'.receipts = sh.receipts /\ sh'.epoch = sh.epoch
    BY <2>5, Types DEF SharedType
  <2>9. w' \in WorkerType BY <2>6, Types DEF WorkerType
  <2>10. /\ w'.pc \in {"work", "top"} /\ w'.cfg = w.cfg /\ w'.snap = w.snap
         /\ w'.selected = w.selected /\ w'.cur = w.cur
    BY <2>6, Types DEF WorkerType
  <2>11. TypeOK' BY <2>1, <2>7, <2>9 DEF IInv, TypeOK
  <2>12. Wakeups' BY <2>4, <2>8, <2>10 DEF Wakeups, NoLostWakeup
  <2>13. Connected' BY <2>1, <2>10 DEF IInv, Connected
  <2>14. AllSince BY <2>8, <2>10, Rest DEF AllSince
  <2>15. Receipts' BY <2>1, <2>8, <2>14, SameConnection DEF IInv
  <2>16. Answered' /\ ReceiptsPrecede BY <2>8, NothingConverted
  <2>17. Expects(t, Len(gh.sent))' /\ ShowsTheCurrent BY <2>1, NothingShown
  <2> QED BY <2>11, <2>12, <2>13, <2>15, <2>16, <2>17 DEF IInv, Good
<1>3. CASE ~(sh.shutdown /\ Exit) /\ ~(sh.lane # <<>> /\ ~sh.shutdown)
  <2>1. w.pc = "wait" /\ w' = [w EXCEPT !.pc = "due"] /\ UNCHANGED <<sh, eng, gh>>
    BY <1>3 DEF Wait
  <2>2. w' \in WorkerType BY <2>1, Types DEF WorkerType
  <2>3. /\ w'.pc = "due" /\ w'.cfg = w.cfg /\ w'.snap = w.snap
        /\ w'.selected = w.selected /\ w'.cur = w.cur
    BY <2>1, Types DEF WorkerType
  <2>4. TypeOK' BY <2>1, <2>2 DEF IInv, TypeOK
  <2>5. Wakeups' BY <2>1, <2>3 DEF IInv, Wakeups, NoLostWakeup
  <2>6. Connected' BY <2>1, <2>3 DEF IInv, Connected
  <2>7. AllSince BY <2>1, <2>3, Rest DEF AllSince
  <2>8. Receipts' BY <2>1, <2>7, SameConnection DEF IInv
  <2>9. Answered' /\ ReceiptsPrecede BY <2>1, NothingConverted
  <2>10. Expects(t, Len(gh.sent))' /\ ShowsTheCurrent BY <2>1, NothingShown
  <2> QED BY <2>4, <2>5, <2>6, <2>8, <2>9, <2>10 DEF IInv, Good
<1> QED BY <1>1, <1>2, <1>3

(* The stream breaks: a new connection identity, nothing configured on it. *)
LEMMA BrokenKeeps ==
  ASSUME IInv, NEW kind \in {"invalidated", "mismatch"}, NEW c \in Nat, NEW again \in BOOLEAN,
         NEW r \in BOOLEAN, NEW q, q = sh.receipts \/ q = <<>>,
         sh' = [Invalidate(sh, kind, c) EXCEPT !.receipts = q],
         w' = [Broken(again) EXCEPT !.retry = r], Failed, UNCHANGED <<t, enh, gh>>
  PROVE  Good
<1>1. PICK n \in Nat : n = sh.epoch + 1 BY Types
<1>a. q \in Seq(Receipt)
  <2>1. CASE q = sh.receipts BY <2>1, Types
  <2>2. CASE q = <<>>
    <3>1. <<>> \in Seq(Receipt) OBVIOUS
    <3> QED BY <2>2, <3>1
  <2> QED BY <2>1, <2>2
<1>2. sh.statuses \in Seq(Status) BY Types DEF SharedType
<1>3. [kind |-> kind, cfg |-> c, conn |-> n] \in Status BY DEF Status
<1>4. PICK s \in Seq(Status) :
        s = ForcePush(sh.statuses, [kind |-> kind, cfg |-> c, conn |-> n])
  BY <1>2, <1>3, PushedStatuses
<1>5. Invalidate(sh, kind, c) = [sh EXCEPT !.epoch = n, !.statuses = s]
  BY <1>1, <1>4, Types DEF Invalidate, SharedType
<1>6. PICK i : i = Invalidate(sh, kind, c) OBVIOUS
<1>7. i \in SharedType BY <1>4, <1>5, <1>6, Types DEF SharedType
<1>8. /\ i.epoch = n /\ i.pending = sh.pending /\ i.result = sh.result
      /\ i.enhanced = sh.enhanced /\ i.lane = sh.lane /\ i.notified = sh.notified
  BY <1>5, <1>6, Types DEF SharedType
<1>9. sh' \in SharedType BY <1>a, <1>6, <1>7 DEF SharedType
<1>10. /\ sh'.epoch = sh.epoch + 1 /\ sh'.pending = sh.pending /\ sh'.receipts = q
       /\ sh'.result = sh.result /\ sh'.enhanced = sh.enhanced
       /\ sh'.lane = sh.lane /\ sh'.notified = sh.notified
  BY <1>1, <1>6, <1>7, <1>8 DEF SharedType
<1>11. PICK b : b = Broken(again) OBVIOUS
<1>12. b \in WorkerType BY <1>11, Types DEF Broken, WorkerType
<1>b. /\ b.pc = "top" /\ b.cfg = 0 /\ b.cur = None
      /\ b.snap = w.snap /\ b.selected = w.selected
  BY <1>11, Types DEF Broken, WorkerType
<1>c. w' \in WorkerType BY <1>11, <1>12 DEF WorkerType
<1>13. /\ w'.pc = "top" /\ w'.cfg = 0 /\ w'.cur = None
       /\ w'.snap = w.snap /\ w'.selected = w.selected
  BY <1>11, <1>12, <1>b DEF WorkerType
<1>14. eng' \in EngineType
  <2>1. eng.faults \in Nat /\ eng.conn \in {"none", "up", "lost"} BY Types DEF EngineType
  <2>2. PICK f \in Nat : f = IF Reachable THEN eng.faults - 1 ELSE eng.faults
    BY <2>1 DEF Failed, Reachable
  <2>3. eng' = [eng EXCEPT !.conn = "none", !.faults = f] BY <2>2 DEF Failed
  <2> QED BY <2>3, Types DEF EngineType
<1>15. TypeOK' BY <1>9, <1>c, <1>14 DEF IInv, TypeOK
<1>16. Wakeups' BY <1>10, <1>13 DEF IInv, Wakeups, NoLostWakeup
<1>17. Connected' BY <1>13 DEF Connected
<1>18. AllSince BY <1>10, <1>13, Rest DEF AllSince
<1>19. Receipts' BY <1>10, <1>18, NewConnection
<1>20. Answered' /\ ReceiptsPrecede BY <1>10, NothingConverted
<1>21. Expects(t, Len(gh.sent))' /\ ShowsTheCurrent BY NothingShown
<1> QED BY <1>15, <1>16, <1>17, <1>19, <1>20, <1>21 DEF IInv, Good

(* The same, as the failing requests of the worker write it.               *)
LEMMA BreaksKeep ==
  ASSUME IInv, NEW c \in Nat, NEW again \in BOOLEAN, sh' = Invalidate(sh, "invalidated", c),
         w' = Broken(again), Failed, UNCHANGED <<t, enh, gh>>
  PROVE  Good
<1>1. PICK i : i = Invalidate(sh, "invalidated", c) OBVIOUS
<1>2. i = [sh EXCEPT !.epoch = @ + 1, !.statuses = i.statuses] /\ i.receipts = sh.receipts
  BY <1>1, Types DEF Invalidate, SharedType
<1>3. i = [i EXCEPT !.receipts = sh.receipts] BY <1>2, Types DEF SharedType
<1>4. Broken(again) = [Broken(again) EXCEPT !.retry = TRUE] BY Types DEF Broken, WorkerType
<1> QED BY <1>1, <1>3, <1>4, BrokenKeeps

LEMMA ReplayIs ==
  ASSUME IInv
  PROVE  Replay \in {None} \cup Snap /\ Since(Replay)
<1> DEFINE bind(s) == Rebound(s, w.latest, sh.epoch)
<1>1. ASSUME NEW s \in {None} \cup Snap, Since(s)
      PROVE  bind(s) \in {None} \cup Snap /\ Since(bind(s))
  <2>1. w.latest \in Nat /\ sh.epoch \in Nat BY Types
  <2>2. /\ bind(s) \in {None} \cup Snap
        /\ bind(s) # None => s # None /\ bind(s).after = s.after
    BY <2>1, ReboundIsOlder
  <2> HIDE DEF bind
  <2> QED BY <1>1, <2>2 DEF Since
<1>2. /\ sh.pending \in {None} \cup Snap /\ w.snap \in {None} \cup Snap
      /\ w.selected \in {None} \cup Snap
  BY Types DEF SharedType, WorkerType
<1>3. Replay \in {bind(sh.pending), bind(w.selected), bind(w.snap), None} BY DEF Replay
<1> HIDE DEF bind
<1> QED BY <1>1, <1>2, <1>3, Rest

LEMMA ConfigureKeeps == ASSUME IInv, Configure, UNCHANGED <<t, enh>> PROVE Good
<1>1. CASE w' = [w EXCEPT !.retry = FALSE, !.pc = "top"] /\ UNCHANGED <<sh, eng, gh>>
  <2>1. w' \in WorkerType BY <1>1, Types DEF WorkerType
  <2>2. /\ w'.pc = "top" /\ w'.cfg = w.cfg /\ w'.snap = w.snap
        /\ w'.selected = w.selected /\ w'.cur = w.cur
    BY <1>1, Types DEF WorkerType
  <2>3. TypeOK' BY <1>1, <2>1 DEF IInv, TypeOK
  <2>4. Wakeups' BY <1>1, <2>2 DEF IInv, Wakeups, NoLostWakeup
  <2>a. w.pc # "exit" BY DEF Configure
  <2>5. Connected' BY <1>1, <2>2, <2>a DEF IInv, Connected
  <2>6. AllSince BY <1>1, <2>2, Rest DEF AllSince
  <2>7. Receipts' BY <1>1, <2>6, SameConnection DEF IInv
  <2>8. Answered' /\ ReceiptsPrecede BY <1>1, NothingConverted
  <2>9. Expects(t, Len(gh.sent))' /\ ShowsTheCurrent BY <1>1, NothingShown
  <2> QED BY <2>3, <2>4, <2>5, <2>7, <2>8, <2>9 DEF IInv, Good
<1>2. CASE /\ ConfigureAccepted /\ UNCHANGED gh
           /\ w' = [w EXCEPT !.pc = "top", !.cfg = w.latest, !.retry = FALSE, !.probe = TRUE,
                             !.replay = FALSE, !.selected = Replay]
           /\ sh' = [sh EXCEPT !.pending = None,
                               !.statuses = ForcePush(@, [kind |-> "configured",
                                                       cfg |-> w.latest, conn |-> sh.epoch])]
  <2>1. PICK p \in {None} \cup Snap : p = Replay /\ Since(p) BY ReplayIs
  <2>2. [kind |-> "configured", cfg |-> w.latest, conn |-> sh.epoch] \in Status
    BY Types DEF Status
  <2>3. PICK s \in Seq(Status) : s = ForcePush(sh.statuses,
                [kind |-> "configured", cfg |-> w.latest, conn |-> sh.epoch])
    BY <2>2, Types, PushedStatuses DEF SharedType
  <2>4. sh' = [sh EXCEPT !.pending = None, !.statuses = s] BY <1>2, <2>3
  <2>5. w' = [w EXCEPT !.pc = "top", !.cfg = w.latest, !.retry = FALSE, !.probe = TRUE,
                       !.replay = FALSE, !.selected = p]
    BY <1>2, <2>1
  <2>6. sh' \in SharedType BY <2>3, <2>4, Types DEF SharedType
  <2>7. /\ sh'.epoch = sh.epoch /\ sh'.pending = None /\ sh'.receipts = sh.receipts
        /\ sh'.result = sh.result /\ sh'.enhanced = sh.enhanced
        /\ sh'.lane = sh.lane /\ sh'.notified = sh.notified
    BY <2>4, Types DEF SharedType
  <2>8. w' \in WorkerType BY <2>1, <2>5, Types DEF WorkerType
  <2>9. /\ w'.pc = "top" /\ w'.cfg = w.latest /\ w'.snap = w.snap
        /\ w'.selected = p /\ w'.cur = w.cur
    BY <2>5, Types DEF WorkerType
  <2>10. eng' \in EngineType /\ eng'.cfg = w.latest
    BY <1>2, Types DEF ConfigureAccepted, EngineType
  <2>11. TypeOK' BY <1>2, <2>6, <2>8, <2>10 DEF IInv, TypeOK
  <2>12. Wakeups' BY <2>7, <2>9 DEF IInv, Wakeups, NoLostWakeup
  <2>13. Connected' BY <2>9, <2>10 DEF Connected
  <2>14. AllSince BY <2>1, <2>7, <2>9, Rest DEF AllSince
  <2>15. Receipts' BY <1>2, <2>7, <2>14, SameConnection DEF IInv
  <2>16. Answered' /\ ReceiptsPrecede BY <2>7, NothingConverted
  <2>17. Expects(t, Len(gh.sent))' /\ ShowsTheCurrent BY <1>2, NothingShown
  <2> QED BY <2>11, <2>12, <2>13, <2>15, <2>16, <2>17 DEF IInv, Good
<1>3. CASE /\ Failed /\ UNCHANGED gh
           /\ sh' = Invalidate(sh, "invalidated", w.latest) /\ w' = Broken(w.replay)
  <2>1. w.replay \in BOOLEAN /\ w.latest \in Nat BY Types DEF WorkerType
  <2> QED BY <1>3, <2>1, BreaksKeep
<1>4. CASE /\ Failed /\ UNCHANGED gh /\ sh' = Invalidate(sh, "mismatch", w.latest)
           /\ w' = [Broken(w.replay) EXCEPT !.retry = FALSE]
  <2>1. w.replay \in BOOLEAN /\ w.latest \in Nat BY Types DEF WorkerType
  <2>2. PICK i : i = Invalidate(sh, "mismatch", w.latest) OBVIOUS
  <2>3. i = [sh EXCEPT !.epoch = @ + 1, !.statuses = i.statuses] /\ i.receipts = sh.receipts
    BY <2>2, Types DEF Invalidate, SharedType
  <2>4. i = [i EXCEPT !.receipts = sh.receipts] BY <2>3, Types DEF SharedType
  <2> QED BY <1>4, <2>1, <2>2, <2>4, BrokenKeeps
<1> QED BY <1>1, <1>2, <1>3, <1>4 DEF Configure

LEMMA ProbeKeeps == ASSUME IInv, Probe, UNCHANGED <<t, enh>> PROVE Good
<1>1. CASE w' = [w EXCEPT !.pc = "top"] /\ UNCHANGED <<sh, eng, gh>>
  <2>1. w' \in WorkerType BY <1>1, Types DEF WorkerType
  <2>2. /\ w'.pc = "top" /\ w'.cfg = w.cfg /\ w'.snap = w.snap
        /\ w'.selected = w.selected /\ w'.cur = w.cur
    BY <1>1, Types DEF WorkerType
  <2>3. TypeOK' BY <1>1, <2>1 DEF IInv, TypeOK
  <2>4. Wakeups' BY <1>1, <2>2 DEF IInv, Wakeups, NoLostWakeup
  <2>a. w.pc # "exit" BY DEF Probe
  <2>5. Connected' BY <1>1, <2>2, <2>a DEF IInv, Connected
  <2>6. AllSince BY <1>1, <2>2, Rest DEF AllSince
  <2>7. Receipts' BY <1>1, <2>6, SameConnection DEF IInv
  <2>8. Answered' /\ ReceiptsPrecede BY <1>1, NothingConverted
  <2>9. Expects(t, Len(gh.sent))' /\ ShowsTheCurrent BY <1>1, NothingShown
  <2> QED BY <2>3, <2>4, <2>5, <2>7, <2>8, <2>9 DEF IInv, Good
<1>2. CASE /\ Failed /\ UNCHANGED gh
           /\ sh' = Invalidate(sh, "invalidated", w.cfg) /\ w' = Broken(w.snap # None)
  BY <1>2, Types, BreaksKeep
<1> QED BY <1>1, <1>2 DEF Probe

LEMMA WorkKeeps == ASSUME IInv, Work, UNCHANGED <<t, enh>> PROVE Good
<1>1. CASE sh.shutdown /\ Exit BY <1>1, ExitKeeps
<1>2. CASE ~(sh.shutdown /\ Exit)
  <2> DEFINE next == CASE Adopted.cfg = 0 -> "top"
                       [] Adopted.cfg # 0 /\ sh.receipts # <<>> -> "drain"
                       [] Adopted.cfg # 0 /\ sh.receipts = <<>> -> "take"
  <2>1. /\ w.pc = "work" /\ sh' = SlotTaken /\ UNCHANGED <<eng, gh>>
        /\ w' = [Adopted EXCEPT !.pc = next]
    BY <1>2 DEF Work
  <2>2. next \in {"top", "drain", "take"} /\ (next # "top" => Adopted.cfg # 0) OBVIOUS
  <2> HIDE DEF next
  <2>3. w' \in WorkerType BY <2>1, <2>2, AdoptedIs DEF WorkerType
  <2>4. /\ w'.pc = next /\ w'.cfg = Adopted.cfg /\ w'.snap = w.snap
        /\ w'.selected = w.selected /\ w'.cur = w.cur
    BY <2>1, AdoptedIs DEF WorkerType
  <2>5. /\ sh' \in SharedType /\ sh'.lane = sh.lane /\ sh'.notified = sh.notified
        /\ sh'.pending = sh.pending /\ sh'.result = sh.result /\ sh'.enhanced = sh.enhanced
        /\ sh'.receipts = sh.receipts /\ sh'.epoch = sh.epoch
    BY <2>1, SlotTakenIs
  <2>6. TypeOK' BY <2>1, <2>3, <2>5 DEF IInv, TypeOK
  <2>7. Wakeups' BY <2>2, <2>4, <2>5 DEF IInv, Wakeups, NoLostWakeup
  <2>8. Connected'
    <3>1. w'.cfg # 0 => w'.cfg = w.cfg BY <2>4, AdoptedIs
    <3> QED BY <2>1, <2>2, <2>4, <3>1 DEF IInv, Connected
  <2>9. AllSince BY <2>4, <2>5, Rest DEF AllSince
  <2>10. Receipts' BY <2>1, <2>5, <2>9, SameConnection DEF IInv
  <2>11. Answered' /\ ReceiptsPrecede BY <2>5, NothingConverted
  <2>12. Expects(t, Len(gh.sent))' /\ ShowsTheCurrent BY <2>1, NothingShown
  <2> QED BY <2>6, <2>7, <2>8, <2>10, <2>11, <2>12 DEF IInv, Good
<1> QED BY <1>1, <1>2

(* The head of the receipts leaves, skipped or applied.                    *)
LEMMA ReceiptLeaves ==
  ASSUME IInv, sh.receipts # <<>>, sh' = [sh EXCEPT !.receipts = Tail(@)],
         UNCHANGED <<t, w, enh>>, gh' \in HistoryType, gh'.sent = gh.sent,
         eng' \in EngineType, eng'.cfg = eng.cfg, eng.conn = "lost" => eng'.conn = "lost",
         \/ gh'.applied = gh.applied /\ Head(sh.receipts).conn # sh.epoch
         \/ gh'.applied = gh.applied \cup {Head(sh.receipts).n}
  PROVE  Good
<1>1. sh.receipts \in Seq(Receipt) BY Types
<1>a. Tail(sh.receipts) \in Seq(Receipt) BY <1>1
<1>2. PICK q \in Seq(Receipt) : q = Tail(sh.receipts) BY <1>a
<1>3. sh' = [sh EXCEPT !.receipts = q] BY <1>2
<1>4. sh' \in SharedType BY <1>3, Types DEF SharedType
<1>5. /\ sh'.epoch = sh.epoch /\ sh'.pending = sh.pending /\ sh'.receipts = q
      /\ sh'.result = sh.result /\ sh'.enhanced = sh.enhanced
      /\ sh'.lane = sh.lane /\ sh'.notified = sh.notified /\ sh'.desired = sh.desired
  BY <1>3, Types DEF SharedType
<1>6. TypeOK' BY <1>4 DEF IInv, TypeOK
<1>7. Wakeups' BY <1>5 DEF IInv, Wakeups, NoLostWakeup
<1>8. Connected' BY <1>5 DEF IInv, Connected
<1>9. Receipts'
  <2>1. /\ \A n \in DOMAIN gh.sent : gh.sent[n] <= sh.epoch
        /\ \A n \in DOMAIN gh.sent : gh.sent[n] = sh.epoch =>
             n \in gh.applied \/ \E i \in DOMAIN sh.receipts : sh.receipts[i].n = n
        /\ \A i \in DOMAIN sh.receipts : sh.receipts[i].n \in DOMAIN gh.sent
             /\ sh.receipts[i].conn = gh.sent[sh.receipts[i].n]
    BY DEF IInv, Receipts
  <2>2. /\ 1 \in DOMAIN sh.receipts /\ Head(sh.receipts) = sh.receipts[1]
        /\ \A i \in DOMAIN q : i + 1 \in DOMAIN sh.receipts /\ q[i] = sh.receipts[i + 1]
        /\ \A i \in DOMAIN sh.receipts : i # 1 =>
              i - 1 \in DOMAIN q /\ q[i - 1] = sh.receipts[i]
    BY <1>1, <1>2
  <2>3. ASSUME NEW n \in DOMAIN gh.sent, gh.sent[n] = sh.epoch
        PROVE  n \in gh'.applied \/ \E i \in DOMAIN q : q[i].n = n
    <3>1. CASE n \in gh.applied BY <3>1
    <3>2. ASSUME NEW i \in DOMAIN sh.receipts, sh.receipts[i].n = n
          PROVE  n \in gh'.applied \/ \E j \in DOMAIN q : q[j].n = n
      <4>1. CASE i = 1
        <5>1. Head(sh.receipts).n = n BY <2>2, <3>2, <4>1
        <5>2. Head(sh.receipts).conn = sh.epoch BY <2>1, <2>2, <2>3, <5>1
        <5> QED BY <5>1, <5>2
      <4>2. CASE i # 1 BY <2>2, <3>2, <4>2
      <4> QED BY <4>1, <4>2
    <3> QED BY <2>1, <2>3, <3>1, <3>2
  <2>4. (\A n \in DOMAIN gh.sent : gh.sent[n] <= sh.epoch)' BY <1>5, <2>1
  <2>5. (\A n \in DOMAIN gh.sent : gh.sent[n] = sh.epoch =>
             n \in gh.applied \/ \E i \in DOMAIN sh.receipts : sh.receipts[i].n = n)'
    BY <1>5, <2>3, ZenonT(60)
  <2>6. (\A i \in DOMAIN sh.receipts : sh.receipts[i].n \in DOMAIN gh.sent
             /\ sh.receipts[i].conn = gh.sent[sh.receipts[i].n])'
    BY <1>5, <2>1, <2>2
  <2>7. Since(sh.pending)' /\ Since(w.snap)' /\ Since(w.selected)' /\ Since(w.cur)'
    BY <1>5, Rest DEF Since
  <2> QED BY <2>4, <2>5, <2>6, <2>7 DEF Receipts
<1>10. Answered' /\ ReceiptsPrecede BY <1>5, NothingConverted
<1>11. Expects(t, Len(gh.sent))' /\ ShowsTheCurrent BY NothingShown
<1> QED BY <1>6, <1>7, <1>8, <1>9, <1>10, <1>11 DEF IInv, Good

LEMMA ReachedIs ==
  ASSUME IInv, Reachable, Reached
  PROVE  eng' \in EngineType /\ eng'.cfg = eng.cfg /\ eng.conn # "lost"
  BY Types DEF Reachable, Reached, EngineType

LEMMA DrainKeeps == ASSUME IInv, Drain, UNCHANGED <<t, enh>> PROVE Good
<1> DEFINE r == Head(sh.receipts)
<1>1. sh.receipts # <<>> /\ sh.receipts \in Seq(Receipt) BY Types DEF Drain
<1>2. r \in Receipt BY <1>1
<1>3. CASE /\ r.conn # sh.epoch
           /\ sh' = [sh EXCEPT !.receipts = Tail(@)] /\ UNCHANGED <<w, eng, gh>>
  <2>1. gh' \in HistoryType /\ gh'.sent = gh.sent /\ gh'.applied = gh.applied
    BY <1>3, Types
  <2>2. eng' \in EngineType /\ eng'.cfg = eng.cfg /\ (eng.conn = "lost" => eng'.conn = "lost")
    BY <1>3, Types
  <2> QED BY <1>1, <1>3, <2>1, <2>2, ReceiptLeaves
<1>4. CASE /\ Reachable /\ Reached /\ sh' = [sh EXCEPT !.receipts = Tail(@)]
           /\ gh' = [gh EXCEPT !.applied = @ \union {r.n}] /\ UNCHANGED w
  <2>1. r.n \in Nat BY <1>2 DEF Receipt
  <2>2. gh' \in HistoryType /\ gh'.sent = gh.sent /\ gh'.applied = gh.applied \cup {r.n}
    BY <1>4, <2>1, Types DEF HistoryType
  <2>3. eng' \in EngineType /\ eng'.cfg = eng.cfg /\ eng.conn # "lost" BY <1>4, ReachedIs
  <2> QED BY <1>1, <1>4, <2>2, <2>3, ReceiptLeaves
<1>5. CASE /\ Failed /\ UNCHANGED gh
           /\ sh' = [Invalidate(sh, "invalidated", w.cfg) EXCEPT !.receipts = <<>>]
           /\ w' = Broken(w.snap # None)
  <2>1. Broken(w.snap # None) = [Broken(w.snap # None) EXCEPT !.retry = TRUE]
    BY Types DEF Broken, WorkerType
  <2> QED BY <1>5, <2>1, Types, BrokenKeeps
<1> QED BY <1>3, <1>4, <1>5 DEF Drain

LEMMA DrainEndsKeeps == ASSUME IInv, DrainEnds, UNCHANGED <<t, enh>> PROVE Good
<1>1. w.pc = "drain" /\ w' = [w EXCEPT !.pc = "take"] /\ UNCHANGED <<sh, eng, gh>>
  BY DEF DrainEnds
<1>2. w' \in WorkerType BY <1>1, Types DEF WorkerType
<1>3. /\ w'.pc = "take" /\ w'.cfg = w.cfg /\ w'.snap = w.snap
      /\ w'.selected = w.selected /\ w'.cur = w.cur
  BY <1>1, Types DEF WorkerType
<1>4. TypeOK' BY <1>1, <1>2 DEF IInv, TypeOK
<1>5. Wakeups' BY <1>1, <1>3 DEF IInv, Wakeups, NoLostWakeup
<1>6. Connected' BY <1>1, <1>3 DEF IInv, Connected
<1>7. AllSince BY <1>1, <1>3, Rest DEF AllSince
<1>8. Receipts' BY <1>1, <1>7, SameConnection DEF IInv
<1>9. Answered' /\ ReceiptsPrecede BY <1>1, NothingConverted
<1>10. Expects(t, Len(gh.sent))' /\ ShowsTheCurrent BY <1>1, NothingShown
<1> QED BY <1>4, <1>5, <1>6, <1>8, <1>9, <1>10 DEF IInv, Good

LEMMA TakeKeeps == ASSUME IInv, TakeSnapshot, UNCHANGED <<t, enh>> PROVE Good
<1>1. PICK s : s = IF w.selected # None THEN w.selected ELSE sh.pending OBVIOUS
<1>2. PICK good \in BOOLEAN : good = (s # None /\ s.cfg = w.cfg /\ s.conn = sh.epoch) OBVIOUS
<1>3. PICK p : p = IF w.selected # None THEN sh.pending ELSE None OBVIOUS
<1>4. /\ w.pc = "take" /\ UNCHANGED <<eng, gh>>
      /\ w' = [w EXCEPT !.selected = None, !.cur = IF good THEN s ELSE None,
                        !.snap = IF good THEN s ELSE @,
                        !.pc = IF good THEN "drained" ELSE "top"]
      /\ sh' = [sh EXCEPT !.pending = p]
  BY <1>1, <1>2, <1>3, Types DEF TakeSnapshot, SharedType
<1>5. s \in {None} \cup Snap /\ p \in {None} \cup Snap
  <2>1. w.selected \in {None} \cup Snap /\ sh.pending \in {None} \cup Snap
    BY Types DEF WorkerType, SharedType
  <2> QED BY <1>1, <1>3, <2>1
<1>6. Since(s) /\ Since(p) BY <1>1, <1>3, Rest
<1>7. w' \in WorkerType BY <1>4, <1>5, Types DEF WorkerType
<1>8. /\ w'.pc = (IF good THEN "drained" ELSE "top") /\ w'.cfg = w.cfg
      /\ w'.snap = (IF good THEN s ELSE w.snap) /\ w'.selected = None
      /\ w'.cur = (IF good THEN s ELSE None)
  BY <1>4, Types DEF WorkerType
<1>9. sh' \in SharedType BY <1>4, <1>5, Types DEF SharedType
<1>10. /\ sh'.epoch = sh.epoch /\ sh'.pending = p /\ sh'.receipts = sh.receipts
       /\ sh'.result = sh.result /\ sh'.enhanced = sh.enhanced
       /\ sh'.lane = sh.lane /\ sh'.notified = sh.notified
  BY <1>4, Types DEF SharedType
<1>11. TypeOK' BY <1>4, <1>7, <1>9 DEF IInv, TypeOK
<1>12. Wakeups' BY <1>8, <1>10 DEF IInv, Wakeups, NoLostWakeup
<1>13. Connected'
  <2>1. w.cfg # 0 /\ (eng.cfg = w.cfg \/ eng.conn = "lost")
    BY <1>4 DEF IInv, Connected
  <2>2. good => s # None /\ s.cfg = w.cfg /\ s.conn = sh.epoch BY <1>2
  <2>3. CASE good BY <1>4, <1>8, <1>10, <2>1, <2>2, <2>3 DEF Connected
  <2>4. CASE ~good BY <1>4, <1>8, <1>10, <2>1, <2>4 DEF Connected
  <2> QED BY <2>3, <2>4
<1>14. AllSince BY <1>6, <1>8, <1>10, Rest DEF AllSince
<1>15. Receipts' BY <1>4, <1>10, <1>14, SameConnection DEF IInv
<1>16. Answered' /\ ReceiptsPrecede BY <1>10, NothingConverted
<1>17. Expects(t, Len(gh.sent))' /\ ShowsTheCurrent BY <1>4, NothingShown
<1> QED BY <1>11, <1>12, <1>13, <1>15, <1>16, <1>17 DEF IInv, Good

LEMMA ConvertKeeps == ASSUME IInv, Convert, UNCHANGED t PROVE Good
<1>1. w.pc = "drained" /\ sh.receipts = <<>> /\ UNCHANGED gh BY DEF Convert
<1>2. /\ w.cur \in Snap /\ w.cur.cfg = w.cfg /\ w.cur.conn = sh.epoch
      /\ w.cfg # 0 /\ (eng.cfg = w.cfg \/ eng.conn = "lost")
  BY <1>1, Types DEF IInv, Connected, WorkerType
<1>3. CASE /\ Failed /\ sh' = Invalidate(sh, "invalidated", w.cfg) /\ w' = Broken(TRUE)
           /\ UNCHANGED enh
  BY <1>1, <1>3, Types, BreaksKeep
<1>4. CASE /\ Reachable /\ Reached
           /\ \E auto \in {FALSE} \union {w.cur.purpose = Live} : enh' = Converted(auto)
           /\ sh' = [sh EXCEPT !.result = enh']
           /\ w' = [w EXCEPT !.pc = "top", !.cur = None]
  <2>1. PICK auto \in BOOLEAN : enh' = Converted(auto) BY <1>4
  <2>2. PICK r \in Result : /\ r = enh' /\ r.under = eng.cfg /\ r.cfg = w.cur.cfg
                            /\ r.after = w.cur.after
    BY <1>2, <2>1, Types, ConvertedIs
  <2>3. eng' \in EngineType /\ eng'.cfg = eng.cfg /\ eng.conn # "lost" BY <1>4, ReachedIs
  <2>4. AnswersUnder(r) BY <1>2, <2>2, <2>3 DEF AnswersUnder
  <2>5. sh' = [sh EXCEPT !.result = r] BY <1>4, <2>2
  <2>6. sh' \in SharedType BY <2>5, Types DEF SharedType
  <2>7. /\ sh'.epoch = sh.epoch /\ sh'.pending = sh.pending /\ sh'.receipts = sh.receipts
        /\ sh'.result = r /\ sh'.enhanced = sh.enhanced
        /\ sh'.lane = sh.lane /\ sh'.notified = sh.notified
    BY <2>5, Types DEF SharedType
  <2>8. w' \in WorkerType BY <1>4, Types DEF WorkerType
  <2>9. /\ w'.pc = "top" /\ w'.cfg = w.cfg /\ w'.cur = None
        /\ w'.snap = w.snap /\ w'.selected = w.selected
    BY <1>4, Types DEF WorkerType
  <2>10. TypeOK' BY <1>1, <2>2, <2>3, <2>6, <2>8 DEF IInv, TypeOK
  <2>11. Wakeups' BY <2>7, <2>9 DEF IInv, Wakeups, NoLostWakeup
  <2>12. Connected' BY <1>2, <2>3, <2>9 DEF Connected
  <2>13. Answered' BY <2>2, <2>4, <2>7 DEF IInv, Answered, AnswersUnder
  <2>14. AllSince BY <2>7, <2>9, Rest DEF AllSince
  <2>15. Receipts' BY <1>1, <2>7, <2>14, SameConnection DEF IInv
  <2>16. ReceiptsPrecede
    <3>1. ASSUME NEW n \in 1..r.after, gh.sent[n] = sh.epoch PROVE n \in gh.applied
      <4>1. r.after \in Nat /\ r.after <= Len(gh.sent)
        BY <1>2, <2>2, NothingIsNoSnapshot, Rest DEF Since, Snap
      <4>2. n \in DOMAIN gh.sent BY <3>1, <4>1, Types
      <4> QED BY <1>1, <3>1, <4>2 DEF IInv, Receipts
    <3> QED BY <2>7, <3>1 DEF ReceiptsPrecede
  <2>17. Expects(t, Len(gh.sent))' /\ ShowsTheCurrent BY <1>1, NothingShown
  <2> QED BY <2>10, <2>11, <2>12, <2>13, <2>15, <2>16, <2>17 DEF IInv, Good
<1> QED BY <1>3, <1>4 DEF Convert

-----------------------------------------------------------------------------
(* Steps of the enhancement worker and of the engine process.              *)

LEMMA EnhanceKeeps == ASSUME IInv, Enhance PROVE Good
<1>1. /\ enh # None /\ enh' = None /\ sh' = [sh EXCEPT !.enhanced = Enhancement(enh)]
      /\ UNCHANGED <<t, w, eng, gh>>
  BY DEF Enhance
<1>2. enh \in Result /\ AnswersUnder(enh) BY <1>1 DEF IInv, TypeOK, Answered
<1>3. PICK r : r = Enhancement(enh) OBVIOUS
<1>4. r \in Result BY <1>2, <1>3 DEF Enhancement, Result
<1>5. r.under = r.cfg BY <1>1, <1>2, <1>3 DEF Enhancement, Result, AnswersUnder
<1>6. sh' \in SharedType BY <1>1, <1>3, <1>4, Types DEF SharedType
<1>7. /\ sh'.epoch = sh.epoch /\ sh'.pending = sh.pending /\ sh'.receipts = sh.receipts
      /\ sh'.result = sh.result /\ sh'.enhanced = r /\ sh'.desired = sh.desired
      /\ sh'.lane = sh.lane /\ sh'.notified = sh.notified
  BY <1>1, <1>3, Types DEF SharedType
<1>8. TypeOK' BY <1>1, <1>6 DEF IInv, TypeOK
<1>9. Wakeups' BY <1>1, <1>7 DEF IInv, Wakeups, NoLostWakeup
<1>10. Connected' BY <1>1, <1>7, StaysConnected DEF IInv
<1>11. Answered' BY <1>1, <1>5, <1>7 DEF IInv, Answered, AnswersUnder
<1>12. AllSince BY <1>1, <1>7, Rest DEF AllSince
<1>13. Receipts' BY <1>1, <1>7, <1>12, SameConnection DEF IInv
<1>14. ReceiptsPrecede BY <1>7 DEF ReceiptsPrecede
<1>15. Expects(t, Len(gh.sent))' /\ ShowsTheCurrent BY <1>1, NothingShown
<1> QED BY <1>8, <1>9, <1>10, <1>11, <1>13, <1>14, <1>15 DEF IInv, Good

LEMMA RestartKeeps == ASSUME IInv, EngineRestart PROVE Good
<1>1. /\ enh' = None /\ UNCHANGED <<t, sh, w, gh>> /\ eng.faults > 0
      /\ eng' = [eng EXCEPT !.faults = @ - 1, !.conn = "lost", !.cfg = 0]
  BY DEF EngineRestart
<1>a. PICK n \in Nat : n = eng.faults - 1 BY <1>1, Types DEF EngineType
<1>2. eng' \in EngineType /\ eng'.conn = "lost" BY <1>1, <1>a, Types DEF EngineType
<1>3. TypeOK' BY <1>1, <1>2 DEF IInv, TypeOK
<1>4. Wakeups' BY <1>1 DEF IInv, Wakeups, NoLostWakeup
<1>5. Connected' BY <1>1, <1>2 DEF IInv, Connected
<1>6. Answered' BY <1>1 DEF IInv, Answered, AnswersUnder
<1>7. AllSince BY <1>1, Rest DEF AllSince
<1>8. Receipts' BY <1>1, <1>7, SameConnection DEF IInv
<1>9. ReceiptsPrecede BY <1>1 DEF ReceiptsPrecede
<1>10. Expects(t, Len(gh.sent))' /\ ShowsTheCurrent BY <1>1, NothingShown
<1> QED BY <1>3, <1>4, <1>5, <1>6, <1>8, <1>9, <1>10 DEF IInv, Good

-----------------------------------------------------------------------------
(* The theorems.                                                           *)

LEMMA Steps == IInv /\ Next => Good
<1> SUFFICES ASSUME IInv, Next PROVE Good OBVIOUS
<1>1. CASE Key \/ Finish BY <1>1, AnyKeyKeeps
<1>2. CASE ChangeConfiguration BY <1>2, ChangeKeeps
<1>3. CASE Debounce BY <1>3, DebounceKeeps
<1>4. CASE Space BY <1>4, SpaceKeeps
<1>5. CASE CancelExplicit BY <1>5, CancelKeeps
<1>6. CASE Push BY <1>6, PushKeeps
<1>7. CASE PollStatus BY <1>7, PollStatusKeeps
<1>8. CASE PollResult BY <1>8, PollResultKeeps
<1>9. CASE \E p \in BOOLEAN : EndPoll(p) BY <1>9, EndPollKeeps
<1>10. CASE Deactivate BY <1>10, DeactivateKeeps
<1>11. CASE Worker
  <2>1. CASE Convert BY <1>11, <2>1, ConvertKeeps DEF Worker
  <2>2. CASE Top /\ UNCHANGED enh BY <1>11, <2>2, TopKeeps DEF Worker
  <2>3. CASE Configure /\ UNCHANGED enh BY <1>11, <2>3, ConfigureKeeps DEF Worker
  <2>4. CASE Probe /\ UNCHANGED enh BY <1>11, <2>4, ProbeKeeps DEF Worker
  <2>5. CASE Wait /\ UNCHANGED enh BY <1>11, <2>5, WaitKeeps DEF Worker
  <2>6. CASE Work /\ UNCHANGED enh BY <1>11, <2>6, WorkKeeps DEF Worker
  <2>7. CASE Drain /\ UNCHANGED enh BY <1>11, <2>7, DrainKeeps DEF Worker
  <2>8. CASE DrainEnds /\ UNCHANGED enh BY <1>11, <2>8, DrainEndsKeeps DEF Worker
  <2>9. CASE TakeSnapshot /\ UNCHANGED enh BY <1>11, <2>9, TakeKeeps DEF Worker
  <2>10. CASE Stop /\ UNCHANGED enh BY <1>11, <2>10, ExitKeeps DEF Worker, Stop
  <2> QED BY <1>11, <2>1, <2>2, <2>3, <2>4, <2>5, <2>6, <2>7, <2>8, <2>9, <2>10 DEF Worker
<1>12. CASE Enhance BY <1>12, EnhanceKeeps
<1>13. CASE EngineRestart BY <1>13, RestartKeeps
<1> QED BY <1>1, <1>2, <1>3, <1>4, <1>5, <1>6, <1>7, <1>8, <1>9, <1>10, <1>11, <1>12, <1>13
        DEF Next

LEMMA Stutters == IInv /\ UNCHANGED vars => Good
<1> SUFFICES ASSUME IInv, UNCHANGED vars PROVE Good OBVIOUS
<1>1. t' = t /\ UNCHANGED <<sh, w, enh, eng, gh>> BY DEF vars
<1>2. Expects(t', Len(gh.sent)) /\ ShowsTheCurrent BY <1>1 DEF IInv, ShowsTheCurrent
<1> QED BY <1>1, <1>2, StaAlone

(* In every reachable state the parts of the invariant hold.               *)
THEOREM IInvAlways == Spec => []IInv
<1>1. Init => IInv BY Initially
<1>2. IInv /\ [Next]_vars => IInv' BY Steps, Stutters DEF Good
<1> QED BY <1>1, <1>2, PTL DEF Spec

(* run_snapshot_worker_with_retry: the worker never sleeps, its lane empty, *)
(* over a wanted configuration or a snapshot it could convert, however the *)
(* try_send of a full lane and the coalesced wakeups fall.                 *)
THEOREM WakesUp == Spec => []NoLostWakeup
<1>1. IInv => NoLostWakeup BY DEF IInv, Wakeups
<1> QED BY <1>1, IInvAlways, PTL

(* drain_auto_commit_receipts before convert: every prefix written before  *)
(* a snapshot was published is receipted before that snapshot is converted *)
(* on the same connection.                                                 *)
THEOREM ReceiptsComeFirst == Spec => ReceiptsFirst
<1>1. IInv /\ [Next]_vars => [ReceiptsPrecede]_vars BY Steps DEF Good
<1>2. IInv /\ [Next]_vars =>
        [sh'.result \notin {None, sh.result} =>
           \A n \in 1..sh'.result.after : gh.sent[n] = sh.epoch => n \in gh.applied]_vars
  BY <1>1 DEF ReceiptsPrecede
<1> QED BY <1>2, IInvAlways, PTL DEF Spec, ReceiptsFirst

(* handle_engine and snapshot_result_is_current: nothing is displayed that *)
(* does not answer the reading, configuration and connection there is, or  *)
(* that the engine computed under another configuration.                   *)
THEOREM OnlyCurrentShown == Spec => ShownIsCurrent
<1>1. IInv /\ [Next]_vars => [ShowsTheCurrent]_vars BY Steps DEF Good
<1>2. IInv /\ [Next]_vars =>
        [t'.shown \notin {None, t.shown} =>
           /\ t'.shown.rev = t.rev /\ t'.shown.cfg = t.cfg /\ t'.shown.conn = sh.epoch
           /\ t'.shown.under = t.cfg]_vars
  BY <1>1 DEF ShowsTheCurrent
<1> QED BY <1>2, IInvAlways, PTL DEF Spec, ShownIsCurrent

-----------------------------------------------------------------------------
(* The mirror of the reading.  Sequences of intents and their replay.      *)

(* The line l carries an intent of generation g of one of these kinds.     *)
Carries(l, g, K) == \E n \in DOMAIN l : l[n].gen = g /\ l[n].kind \in K

(* The course of a replay: what the text is after each of the first m intents. *)
Course(f, m, g, text, line) ==
    f = [n \in 0..m |-> IF n = 0 THEN text ELSE Followed(g, f[n - 1], line[n])]

(* A set of numbers has a least one: all the induction the replays need.   *)
LEMMA LeastNumber ==
  ASSUME NEW T, T \subseteq Nat, T # {}
  PROVE  \E m \in T : \A n \in T : m <= n
  <1>1. PICK m \in T : \A n \in T : ~(<<n, m>> \in OpToRel(<, Nat))
    BY NatLessThanWellFounded, WFMin
  <1>2. \A n \in T : ~(n < m)
    BY <1>1 DEF OpToRel
  <1>3. m \in Nat /\ \A n \in T : n \in Nat
    BY <1>1
  <1>4. \A n \in T : m <= n
    BY <1>2, <1>3
  <1> QED
    BY <1>1, <1>4

(* The recursive function of a replay exists.                              *)
LEMMA CourseExists ==
  ASSUME NEW g, NEW text, NEW line, NEW k \in Nat
  PROVE  \E f : Course(f, k, g, text, line)
  <1> DEFINE T == {m \in Nat : ~\E f : Course(f, m, g, text, line)}
  <1>1. SUFFICES ASSUME T # {} PROVE FALSE
    OBVIOUS
  <1>2. PICK m \in T : \A n \in T : m <= n
    <2>1. T \subseteq Nat /\ T # {}
      BY <1>1
    <2> HIDE DEF T
    <2> QED
      BY <2>1, LeastNumber
  <1>3. m \in Nat /\ ~\E f : Course(f, m, g, text, line)
    BY <1>2
  <1>4. CASE m = 0
    <2> DEFINE f == [n \in 0..0 |-> text]
    <2>1. f = [n \in 0..0 |-> IF n = 0 THEN text ELSE Followed(g, f[n - 1], line[n])]
      <3>1. \A n \in 0..0 : n = 0
        OBVIOUS
      <3> QED
        BY <3>1
    <2>2. Course(f, m, g, text, line)
      BY <2>1, <1>4 DEF Course
    <2> HIDE DEF f
    <2> QED
      BY <2>2, <1>3
  <1>5. CASE m # 0
    <2>1. m - 1 \in Nat /\ m - 1 \notin T
      BY <1>5, <1>3, <1>2
    <2>2. PICK h : Course(h, m - 1, g, text, line)
      BY <2>1
    <2>3. h = [n \in 0..(m-1) |-> IF n = 0 THEN text ELSE Followed(g, h[n - 1], line[n])]
      BY <2>2 DEF Course
    <2> DEFINE f == [n \in 0..m |-> IF n = m THEN Followed(g, h[m - 1], line[m]) ELSE h[n]]
    <2>4. \A n \in 0..m : f[n] = IF n = 0 THEN text ELSE Followed(g, f[n - 1], line[n])
      <3> TAKE n \in 0..m
      <3>1. CASE n = 0
        <4>1. n # m /\ n \in 0..(m-1)
          BY <3>1, <1>5, <1>3
        <4> QED
          BY <4>1, <3>1, <2>3
      <3>2. CASE n # 0 /\ n # m
        <4>1. n \in 0..(m-1) /\ n - 1 \in 0..(m-1) /\ n - 1 # m /\ n - 1 \in 0..m
          BY <3>2, <1>3
        <4>2. f[n] = h[n] /\ f[n - 1] = h[n - 1]
          BY <4>1, <3>2
        <4> HIDE DEF f
        <4> QED
          BY <4>1, <4>2, <3>2, <2>3
      <3>3. CASE n # 0 /\ n = m
        <4>1. n - 1 \in 0..m /\ n - 1 # m
          BY <3>3, <1>3
        <4>2. f[n] = Followed(g, h[m - 1], line[m]) /\ f[n - 1] = h[n - 1]
          BY <4>1, <3>3
        <4> HIDE DEF f
        <4> QED
          BY <4>2, <3>3
      <3> QED
        BY <3>1, <3>2, <3>3
    <2>5. f = [n \in 0..m |-> IF n = 0 THEN text ELSE Followed(g, f[n - 1], line[n])]
      <3>1. f = [n \in 0..m |-> f[n]]
        OBVIOUS
      <3> HIDE DEF f
      <3> QED
        BY <2>4, <3>1
    <2>6. Course(f, m, g, text, line)
      <3> HIDE DEF f
      <3> QED
        BY <2>5 DEF Course
    <2> HIDE DEF f
    <2> QED
      BY <2>6, <1>3
  <1> QED
    BY <1>4, <1>5

(* What the course of a replay is made of, step by step.                   *)
LEMMA CourseSteps ==
  ASSUME NEW f, NEW k \in Nat, NEW g, NEW text, NEW line, Course(f, k, g, text, line)
  PROVE  /\ f[0] = text
         /\ \A n \in 1..k : f[n] = Followed(g, f[n - 1], line[n])
  <1>1. f = [n \in 0..k |-> IF n = 0 THEN text ELSE Followed(g, f[n - 1], line[n])]
    BY DEF Course
  <1>2. 0 \in 0..k /\ \A n \in 1..k : n \in 0..k /\ n # 0
    OBVIOUS
  <1> QED
    BY <1>1, <1>2

LEMMA ReplayedCourse ==
  ASSUME NEW g, NEW text, NEW line, Len(line) \in Nat
  PROVE  \E f : Course(f, Len(line), g, text, line) /\ Replayed(g, text, line) = f[Len(line)]
  <1> DEFINE after == CHOOSE f : f = [n \in 0..Len(line) |->
                        IF n = 0 THEN text ELSE Followed(g, f[n - 1], line[n])]
  <1>1. \E f : f = [n \in 0..Len(line) |-> IF n = 0 THEN text ELSE Followed(g, f[n - 1], line[n])]
    <2>1. \E f : Course(f, Len(line), g, text, line)
      BY CourseExists
    <2> QED
      BY <2>1 DEF Course
  <1>2. after = [n \in 0..Len(line) |-> IF n = 0 THEN text ELSE Followed(g, after[n - 1], line[n])]
    BY <1>1
  <1>3. Replayed(g, text, line) = after[Len(line)]
    BY DEF Replayed
  <1> HIDE DEF after
  <1> QED
    BY <1>2, <1>3 DEF Course

(* From place j on, f follows the line s shifted by d.                     *)
Goes(f, s, d, j, k, g) == \A n \in (j+1)..k : f[n + d] = Followed(g, f[n + d - 1], s[n + d])
Same(s, u, d, j, k) == \A n \in (j+1)..k : s[n] = u[n + d]

(* Two courses over lines that agree from some place on keep agreeing.     *)
LEMMA CoursesAgree ==
  ASSUME NEW g, NEW f, NEW h, NEW s, NEW u, NEW j \in Nat, NEW d \in Nat, NEW k \in Nat,
         Goes(f, s, 0, j, k, g), Goes(h, u, d, j, k, g), Same(s, u, d, j, k),
         f[j] = h[j + d], j <= k
  PROVE  \A n \in j..k : f[n] = h[n + d]
  <1> DEFINE T == {n \in j..k : f[n] # h[n + d]}
  <1>1. SUFFICES ASSUME T # {} PROVE FALSE
    OBVIOUS
  <1>2. PICK m \in T : \A n \in T : m <= n
    <2>1. T \subseteq Nat /\ T # {}
      BY <1>1
    <2> HIDE DEF T
    <2> QED
      BY <2>1, LeastNumber
  <1>3. m \in j..k /\ f[m] # h[m + d] /\ m # j
    BY <1>2
  <1>4. m \in (j+1)..k /\ m - 1 \in j..k /\ (m - 1) + d = m + d - 1
    BY <1>3
  <1>5. m - 1 \notin T
    BY <1>2, <1>4
  <1>6. f[m - 1] = h[m + d - 1]
    BY <1>4, <1>5
  <1>7. f[m] = Followed(g, f[m - 1], s[m]) /\ h[m + d] = Followed(g, h[m + d - 1], u[m + d])
          /\ s[m] = u[m + d]
    <2>1. f[m + 0] = Followed(g, f[m + 0 - 1], s[m + 0]) /\ m + 0 = m
      BY <1>4 DEF Goes
    <2>2. h[m + d] = Followed(g, h[m + d - 1], u[m + d]) /\ s[m] = u[m + d]
      BY <1>4 DEF Goes, Same
    <2> QED
      BY <2>1, <2>2
  <1> QED
    BY <1>3, <1>6, <1>7

(* The same for lines that are not shifted.                                *)
LEMMA CoursesAgreeHere ==
  ASSUME NEW g, NEW f, NEW h, NEW s, NEW u, NEW j \in Nat, NEW k \in Nat,
         Goes(f, s, 0, j, k, g), Goes(h, u, 0, j, k, g), Same(s, u, 0, j, k),
         f[j] = h[j], j <= k
  PROVE  f[k] = h[k]
  <1>1. PICK d \in Nat : d = 0
    OBVIOUS
  <1>2. f[j] = h[j + d]
    BY <1>1
  <1>3. \A n \in j..k : f[n] = h[n + d]
    BY <1>1, <1>2, CoursesAgree
  <1>4. k \in j..k /\ k + d = k
    BY <1>1
  <1> QED
    BY <1>3, <1>4

LEMMA ReplayedNothing ==
  ASSUME NEW g, NEW text
  PROVE  Replayed(g, text, <<>>) = text
  <1>1. Len(<<>>) = 0 /\ Len(<<>>) \in Nat
    BY EmptySeq
  <1>2. PICK f : Course(f, 0, g, text, <<>>) /\ Replayed(g, text, <<>>) = f[0]
    BY <1>1, ReplayedCourse
  <1> QED
    BY <1>2, CourseSteps

(* One more intent at the end.                                             *)
LEMMA ReplayedAppend ==
  ASSUME NEW S, NEW s \in Seq(S), NEW i \in S, NEW g, NEW text
  PROVE  Replayed(g, text, Append(s, i)) = Followed(g, Replayed(g, text, s), i)
  <1> DEFINE u == Append(s, i)
             k == Len(s)
  <1>1. k \in Nat /\ Len(u) = k + 1 /\ u[k + 1] = i /\ \A n \in 1..k : u[n] = s[n]
    BY AppendProperties, LenProperties
  <1> HIDE DEF u
  <1>2. PICK f : Course(f, k, g, text, s) /\ Replayed(g, text, s) = f[k]
    BY <1>1, ReplayedCourse
  <1>3. PICK h : Course(h, k + 1, g, text, u) /\ Replayed(g, text, u) = h[k + 1]
    <2>1. Len(u) \in Nat
      BY <1>1
    <2> QED
      BY <2>1, <1>1, ReplayedCourse
  <1>4. /\ f[0] = text
        /\ \A n \in 1..k : f[n] = Followed(g, f[n - 1], s[n])
    <2> HIDE DEF k
    <2>1. k \in Nat
      BY <1>1
    <2>2. Course(f, k, g, text, s)
      BY <1>2
    <2> QED
      BY <2>1, <2>2, CourseSteps
  <1>5. /\ h[0] = text
        /\ \A n \in 1..(k + 1) : h[n] = Followed(g, h[n - 1], u[n])
    <2> HIDE DEF k
    <2>1. k + 1 \in Nat
      BY <1>1
    <2>2. Course(h, k + 1, g, text, u)
      BY <1>3
    <2> QED
      BY <2>1, <2>2, CourseSteps
  <1> HIDE DEF k
  <1>6. f[k] = h[k]
    <2>1. Goes(f, s, 0, 0, k, g)
      BY <1>1, <1>4 DEF Goes
    <2>2. Goes(h, u, 0, 0, k, g)
      BY <1>1, <1>5 DEF Goes
    <2>3. Same(s, u, 0, 0, k)
      BY <1>1 DEF Same
    <2>4. f[0] = h[0] /\ 0 <= k /\ 0 \in Nat /\ k \in Nat
      BY <1>1, <1>4, <1>5
    <2> QED
      BY <2>1, <2>2, <2>3, <2>4, CoursesAgreeHere
  <1>8. h[k + 1] = Followed(g, h[k], u[k + 1])
    <2>1. k + 1 \in 1..(k + 1) /\ (k + 1) - 1 = k
      BY <1>1
    <2> QED
      BY <2>1, <1>5
  <1>9. Replayed(g, text, u) = Followed(g, Replayed(g, text, s), i)
    BY <1>1, <1>2, <1>3, <1>6, <1>8
  <1> QED
    BY <1>9 DEF u

(* The first intent is followed and taken away.                            *)
LEMMA ReplayedTail ==
  ASSUME NEW S, NEW s \in Seq(S), s # <<>>, NEW g, NEW text
  PROVE  Replayed(g, text, s) = Replayed(g, Followed(g, text, s[1]), Tail(s))
  <1> DEFINE u == Tail(s)
             k == Len(u)
  <1>1. k \in Nat /\ Len(s) = k + 1 /\ \A n \in 1..k : u[n] = s[n + 1]
    BY HeadTailProperties, LenProperties
  <1> HIDE DEF u
  <1>2. PICK f : Course(f, k, g, Followed(g, text, s[1]), u)
          /\ Replayed(g, Followed(g, text, s[1]), u) = f[k]
    BY <1>1, ReplayedCourse
  <1>3. PICK h : Course(h, k + 1, g, text, s) /\ Replayed(g, text, s) = h[k + 1]
    <2>1. Len(s) \in Nat
      BY LenProperties
    <2> QED
      BY <2>1, <1>1, ReplayedCourse
  <1> HIDE DEF k
  <1>4. /\ f[0] = Followed(g, text, s[1])
        /\ \A n \in 1..k : f[n] = Followed(g, f[n - 1], u[n])
    <2>1. k \in Nat
      BY <1>1
    <2>2. Course(f, k, g, Followed(g, text, s[1]), u)
      BY <1>2
    <2> QED
      BY <2>1, <2>2, CourseSteps
  <1>5. /\ h[0] = text
        /\ \A n \in 1..(k + 1) : h[n] = Followed(g, h[n - 1], s[n])
    <2>1. k + 1 \in Nat
      BY <1>1
    <2>2. Course(h, k + 1, g, text, s)
      BY <1>3
    <2> QED
      BY <2>1, <2>2, CourseSteps
  <1>6. h[1] = Followed(g, text, s[1])
    <2>1. 1 \in 1..(k + 1) /\ 1 - 1 = 0
      BY <1>1
    <2> QED
      BY <2>1, <1>5
  <1>7. \A n \in 0..k : f[n] = h[n + 1]
    <2>1. Goes(f, u, 0, 0, k, g)
      BY <1>1, <1>4 DEF Goes
    <2>2. Goes(h, s, 1, 0, k, g)
      <3> SUFFICES ASSUME NEW n \in (0+1)..k PROVE h[n + 1] = Followed(g, h[n + 1 - 1], s[n + 1])
        BY DEF Goes
      <3>1. n + 1 \in 1..(k + 1)
        BY <1>1
      <3> QED
        BY <3>1, <1>5
    <2>3. Same(u, s, 1, 0, k)
      BY <1>1 DEF Same
    <2>4. f[0] = h[0 + 1] /\ 0 <= k /\ 0 \in Nat /\ 1 \in Nat /\ k \in Nat
      BY <1>1, <1>4, <1>6
    <2> QED
      BY <2>1, <2>2, <2>3, <2>4, CoursesAgree
  <1>8. f[k] = h[k + 1]
    BY <1>1, <1>7
  <1>9. Replayed(g, text, s) = Replayed(g, Followed(g, text, s[1]), u)
    BY <1>2, <1>3, <1>8
  <1> QED
    BY <1>9 DEF u

(* After a reseed it does not matter what the session held before.         *)
LEMMA ReseedForgets ==
  ASSUME NEW S, NEW s \in Seq(S), NEW g, NEW text, NEW other, Carries(s, g, {"reseed"})
  PROVE  Replayed(g, text, s) = Replayed(g, other, s)
  <1> DEFINE k == Len(s)
  <1>1. k \in Nat /\ DOMAIN s = 1..k
    BY LenProperties
  <1>2. PICK f : Course(f, k, g, text, s) /\ Replayed(g, text, s) = f[k]
    BY <1>1, ReplayedCourse
  <1>3. PICK h : Course(h, k, g, other, s) /\ Replayed(g, other, s) = h[k]
    BY <1>1, ReplayedCourse
  <1> HIDE DEF k
  <1>4. \A n \in 1..k : f[n] = Followed(g, f[n - 1], s[n])
    BY <1>1, <1>2, CourseSteps
  <1>5. \A n \in 1..k : h[n] = Followed(g, h[n - 1], s[n])
    BY <1>1, <1>3, CourseSteps
  <1>6. PICK j \in 1..k : Reseeds(g, s[j])
    BY <1>1 DEF Carries, Reseeds
  <1>7. f[j] = h[j]
    BY <1>4, <1>5, <1>6 DEF Followed
  <1>8. f[k] = h[k]
    <2>1. Goes(f, s, 0, j, k, g)
      BY <1>1, <1>4, <1>6 DEF Goes
    <2>2. Goes(h, s, 0, j, k, g)
      BY <1>1, <1>5, <1>6 DEF Goes
    <2>3. Same(s, s, 0, j, k)
      BY <1>1, <1>6 DEF Same
    <2>4. f[j] = h[j] /\ j <= k /\ j \in Nat /\ 0 \in Nat /\ k \in Nat
      BY <1>1, <1>6, <1>7
    <2> QED
      BY <2>1, <2>2, <2>3, <2>4, CoursesAgreeHere
  <1> QED
    BY <1>2, <1>3, <1>8

-----------------------------------------------------------------------------
(* Types of the mirror.  A call of the STA is the list of the accesses to  *)
(* the mailbox that it still makes; these are the lists there are.         *)
Kinds == {"reseed", "delta", "commit", "close"}
Held == [gen : Nat, kind : Kinds \cup {"none"}, text : Seq(Nat)]
Intents == {i \in Held : i.kind # "none" /\ (i.kind = "commit" => i.text = <<>>)}
PCs == {"top", "recv", "got", "apply", "failed", "failed_bound", "closing", "sync", "exit"}
Phases == {"dirty", "reseed_queued", "synced", "terminal"}
Todos ==
    {<<>>, <<"advance", "key">>, <<"key">>, <<"reseed">>, <<"delta">>, <<"send">>, <<"commit">>,
     <<"drop">>,
     <<"advance", "bound", "close">>, <<"bound", "close">>, <<"close">>,
     <<"advance", "bound", "close", "reseed">>, <<"bound", "close", "reseed">>, <<"close", "reseed">>,
     <<"advance", "bound", "close", "drop">>, <<"bound", "close", "drop">>, <<"close", "drop">>}

STAs == [todo : Todos, composing : BOOLEAN, reading : Seq(Nat), key : Nat, cursor : BOOLEAN,
         intent : Held, gen : Nat]
Mailboxes == [gen : Nat, phase : Phases, bound : Nat, queue : Seq(Intents), dropped : BOOLEAN]
Workers == [pc : PCs, gen : Nat, intent : Held, mismatch : BOOLEAN]
Sessions == [open : BOOLEAN, alive : BOOLEAN, text : Seq(Nat)]
Ghosts == [last : Seq(Nat), missed : BOOLEAN]

MirrorTypeOK ==
    /\ st \in STAs /\ mb \in Mailboxes /\ wk \in Workers /\ ses \in Sessions
    /\ env \in [ops : Nat, faults : Nat] /\ past \in Ghosts

(* The access the STA is about to make, and the line of intents between    *)
(* the two threads: what the worker holds, what the channel carries and    *)
(* what the STA has resolved to send.                                      *)
First(todo) == IF todo = <<>> THEN "nothing" ELSE todo[1]
Doing == First(st.todo)
Line == OnTheWay \o (IF Doing = "send" THEN <<st.intent>> ELSE <<>>)

(* Among the intents of one generation nothing follows a commit, and what  *)
(* precedes a reseed or a close is a close.                                *)
Ordered(l, g) ==
    \A i, j \in DOMAIN l :
        i < j /\ l[i].gen = g /\ l[j].gen = g =>
            /\ l[i].kind # "commit"
            /\ l[j].kind \in {"reseed", "close"} => l[i].kind = "close"

(* What the session will hold when the line is used up: the reading, or    *)
(* what was committed, without the key the STA has yet to send.            *)
Target ==
    IF mb.phase = "terminal" \/ Doing = "commit" THEN past.last
    ELSE IF Doing = "delta" THEN Front(st.reading) ELSE st.reading

(* The STA between two accesses: what it has learned from the word still   *)
(* holds, because only it can leave a phase other than reseed_queued.      *)
Calls ==
    /\ mb.gen >= 1
    /\ Doing = "send" => st.intent \in Intents
    /\ Doing \in {"bound", "close"} => st.gen <= mb.gen
    /\ Doing \in {"bound", "close", "drop"} => mb.phase = "dirty"
    /\ Doing = "key" /\ ~st.composing => mb.phase = "dirty"
    /\ Doing = "delta" =>
          /\ st.composing /\ st.reading = Append(Front(st.reading), st.key)
          /\ Front(st.reading) \in Seq(Nat)
    /\ Doing = "commit" => ~st.composing
    /\ mb.phase = "terminal" => ~st.composing
    /\ mb.dropped => st.todo = <<>> /\ mb.phase = "dirty"
    /\ mb.bound <= mb.gen

(* The worker: its session is never of a generation to come, and it closes *)
(* a session of the current one only after the commit.                     *)
Works ==
    /\ wk.gen <= mb.gen
    /\ wk.pc \in {"got", "apply", "failed", "failed_bound", "closing", "sync"} =>
          wk.intent \in Intents /\ wk.intent.gen <= mb.gen
    /\ wk.pc \in {"apply", "failed", "failed_bound", "closing", "sync"} => wk.gen = wk.intent.gen
    /\ wk.pc = "apply" => wk.intent.kind # "close"
    /\ ~ses.open => ses.text = <<>> /\ ~ses.alive
    /\ wk.pc = "failed_bound" => wk.gen < mb.gen
    /\ wk.pc = "closing" /\ wk.gen = mb.gen =>
          mb.phase = "terminal" /\ ~Carries(Line, mb.gen, {"reseed", "delta", "commit"})
    /\ wk.pc = "exit" => wk.gen = 0

(* What the line may carry in each phase of the word.  In particular, a    *)
(* reseed precedes everything else the worker will use of a generation,    *)
(* unless it has a session of it already.                                  *)
Lines ==
    /\ \A n \in DOMAIN Line : Line[n].gen <= mb.gen
    /\ Ordered(Line, mb.gen)
    /\ Carries(Line, mb.gen, {"commit"}) => mb.phase = "terminal"
    /\ mb.phase = "dirty" => ~Carries(Line, mb.gen, {"reseed", "delta", "commit"})
    /\ mb.phase # "dirty" /\ Doing # "advance" =>
          /\ Carries(Line, mb.gen, {"close"}) => Carries(Line, mb.gen, {"reseed"})
          /\ mb.phase \in Fed \/ Carries(Line, mb.gen, {"delta", "commit"}) =>
                Carries(Line, mb.gen, {"reseed"}) \/ wk.gen = mb.gen

(* The mirror: the session's text with the whole line replayed on it is    *)
(* the target, whatever access the call in progress makes next.            *)
Faithful ==
    /\ mb.phase # "dirty" /\ ~past.missed /\ Doing \notin {"advance", "reseed"}
    /\ Carries(Line, mb.gen, {"reseed"}) \/ (wk.gen = mb.gen /\ wk.pc # "failed")
    => Replayed(mb.gen, IF wk.gen = mb.gen THEN ses.text ELSE <<>>, Line) = Target

MirrorInv == MirrorTypeOK /\ Calls /\ Works /\ Lines /\ Faithful

-----------------------------------------------------------------------------
(* What the line carries after one of its ends changed.                    *)
LEMMA CarriesAppend ==
  ASSUME NEW S, NEW l \in Seq(S), NEW i \in S, NEW g
  PROVE  \A K : Carries(Append(l, i), g, K) <=> Carries(l, g, K) \/ (i.gen = g /\ i.kind \in K)
  <1> DEFINE m == Append(l, i)
  <1>1. /\ Len(l) \in Nat /\ DOMAIN l = 1..Len(l) /\ DOMAIN m = 1..(Len(l) + 1)
        /\ \A n \in 1..Len(l) : m[n] = l[n]
        /\ m[Len(l) + 1] = i
    BY LenProperties, AppendProperties
  <1> HIDE DEF m
  <1>2. ASSUME NEW K, Carries(m, g, K) PROVE Carries(l, g, K) \/ (i.gen = g /\ i.kind \in K)
    <2>1. PICK n \in 1..(Len(l) + 1) : m[n].gen = g /\ m[n].kind \in K
      BY <1>1, <1>2 DEF Carries
    <2>2. CASE n = Len(l) + 1
      BY <1>1, <2>1, <2>2
    <2>3. CASE n # Len(l) + 1
      <3>1. n \in 1..Len(l)
        BY <1>1, <2>3
      <3> QED
        BY <1>1, <2>1, <3>1 DEF Carries
    <2> QED
      BY <2>2, <2>3
  <1>3. ASSUME NEW K, Carries(l, g, K) PROVE Carries(m, g, K)
    <2>1. PICK n \in 1..Len(l) : l[n].gen = g /\ l[n].kind \in K
      BY <1>1, <1>3 DEF Carries
    <2>2. n \in 1..(Len(l) + 1) /\ m[n] = l[n]
      BY <1>1
    <2> QED
      BY <1>1, <2>1, <2>2 DEF Carries
  <1>4. ASSUME NEW K, i.gen = g, i.kind \in K PROVE Carries(m, g, K)
    <2>1. Len(l) + 1 \in 1..(Len(l) + 1)
      BY <1>1
    <2> QED
      BY <1>1, <2>1, <1>4 DEF Carries
  <1>5. \A K : Carries(m, g, K) <=> Carries(l, g, K) \/ (i.gen = g /\ i.kind \in K)
    BY <1>2, <1>3, <1>4
  <1> QED
    BY <1>5 DEF m

LEMMA CarriesTail ==
  ASSUME NEW S, NEW l \in Seq(S), l # <<>>, NEW g
  PROVE  \A K : Carries(l, g, K) <=> Carries(Tail(l), g, K) \/ (l[1].gen = g /\ l[1].kind \in K)
  <1> DEFINE m == Tail(l)
  <1>1. /\ Len(l) \in Nat \ {0} /\ DOMAIN l = 1..Len(l) /\ DOMAIN m = 1..(Len(l) - 1)
        /\ \A n \in 1..(Len(l) - 1) : m[n] = l[n + 1]
    BY LenProperties, HeadTailProperties, EmptySeq
  <1> HIDE DEF m
  <1>2. ASSUME NEW K, Carries(l, g, K) PROVE Carries(m, g, K) \/ (l[1].gen = g /\ l[1].kind \in K)
    <2>1. PICK n \in 1..Len(l) : l[n].gen = g /\ l[n].kind \in K
      BY <1>1, <1>2 DEF Carries
    <2>2. CASE n = 1
      BY <2>1, <2>2
    <2>3. CASE n # 1
      <3>1. n - 1 \in 1..(Len(l) - 1) /\ (n - 1) + 1 = n
        BY <1>1, <2>3
      <3>2. m[n - 1] = l[n]
        BY <1>1, <3>1
      <3> QED
        BY <1>1, <2>1, <3>1, <3>2 DEF Carries
    <2> QED
      BY <2>2, <2>3
  <1>3. ASSUME NEW K, Carries(m, g, K) PROVE Carries(l, g, K)
    <2>1. PICK n \in 1..(Len(l) - 1) : m[n].gen = g /\ m[n].kind \in K
      BY <1>1, <1>3 DEF Carries
    <2>2. n + 1 \in 1..Len(l) /\ m[n] = l[n + 1]
      BY <1>1
    <2> QED
      BY <1>1, <2>1, <2>2 DEF Carries
  <1>4. ASSUME NEW K, l[1].gen = g, l[1].kind \in K PROVE Carries(l, g, K)
    <2>1. 1 \in 1..Len(l)
      BY <1>1
    <2> QED
      BY <1>1, <2>1, <1>4 DEF Carries
  <1>5. \A K : Carries(l, g, K) <=> Carries(m, g, K) \/ (l[1].gen = g /\ l[1].kind \in K)
    BY <1>2, <1>3, <1>4
  <1> QED
    BY <1>5 DEF m

LEMMA CarriesNothing ==
  ASSUME NEW g
  PROVE  \A K : ~Carries(<<>>, g, K)
  BY DEF Carries

(* The order of a line, and how old its intents are, after such a change.  *)
Aged(l, g) == \A n \in DOMAIN l : l[n].gen <= g

LEMMA OrderedAppend ==
  ASSUME NEW l \in Seq(Intents), NEW i \in Intents, NEW g \in Nat, Ordered(l, g), Aged(l, g), i.gen <= g,
         i.gen = g => ~Carries(l, g, {"commit"}),
         i.gen = g /\ i.kind \in {"reseed", "close"} => ~Carries(l, g, {"reseed", "delta", "commit"})
  PROVE  Ordered(Append(l, i), g) /\ Aged(Append(l, i), g)
  <1> DEFINE m == Append(l, i)
  <1>1. /\ Len(l) \in Nat /\ DOMAIN l = 1..Len(l) /\ DOMAIN m = 1..(Len(l) + 1)
        /\ \A n \in 1..Len(l) : m[n] = l[n]
        /\ m[Len(l) + 1] = i
    BY LenProperties, AppendProperties
  <1>2. \A n \in 1..Len(l) : l[n].kind \in Kinds
    BY <1>1, ElementOfSeq DEF Intents, Held
  <1> HIDE DEF m
  <1>3. ASSUME NEW a \in DOMAIN m, NEW b \in DOMAIN m, a < b, m[a].gen = g, m[b].gen = g
        PROVE  m[a].kind # "commit" /\ (m[b].kind \in {"reseed", "close"} => m[a].kind = "close")
    <2>1. a \in 1..Len(l) /\ m[a] = l[a]
      BY <1>1, <1>3
    <2>2. CASE b = Len(l) + 1
      BY <1>1, <1>2, <1>3, <2>1, <2>2 DEF Carries, Kinds
    <2>3. CASE b # Len(l) + 1
      <3>1. b \in 1..Len(l) /\ m[b] = l[b]
        BY <1>1, <2>3
      <3> QED
        BY <1>1, <1>3, <2>1, <3>1 DEF Ordered
    <2> QED
      BY <2>2, <2>3
  <1>4. Ordered(m, g)
    BY <1>3 DEF Ordered
  <1>5. ASSUME NEW n \in DOMAIN m PROVE m[n].gen <= g
    <2>1. CASE n = Len(l) + 1
      BY <1>1, <2>1
    <2>2. CASE n # Len(l) + 1
      <3>1. n \in 1..Len(l)
        BY <1>1, <2>2
      <3> QED
        BY <1>1, <3>1 DEF Aged
    <2> QED
      BY <2>1, <2>2
  <1>6. Aged(m, g)
    BY <1>5 DEF Aged
  <1> QED
    BY <1>4, <1>6 DEF m

LEMMA OrderedTail ==
  ASSUME NEW S, NEW l \in Seq(S), l # <<>>, NEW g, Ordered(l, g), Aged(l, g)
  PROVE  /\ Ordered(Tail(l), g) /\ Aged(Tail(l), g)
         /\ l[1].gen = g /\ l[1].kind # "close" => ~Carries(Tail(l), g, {"reseed", "close"})
         /\ l[1].gen = g /\ l[1].kind = "commit"
            => ~Carries(Tail(l), g, {"reseed", "delta", "commit", "close"})
  <1> DEFINE m == Tail(l)
  <1>1. /\ Len(l) \in Nat \ {0} /\ DOMAIN l = 1..Len(l) /\ DOMAIN m = 1..(Len(l) - 1)
        /\ \A n \in 1..(Len(l) - 1) : m[n] = l[n + 1]
    BY LenProperties, HeadTailProperties, EmptySeq
  <1> HIDE DEF m
  <1>2. \A n \in DOMAIN m : n + 1 \in DOMAIN l /\ m[n] = l[n + 1] /\ 1 < n + 1
    BY <1>1
  <1>3. 1 \in DOMAIN l
    BY <1>1
  <1>4. ASSUME NEW a \in DOMAIN m, NEW b \in DOMAIN m, a < b, m[a].gen = g, m[b].gen = g
        PROVE  m[a].kind # "commit" /\ (m[b].kind \in {"reseed", "close"} => m[a].kind = "close")
    <2>1. a + 1 < b + 1
      BY <1>1, <1>4
    <2> QED
      BY <1>2, <1>4, <2>1 DEF Ordered
  <1>5. Ordered(m, g)
    BY <1>4 DEF Ordered
  <1>6. Aged(m, g)
    BY <1>2 DEF Aged
  <1>7. l[1].gen = g /\ l[1].kind # "close" => ~Carries(m, g, {"reseed", "close"})
    BY <1>2, <1>3 DEF Ordered, Carries
  <1>8. l[1].gen = g /\ l[1].kind = "commit" => ~Carries(m, g, {"reseed", "delta", "commit", "close"})
    BY <1>2, <1>3 DEF Ordered, Carries
  <1> QED
    BY <1>5, <1>6, <1>7, <1>8 DEF m

LEMMA NewGeneration ==
  ASSUME NEW l \in Seq(Intents), NEW g \in Nat, NEW h \in Nat, Aged(l, g), g < h
  PROVE  Ordered(l, h) /\ Aged(l, h) /\ \A K : ~Carries(l, h, K)
  <1>1. \A n \in DOMAIN l : l[n].gen \in Nat /\ l[n].gen <= g
    BY LenProperties, ElementOfSeq DEF Intents, Held, Aged
  <1>2. \A n \in DOMAIN l : l[n].gen # h /\ l[n].gen <= h
    BY <1>1
  <1> QED
    BY <1>2 DEF Ordered, Aged, Carries

-----------------------------------------------------------------------------
(* The calls of the STA: what one does next is its first access.           *)
LEMMA Firsts ==
  /\ First(<<>>) = "nothing" /\ <<>> \in Todos
  /\ First(<<"advance", "key">>) = "advance" /\ <<"advance", "key">> \in Todos
  /\ First(<<"key">>) = "key" /\ <<"key">> \in Todos
  /\ First(<<"reseed">>) = "reseed" /\ <<"reseed">> \in Todos
  /\ First(<<"delta">>) = "delta" /\ <<"delta">> \in Todos
  /\ First(<<"send">>) = "send" /\ <<"send">> \in Todos
  /\ First(<<"commit">>) = "commit" /\ <<"commit">> \in Todos
  /\ First(<<"drop">>) = "drop" /\ <<"drop">> \in Todos
  /\ First(<<"advance", "bound", "close">>) = "advance" /\ <<"advance", "bound", "close">> \in Todos
  /\ First(<<"bound", "close">>) = "bound" /\ <<"bound", "close">> \in Todos
  /\ First(<<"close">>) = "close" /\ <<"close">> \in Todos
  /\ First(<<"advance", "bound", "close", "reseed">>) = "advance"
       /\ <<"advance", "bound", "close", "reseed">> \in Todos
  /\ First(<<"bound", "close", "reseed">>) = "bound" /\ <<"bound", "close", "reseed">> \in Todos
  /\ First(<<"close", "reseed">>) = "close" /\ <<"close", "reseed">> \in Todos
  /\ First(<<"advance", "bound", "close", "drop">>) = "advance"
       /\ <<"advance", "bound", "close", "drop">> \in Todos
  /\ First(<<"bound", "close", "drop">>) = "bound" /\ <<"bound", "close", "drop">> \in Todos
  /\ First(<<"close", "drop">>) = "close" /\ <<"close", "drop">> \in Todos
  <1>0. First(<<>>) = "nothing" /\ <<>> \in Todos
    BY DEF First, Todos
  <1>1. First(<<"advance", "key">>) = "advance" /\ <<"advance", "key">> \in Todos
    <2>1. <<"advance", "key">> # <<>> /\ <<"advance", "key">>[1] = "advance"
            /\ <<"advance", "key">> \in Todos
      BY DEF Todos
    <2> QED
      BY <2>1 DEF First
  <1>2. First(<<"key">>) = "key" /\ <<"key">> \in Todos
    <2>1. <<"key">> # <<>> /\ <<"key">>[1] = "key" /\ <<"key">> \in Todos
      BY DEF Todos
    <2> QED
      BY <2>1 DEF First
  <1>3. First(<<"reseed">>) = "reseed" /\ <<"reseed">> \in Todos
    <2>1. <<"reseed">> # <<>> /\ <<"reseed">>[1] = "reseed" /\ <<"reseed">> \in Todos
      BY DEF Todos
    <2> QED
      BY <2>1 DEF First
  <1>4. First(<<"delta">>) = "delta" /\ <<"delta">> \in Todos
    <2>1. <<"delta">> # <<>> /\ <<"delta">>[1] = "delta" /\ <<"delta">> \in Todos
      BY DEF Todos
    <2> QED
      BY <2>1 DEF First
  <1>5. First(<<"send">>) = "send" /\ <<"send">> \in Todos
    <2>1. <<"send">> # <<>> /\ <<"send">>[1] = "send" /\ <<"send">> \in Todos
      BY DEF Todos
    <2> QED
      BY <2>1 DEF First
  <1>6. First(<<"commit">>) = "commit" /\ <<"commit">> \in Todos
    <2>1. <<"commit">> # <<>> /\ <<"commit">>[1] = "commit" /\ <<"commit">> \in Todos
      BY DEF Todos
    <2> QED
      BY <2>1 DEF First
  <1>7. First(<<"drop">>) = "drop" /\ <<"drop">> \in Todos
    <2>1. <<"drop">> # <<>> /\ <<"drop">>[1] = "drop" /\ <<"drop">> \in Todos
      BY DEF Todos
    <2> QED
      BY <2>1 DEF First
  <1>8. First(<<"advance", "bound", "close">>) = "advance" /\ <<"advance", "bound", "close">> \in Todos
    <2>1. <<"advance", "bound", "close">> # <<>> /\ <<"advance", "bound", "close">>[1] = "advance"
            /\ <<"advance", "bound", "close">> \in Todos
      BY DEF Todos
    <2> QED
      BY <2>1 DEF First
  <1>9. First(<<"bound", "close">>) = "bound" /\ <<"bound", "close">> \in Todos
    <2>1. <<"bound", "close">> # <<>> /\ <<"bound", "close">>[1] = "bound" /\ <<"bound", "close">> \in Todos
      BY DEF Todos
    <2> QED
      BY <2>1 DEF First
  <1>10. First(<<"close">>) = "close" /\ <<"close">> \in Todos
    <2>1. <<"close">> # <<>> /\ <<"close">>[1] = "close" /\ <<"close">> \in Todos
      BY DEF Todos
    <2> QED
      BY <2>1 DEF First
  <1>11. First(<<"advance", "bound", "close", "reseed">>) = "advance"
           /\ <<"advance", "bound", "close", "reseed">> \in Todos
    <2>1. <<"advance", "bound", "close", "reseed">> # <<>>
            /\ <<"advance", "bound", "close", "reseed">>[1] = "advance"
                 /\ <<"advance", "bound", "close", "reseed">> \in Todos
      BY DEF Todos
    <2> QED
      BY <2>1 DEF First
  <1>12. First(<<"bound", "close", "reseed">>) = "bound" /\ <<"bound", "close", "reseed">> \in Todos
    <2>1. <<"bound", "close", "reseed">> # <<>> /\ <<"bound", "close", "reseed">>[1] = "bound"
            /\ <<"bound", "close", "reseed">> \in Todos
      BY DEF Todos
    <2> QED
      BY <2>1 DEF First
  <1>13. First(<<"close", "reseed">>) = "close" /\ <<"close", "reseed">> \in Todos
    <2>1. <<"close", "reseed">> # <<>> /\ <<"close", "reseed">>[1] = "close"
            /\ <<"close", "reseed">> \in Todos
      BY DEF Todos
    <2> QED
      BY <2>1 DEF First
  <1>14. First(<<"advance", "bound", "close", "drop">>) = "advance"
           /\ <<"advance", "bound", "close", "drop">> \in Todos
    <2>1. <<"advance", "bound", "close", "drop">> # <<>>
            /\ <<"advance", "bound", "close", "drop">>[1] = "advance"
                 /\ <<"advance", "bound", "close", "drop">> \in Todos
      BY DEF Todos
    <2> QED
      BY <2>1 DEF First
  <1>15. First(<<"bound", "close", "drop">>) = "bound" /\ <<"bound", "close", "drop">> \in Todos
    <2>1. <<"bound", "close", "drop">> # <<>> /\ <<"bound", "close", "drop">>[1] = "bound"
            /\ <<"bound", "close", "drop">> \in Todos
      BY DEF Todos
    <2> QED
      BY <2>1 DEF First
  <1>16. First(<<"close", "drop">>) = "close" /\ <<"close", "drop">> \in Todos
    <2>1. <<"close", "drop">> # <<>> /\ <<"close", "drop">>[1] = "close" /\ <<"close", "drop">> \in Todos
      BY DEF Todos
    <2> QED
      BY <2>1 DEF First
  <1> QED
    BY <1>0, <1>1, <1>2, <1>3, <1>4, <1>5, <1>6, <1>7, <1>8, <1>9, <1>10, <1>11, <1>12, <1>13, <1>14,
       <1>15, <1>16

LEMMA Shapes ==
  ASSUME NEW u \in Todos
  PROVE  /\ u = <<>> <=> First(u) = "nothing"
         /\ u # <<>> => Head(u) = First(u) /\ Tail(u) \in Todos
         /\ First(u) = "advance" => First(Tail(u)) \in {"key", "bound"}
         /\ First(u) = "bound" => First(Tail(u)) = "close"
         /\ First(u) = "close" => First(Tail(u)) \in {"nothing", "reseed", "drop"}
         /\ First(u) \in {"key", "reseed", "delta", "send", "commit", "drop"} => Tail(u) = <<>>
  <1>1. Tail(<<"key">>) = <<>> /\ Tail(<<"reseed">>) = <<>> /\ Tail(<<"delta">>) = <<>>
        /\ Tail(<<"send">>) = <<>> /\ Tail(<<"commit">>) = <<>> /\ Tail(<<"drop">>) = <<>>
             /\ Tail(<<"close">>) = <<>>
    OBVIOUS
  <1>2. Tail(<<"advance", "key">>) = <<"key">>
    OBVIOUS
  <1>3. Tail(<<"bound", "close">>) = <<"close">> /\ Tail(<<"close", "reseed">>) = <<"reseed">>
          /\ Tail(<<"close", "drop">>) = <<"drop">>
    OBVIOUS
  <1>4. Tail(<<"advance", "bound", "close">>) = <<"bound", "close">>
    OBVIOUS
  <1>5. Tail(<<"bound", "close", "reseed">>) = <<"close", "reseed">>
    OBVIOUS
  <1>6. Tail(<<"bound", "close", "drop">>) = <<"close", "drop">>
    OBVIOUS
  <1>7. Tail(<<"advance", "bound", "close", "reseed">>) = <<"bound", "close", "reseed">>
    OBVIOUS
  <1>8. Tail(<<"advance", "bound", "close", "drop">>) = <<"bound", "close", "drop">>
    OBVIOUS
  <1>9. CASE u = <<>>
    BY <1>9 DEF First
  <1>10. CASE u = <<"advance", "key">>
    <2>1. u # <<>> /\ First(u) = "advance" /\ Head(u) = "advance"
      BY <1>10 DEF First
    <2>2. Tail(u) = <<"key">> /\ Tail(u) \in Todos
      BY <1>10, <1>2 DEF Todos
    <2>3. First(Tail(u)) = "key"
      BY <2>2, Firsts
    <2> QED
      BY <2>1, <2>2, <2>3
  <1>11. CASE u = <<"key">>
    <2>1. u # <<>> /\ First(u) = "key" /\ Head(u) = "key"
      BY <1>11 DEF First
    <2>2. Tail(u) = <<>> /\ Tail(u) \in Todos
      BY <1>11, <1>1 DEF Todos
    <2>3. First(Tail(u)) = "nothing"
      BY <2>2, Firsts
    <2> QED
      BY <2>1, <2>2, <2>3
  <1>12. CASE u = <<"reseed">>
    <2>1. u # <<>> /\ First(u) = "reseed" /\ Head(u) = "reseed"
      BY <1>12 DEF First
    <2>2. Tail(u) = <<>> /\ Tail(u) \in Todos
      BY <1>12, <1>1 DEF Todos
    <2>3. First(Tail(u)) = "nothing"
      BY <2>2, Firsts
    <2> QED
      BY <2>1, <2>2, <2>3
  <1>13. CASE u = <<"delta">>
    <2>1. u # <<>> /\ First(u) = "delta" /\ Head(u) = "delta"
      BY <1>13 DEF First
    <2>2. Tail(u) = <<>> /\ Tail(u) \in Todos
      BY <1>13, <1>1 DEF Todos
    <2>3. First(Tail(u)) = "nothing"
      BY <2>2, Firsts
    <2> QED
      BY <2>1, <2>2, <2>3
  <1>14. CASE u = <<"send">>
    <2>1. u # <<>> /\ First(u) = "send" /\ Head(u) = "send"
      BY <1>14 DEF First
    <2>2. Tail(u) = <<>> /\ Tail(u) \in Todos
      BY <1>14, <1>1 DEF Todos
    <2>3. First(Tail(u)) = "nothing"
      BY <2>2, Firsts
    <2> QED
      BY <2>1, <2>2, <2>3
  <1>15. CASE u = <<"commit">>
    <2>1. u # <<>> /\ First(u) = "commit" /\ Head(u) = "commit"
      BY <1>15 DEF First
    <2>2. Tail(u) = <<>> /\ Tail(u) \in Todos
      BY <1>15, <1>1 DEF Todos
    <2>3. First(Tail(u)) = "nothing"
      BY <2>2, Firsts
    <2> QED
      BY <2>1, <2>2, <2>3
  <1>16. CASE u = <<"drop">>
    <2>1. u # <<>> /\ First(u) = "drop" /\ Head(u) = "drop"
      BY <1>16 DEF First
    <2>2. Tail(u) = <<>> /\ Tail(u) \in Todos
      BY <1>16, <1>1 DEF Todos
    <2>3. First(Tail(u)) = "nothing"
      BY <2>2, Firsts
    <2> QED
      BY <2>1, <2>2, <2>3
  <1>17. CASE u = <<"advance", "bound", "close">>
    <2>1. u # <<>> /\ First(u) = "advance" /\ Head(u) = "advance"
      BY <1>17 DEF First
    <2>2. Tail(u) = <<"bound", "close">> /\ Tail(u) \in Todos
      BY <1>17, <1>4 DEF Todos
    <2>3. First(Tail(u)) = "bound"
      BY <2>2, Firsts
    <2> QED
      BY <2>1, <2>2, <2>3
  <1>18. CASE u = <<"bound", "close">>
    <2>1. u # <<>> /\ First(u) = "bound" /\ Head(u) = "bound"
      BY <1>18 DEF First
    <2>2. Tail(u) = <<"close">> /\ Tail(u) \in Todos
      BY <1>18, <1>3 DEF Todos
    <2>3. First(Tail(u)) = "close"
      BY <2>2, Firsts
    <2> QED
      BY <2>1, <2>2, <2>3
  <1>19. CASE u = <<"close">>
    <2>1. u # <<>> /\ First(u) = "close" /\ Head(u) = "close"
      BY <1>19 DEF First
    <2>2. Tail(u) = <<>> /\ Tail(u) \in Todos
      BY <1>19, <1>1 DEF Todos
    <2>3. First(Tail(u)) = "nothing"
      BY <2>2, Firsts
    <2> QED
      BY <2>1, <2>2, <2>3
  <1>20. CASE u = <<"advance", "bound", "close", "reseed">>
    <2>1. u # <<>> /\ First(u) = "advance" /\ Head(u) = "advance"
      BY <1>20 DEF First
    <2>2. Tail(u) = <<"bound", "close", "reseed">> /\ Tail(u) \in Todos
      BY <1>20, <1>7 DEF Todos
    <2>3. First(Tail(u)) = "bound"
      BY <2>2, Firsts
    <2> QED
      BY <2>1, <2>2, <2>3
  <1>21. CASE u = <<"bound", "close", "reseed">>
    <2>1. u # <<>> /\ First(u) = "bound" /\ Head(u) = "bound"
      BY <1>21 DEF First
    <2>2. Tail(u) = <<"close", "reseed">> /\ Tail(u) \in Todos
      BY <1>21, <1>5 DEF Todos
    <2>3. First(Tail(u)) = "close"
      BY <2>2, Firsts
    <2> QED
      BY <2>1, <2>2, <2>3
  <1>22. CASE u = <<"close", "reseed">>
    <2>1. u # <<>> /\ First(u) = "close" /\ Head(u) = "close"
      BY <1>22 DEF First
    <2>2. Tail(u) = <<"reseed">> /\ Tail(u) \in Todos
      BY <1>22, <1>3 DEF Todos
    <2>3. First(Tail(u)) = "reseed"
      BY <2>2, Firsts
    <2> QED
      BY <2>1, <2>2, <2>3
  <1>23. CASE u = <<"advance", "bound", "close", "drop">>
    <2>1. u # <<>> /\ First(u) = "advance" /\ Head(u) = "advance"
      BY <1>23 DEF First
    <2>2. Tail(u) = <<"bound", "close", "drop">> /\ Tail(u) \in Todos
      BY <1>23, <1>8 DEF Todos
    <2>3. First(Tail(u)) = "bound"
      BY <2>2, Firsts
    <2> QED
      BY <2>1, <2>2, <2>3
  <1>24. CASE u = <<"bound", "close", "drop">>
    <2>1. u # <<>> /\ First(u) = "bound" /\ Head(u) = "bound"
      BY <1>24 DEF First
    <2>2. Tail(u) = <<"close", "drop">> /\ Tail(u) \in Todos
      BY <1>24, <1>6 DEF Todos
    <2>3. First(Tail(u)) = "close"
      BY <2>2, Firsts
    <2> QED
      BY <2>1, <2>2, <2>3
  <1>25. CASE u = <<"close", "drop">>
    <2>1. u # <<>> /\ First(u) = "close" /\ Head(u) = "close"
      BY <1>25 DEF First
    <2>2. Tail(u) = <<"drop">> /\ Tail(u) \in Todos
      BY <1>25, <1>3 DEF Todos
    <2>3. First(Tail(u)) = "drop"
      BY <2>2, Firsts
    <2> QED
      BY <2>1, <2>2, <2>3
  <1> QED
    BY <1>9, <1>10, <1>11, <1>12, <1>13, <1>14, <1>15, <1>16, <1>17, <1>18, <1>19, <1>20, <1>21, <1>22,
       <1>23, <1>24, <1>25 DEF Todos

(* The calls put together from their parts.                                *)
LEMMA Triple ==
  ASSUME NEW a, NEW b, NEW c, NEW d
  PROVE  <<a, b, c>> \o <<d>> = <<a, b, c, d>>
  <1>1. PICK S : S = {a, b, c, d}
    OBVIOUS
  <1>2. PICK s, v, y : s = <<a, b, c>> /\ v = <<d>> /\ y = <<a, b, c, d>>
    OBVIOUS
  <1>3. /\ s \in Seq(S) /\ Len(s) = 3 /\ v \in Seq(S) /\ Len(v) = 1
        /\ y \in Seq(S) /\ Len(y) = 4
    BY <1>1, <1>2
  <1>4. s \o v = y
    <2>1. /\ s \o v \in Seq(S) /\ Len(s \o v) = 4
          /\ \A i \in 1..4 : (s \o v)[i] = IF i <= 3 THEN s[i] ELSE v[i - 3]
      <3>1. /\ s \o v \in Seq(S) /\ Len(s \o v) = Len(s) + Len(v)
            /\ \A i \in 1..Len(s) + Len(v) :
                  (s \o v)[i] = IF i <= Len(s) THEN s[i] ELSE v[i - Len(s)]
        BY <1>3, ConcatProperties
      <3> QED
        BY <1>3, <3>1
    <2>2. \A i \in 1..4 : (s \o v)[i] = y[i]
      BY <1>2, <2>1
    <2> QED
      BY <1>3, <2>1, <2>2, SeqEqual
  <1> QED
    BY <1>2, <1>4, Zenon

LEMMA Single ==
  ASSUME NEW a, NEW b
  PROVE  <<a>> \o <<b>> = <<a, b>> /\ <<a>> \o <<>> = <<a>> /\ <<>> \o <<a>> = <<a>>
  <1>1. PICK S : S = {a, b}
    OBVIOUS
  <1>2. PICK s, v, y : s = <<a>> /\ v = <<b>> /\ y = <<a, b>>
    OBVIOUS
  <1>3. /\ s \in Seq(S) /\ Len(s) = 1 /\ v \in Seq(S) /\ Len(v) = 1
        /\ y \in Seq(S) /\ Len(y) = 2
    BY <1>1, <1>2
  <1>4. s \o v = y
    <2>1. /\ s \o v \in Seq(S) /\ Len(s \o v) = 2
          /\ \A i \in 1..2 : (s \o v)[i] = IF i <= 1 THEN s[i] ELSE v[i - 1]
      <3>1. /\ s \o v \in Seq(S) /\ Len(s \o v) = Len(s) + Len(v)
            /\ \A i \in 1..Len(s) + Len(v) :
                  (s \o v)[i] = IF i <= Len(s) THEN s[i] ELSE v[i - Len(s)]
        BY <1>3, ConcatProperties
      <3> QED
        BY <1>3, <3>1
    <2>2. \A i \in 1..2 : (s \o v)[i] = y[i]
      BY <1>2, <2>1
    <2> QED
      BY <1>3, <2>1, <2>2, SeqEqual
  <1>5. s \o <<>> = s /\ <<>> \o s = s
    BY <1>3, ConcatEmptySeq
  <1> QED
    BY <1>2, <1>4, <1>5, Zenon

LEMMA IntentsJoin ==
  ASSUME NEW a \in Seq(Intents), NEW b \in Seq(Intents), NEW c \in Seq(Intents)
  PROVE  (a \o b) \o c = a \o (b \o c)
  BY ConcatAssociative

LEMMA NewCalls ==
  /\ BeginComposition \o <<"key">> = <<"advance", "key">>
  /\ RequestClose \o <<"reseed">> = <<"advance", "bound", "close", "reseed">>
  /\ RequestClose \o <<"drop">> = <<"advance", "bound", "close", "drop">>
  /\ RequestClose \o <<>> = RequestClose
  /\ <<>> \o <<>> = <<>>
  <1>1. RequestClose \in Seq({"advance", "bound", "close"})
    BY DEF RequestClose
  <1>2. RequestClose \o <<>> = RequestClose
    BY <1>1, ConcatEmptySeq
  <1>3. <<>> \o <<>> = <<>>
    <2>1. <<>> \in Seq({})
      BY EmptySeq
    <2> QED
      BY <2>1, ConcatEmptySeq
  <1>4. BeginComposition \o <<"key">> = <<"advance", "key">>
    BY Single DEF BeginComposition
  <1>5. RequestClose \o <<"reseed">> = <<"advance", "bound", "close", "reseed">>
    BY Triple, Zenon DEF RequestClose
  <1>6. RequestClose \o <<"drop">> = <<"advance", "bound", "close", "drop">>
    BY Triple, Zenon DEF RequestClose
  <1> QED
    BY <1>2, <1>3, <1>4, <1>5, <1>6

-----------------------------------------------------------------------------
(* The line as a sequence.                                                 *)
LEMMA LineEnds ==
  ASSUME NEW q \in Seq(Intents), NEW h \in Intents
  PROVE  /\ <<h>> \o q \in Seq(Intents) /\ <<h>> \o q # <<>> /\ (<<h>> \o q)[1] = h /\ Tail(<<h>> \o q) = q
         /\ <<>> \o q = q /\ q \o <<>> = q /\ q \o <<h>> = Append(q, h)
         /\ \A i \in Intents : <<h>> \o Append(q, i) = Append(<<h>> \o q, i)
  <1>1. PICK s : s = <<h>>
    OBVIOUS
  <1>2. s \in Seq(Intents) /\ Len(s) = 1 /\ s[1] = h
    BY <1>1
  <1> DEFINE m == s \o q
  <1>3. /\ m \in Seq(Intents) /\ Len(m) = 1 + Len(q) /\ Len(q) \in Nat
        /\ \A n \in 1..(1 + Len(q)) : m[n] = IF n <= 1 THEN s[n] ELSE q[n - 1]
    <2>1. /\ s \o q \in Seq(Intents) /\ Len(s \o q) = Len(s) + Len(q)
          /\ \A n \in 1..Len(s) + Len(q) : (s \o q)[n] = IF n <= Len(s) THEN s[n] ELSE q[n - Len(s)]
      BY <1>2, ConcatProperties
    <2> QED
      BY <1>2, <2>1, LenProperties
  <1> HIDE DEF m
  <1>4. m # <<>> /\ m[1] = h
    BY <1>2, <1>3, EmptySeq
  <1>5. Tail(m) = q
    <2>1. /\ Tail(m) \in Seq(Intents) /\ Len(Tail(m)) = Len(q)
          /\ \A n \in 1..Len(q) : Tail(m)[n] = m[n + 1]
      BY <1>3, <1>4, HeadTailProperties
    <2>2. \A n \in 1..Len(q) : m[n + 1] = q[n]
      BY <1>3
    <2> QED
      BY <2>1, <2>2, SeqEqual
  <1>6. q \o s = Append(q, h)
    BY <1>1, AppendIsConcat
  <1>7. ASSUME NEW i \in Intents PROVE s \o Append(q, i) = Append(m, i)
    <2>1. PICK u : u = <<i>>
      OBVIOUS
    <2>2. u \in Seq(Intents)
      BY <2>1
    <2>3. Append(q, i) = q \o u /\ Append(m, i) = m \o u
      BY <1>3, <2>1, AppendIsConcat
    <2>4. s \in Seq(Intents)
      BY <1>2
    <2>5. (s \o q) \o u = s \o (q \o u)
      BY <2>2, <2>4, IntentsJoin
    <2> QED
      BY <2>3, <2>5 DEF m
  <1>8. s \o q = m
    BY DEF m
  <1>9. <<>> \o q = q /\ q \o <<>> = q
    BY ConcatEmptySeq
  <1> QED
    BY <1>1, <1>3, <1>4, <1>5, <1>6, <1>7, <1>8, <1>9, Zenon

LEMMA Requeued ==
  ASSUME NEW q \in Seq(Intents), q # <<>>
  PROVE  Head(q) \in Intents /\ Tail(q) \in Seq(Intents) /\ <<Head(q)>> \o Tail(q) = q
  <1>1. Len(q) \in Nat \ {0} /\ 1 \in 1..Len(q) /\ Len(q) \in 1..Len(q)
    BY EmptySeq
  <1>2. Head(q) = q[1] /\ Tail(q) = SubSeq(q, 2, Len(q))
    BY TailIsSubSeq
  <1>3. SubSeq(q, 1, Len(q)) = <<q[1]>> \o SubSeq(q, 1 + 1, Len(q))
    BY <1>1, SubSeqRecursiveFirst
  <1>4. SubSeq(q, 1, Len(q)) = q /\ 1 + 1 = 2
    BY SubSeqFull
  <1> QED
    BY <1>2, <1>3, <1>4, HeadTailProperties

LEMMA Lengthened ==
  ASSUME NEW s \in Seq(Nat), NEW k \in Nat
  PROVE  Append(s, k) \in Seq(Nat) /\ Front(Append(s, k)) = s /\ Append(s, k) = s \o <<k>>
  <1> DEFINE m == Append(s, k)
  <1>1. m \in Seq(Nat) /\ Len(m) = Len(s) + 1 /\ Len(s) \in Nat /\ \A n \in 1..Len(s) : m[n] = s[n]
    BY AppendProperties, LenProperties
  <1> HIDE DEF m
  <1>2. \A n \in 1..Len(s) : m[n] \in Nat
    BY <1>1, ElementOfSeq
  <1>3. /\ SubSeq(m, 1, Len(s)) \in Seq(Nat) /\ Len(SubSeq(m, 1, Len(s))) = Len(s)
        /\ \A n \in 1..Len(s) : SubSeq(m, 1, Len(s))[n] = m[n]
    <2>1. PICK j \in Int : j = Len(s)
      BY <1>1
    <2>2. 1 \in Int /\ \A n \in 1..j : m[n] \in Nat
      BY <1>2, <2>1
    <2>3. /\ SubSeq(m, 1, j) \in Seq(Nat) /\ Len(SubSeq(m, 1, j)) = IF 1 <= j THEN j - 1 + 1 ELSE 0
          /\ \A n \in 1 .. j - 1 + 1 : SubSeq(m, 1, j)[n] = m[1 + n - 1]
      BY <2>1, <2>2, SubSeqProperties
    <2> QED
      BY <1>1, <2>1, <2>3
  <1>4. SubSeq(m, 1, Len(s)) = s
    BY <1>1, <1>3, SeqEqual
  <1>5. Len(m) - 1 = Len(s)
    BY <1>1
  <1>6. Front(m) = s
    BY <1>4, <1>5 DEF Front
  <1>7. m = s \o <<k>>
    BY AppendIsConcat DEF m
  <1> QED
    BY <1>1, <1>6, <1>7 DEF m

(* The line of a state, put together.                                      *)
LEMMA TheLine ==
  ASSUME MirrorTypeOK, Calls, Works
  PROVE  /\ OnTheWay \in Seq(Intents) /\ Line \in Seq(Intents) /\ mb.queue \in Seq(Intents)
         /\ wk.pc \in {"got", "apply"} => wk.intent \in Intents /\ OnTheWay = <<wk.intent>> \o mb.queue
         /\ wk.pc \notin {"got", "apply"} => OnTheWay = mb.queue
         /\ Doing = "send" => Line = Append(OnTheWay, st.intent)
         /\ Doing # "send" => Line = OnTheWay
  <1>1. mb.queue \in Seq(Intents)
    BY DEF MirrorTypeOK, Mailboxes
  <1>2. wk.pc \in {"got", "apply"} => wk.intent \in Intents /\ OnTheWay = <<wk.intent>> \o mb.queue
    BY DEF Works, OnTheWay
  <1>3. wk.pc \notin {"got", "apply"} => OnTheWay = mb.queue
    <2>1. <<>> \o mb.queue = mb.queue
      BY <1>1, ConcatEmptySeq
    <2> QED
      BY <2>1 DEF OnTheWay
  <1>4. OnTheWay \in Seq(Intents)
    BY <1>1, <1>2, <1>3, LineEnds
  <1>5. Doing = "send" => Line = Append(OnTheWay, st.intent) /\ Line \in Seq(Intents)
    <2> SUFFICES ASSUME Doing = "send" PROVE Line = Append(OnTheWay, st.intent) /\ Line \in Seq(Intents)
      OBVIOUS
    <2>1. st.intent \in Intents
      BY DEF Calls
    <2>2. Line = OnTheWay \o <<st.intent>>
      BY DEF Line
    <2>3. OnTheWay \o <<st.intent>> = Append(OnTheWay, st.intent)
      BY <1>4, <2>1, LineEnds
    <2>4. Append(OnTheWay, st.intent) \in Seq(Intents)
      BY <1>4, <2>1, AppendProperties
    <2> QED
      BY <2>2, <2>3, <2>4
  <1>6. Doing # "send" => Line = OnTheWay
    <2>1. OnTheWay \o <<>> = OnTheWay
      BY <1>4, ConcatEmptySeq
    <2> QED
      BY <2>1 DEF Line
  <1> QED
    BY <1>1, <1>2, <1>3, <1>4, <1>5, <1>6

(* A call that begins changes nothing the worker sees.                     *)
LEMMA CallBegins ==
  ASSUME MirrorInv, mb' = mb, wk' = wk, ses' = ses, past'.missed = past.missed,
         st.todo = <<>>, Doing' \in {"advance", "key", "commit"}, ~mb.dropped,
         mb.phase = "terminal" => ~st'.composing,
         Doing' = "key" => st'.composing /\ st'.reading = st.reading /\ past'.last = past.last,
         Doing' = "commit" => past'.last = st.reading /\ ~st'.composing /\ mb.phase # "terminal"
  PROVE  (Calls /\ Works /\ Lines /\ Faithful)'
  <1> USE DEF MirrorInv
  <1>1. Doing = "nothing"
    BY DEF Doing, First
  <1>2. Line' = Line /\ OnTheWay' = OnTheWay
    BY <1>1 DEF Line, OnTheWay
  <1>3. Calls'
    BY <1>1 DEF Calls
  <1>4. Works'
    BY <1>2 DEF Works
  <1>5. Lines'
    BY <1>1, <1>2 DEF Lines
  <1>6. Faithful'
    <2>1. CASE Doing' = "advance"
      BY <2>1 DEF Faithful
    <2>2. CASE Doing' # "advance"
      <3>1. mb.phase # "dirty" => Target' = Target
        BY <1>1, <2>2 DEF Target
      <3> QED
        BY <1>1, <1>2, <3>1 DEF Faithful
    <2> QED
      BY <2>1, <2>2
  <1> QED
    BY <1>3, <1>4, <1>5, <1>6

LEMMA Operations ==
  ASSUME MirrorInv, STA
  PROVE  MirrorInv'
  <1> USE DEF MirrorInv
  <1>0. st \in STAs /\ mb \in Mailboxes /\ wk \in Workers /\ ses \in Sessions /\ past \in Ghosts
        /\ env \in [ops : Nat, faults : Nat]
    BY DEF MirrorTypeOK
  <1>1. ASSUME NEW next, next \in STAs, Operation(next), past' \in Ghosts, past'.missed = past.missed,
               First(next.todo) \in {"advance", "key", "commit"},
               mb.phase = "terminal" => ~next.composing,
               First(next.todo) = "key" => next.composing /\ next.reading = st.reading
                   /\ past'.last = past.last,
               First(next.todo) = "commit" => past'.last = st.reading /\ ~next.composing
                   /\ mb.phase # "terminal"
        PROVE  MirrorInv'
    <2>1. st' = next /\ mb' = mb /\ wk' = wk /\ ses' = ses /\ st.todo = <<>> /\ ~mb.dropped
          /\ env' = [env EXCEPT !.ops = @ + 1]
      BY <1>1 DEF Operation
    <2>2. env' \in [ops : Nat, faults : Nat]
      BY <1>0, <2>1
    <2>3. MirrorTypeOK'
      BY <1>0, <1>1, <2>1, <2>2 DEF MirrorTypeOK
    <2>4. Doing' = First(next.todo)
      BY <2>1 DEF Doing
    <2>5. (Calls /\ Works /\ Lines /\ Faithful)'
      BY <1>1, <2>1, <2>4, CallBegins
    <2> QED
      BY <2>3, <2>5
  <1>2. ASSUME NEW cursor \in BOOLEAN, TypeKey(cursor) PROVE MirrorInv'
    <2> DEFINE u == (IF st.composing THEN <<>> ELSE BeginComposition) \o <<"key">>
               next == [st EXCEPT !.key = env.ops + 1, !.cursor = cursor, !.todo = u]
    <2>1. Operation(next) /\ past' = past
      BY <1>2 DEF TypeKey
    <2>2. u = IF st.composing THEN <<"key">> ELSE <<"advance", "key">>
      BY NewCalls, Single
    <2>3. u \in Todos /\ First(u) = IF st.composing THEN "key" ELSE "advance"
      <3> HIDE DEF u
      <3> QED
        BY <2>2, Firsts
    <2> HIDE DEF u
    <2>4. next \in STAs /\ next.todo = u /\ next.composing = st.composing /\ next.reading = st.reading
      <3>1. PICK key \in Nat : key = env.ops + 1
        BY <1>0
      <3>2. next = [st EXCEPT !.key = key, !.cursor = cursor, !.todo = u]
        BY <3>1
      <3> HIDE DEF next
      <3> QED
        BY <1>0, <2>3, <3>2 DEF STAs
    <2> HIDE DEF next
    <2>5. mb.phase = "terminal" => ~next.composing
      BY <2>4 DEF Calls
    <2> QED
      BY <1>0, <1>1, <2>1, <2>3, <2>4, <2>5
  <1>3. ASSUME NEW text \in Shorter, Edit(text) \/ EditWithoutReseed(text) PROVE MirrorInv'
    <2>1. text \in Seq(Nat)
      <3>1. st.reading \in Seq(Nat) /\ st.reading # <<>> /\ text \in {Front(st.reading), Tail(st.reading)}
        BY <1>0, <1>3 DEF Shorter, STAs
      <3>2. Tail(st.reading) \in Seq(Nat)
        BY <3>1, HeadTailProperties
      <3>3. Front(st.reading) \in Seq(Nat)
        <4>1. PICK r \in Seq(Nat) : r = st.reading
          BY <3>1
        <4>2. PICK s \in Seq(Nat), k \in Nat : r = Append(s, k)
          BY <3>1, <4>1, SequenceEmptyOrAppend
        <4> QED
          BY <4>1, <4>2, Lengthened
      <3> QED
        BY <3>1, <3>2, <3>3
    <2>2. PICK u \in {RequestClose \o <<"reseed">>, RequestClose} :
             Operation([st EXCEPT !.reading = text, !.todo = u]) /\ past' = past /\ st.composing
      BY <1>3 DEF Edit, EditWithoutReseed
    <2>3. u \in Todos /\ First(u) = "advance"
      BY <2>2, NewCalls, Firsts DEF RequestClose
    <2> DEFINE next == [st EXCEPT !.reading = text, !.todo = u]
    <2>4. next \in STAs /\ next.todo = u /\ next.composing = st.composing
      BY <1>0, <2>1, <2>3 DEF STAs
    <2>5. Operation(next)
      BY <2>2
    <2> HIDE DEF next
    <2>6. mb.phase = "terminal" => ~next.composing
      BY <2>4 DEF Calls
    <2> QED
      BY <1>0, <1>1, <2>2, <2>3, <2>4, <2>5, <2>6
  <1>4. ASSUME Cancel PROVE MirrorInv'
    <2> DEFINE next == [st EXCEPT !.composing = FALSE, !.reading = <<>>, !.todo = RequestClose]
    <2>1. Operation(next) /\ past' = past
      BY <1>4 DEF Cancel
    <2>2. RequestClose \in Todos /\ First(RequestClose) = "advance"
      BY Firsts DEF RequestClose
    <2>3. next \in STAs /\ next.todo = RequestClose /\ next.composing = FALSE
      <3>1. PICK none \in Seq(Nat), u \in Todos : none = <<>> /\ u = RequestClose
        BY <2>2, EmptySeq
      <3>2. next = [st EXCEPT !.composing = FALSE, !.reading = none, !.todo = u]
        BY <3>1, Zenon
      <3> HIDE DEF next
      <3>3. next \in STAs /\ next.todo = u /\ next.composing = FALSE
        BY <1>0, <3>2 DEF STAs
      <3> QED
        BY <3>1, <3>3
    <2> HIDE DEF next
    <2> QED
      BY <1>0, <1>1, <2>1, <2>2, <2>3
  <1>5. ASSUME Enter PROVE MirrorInv'
    <2> DEFINE next == [st EXCEPT !.composing = FALSE, !.reading = <<>>, !.todo = <<"commit">>]
    <2>1. Operation(next) /\ past' = [past EXCEPT !.last = st.reading] /\ st.composing
      BY <1>5 DEF Enter
    <2>2. <<"commit">> \in Todos /\ First(<<"commit">>) = "commit"
      BY Firsts
    <2>3. next \in STAs /\ next.todo = <<"commit">> /\ next.composing = FALSE
      <3>1. PICK none \in Seq(Nat), u \in Todos : none = <<>> /\ u = <<"commit">>
        BY <2>2, EmptySeq
      <3>2. next = [st EXCEPT !.composing = FALSE, !.reading = none, !.todo = u]
        BY <3>1, Zenon
      <3> HIDE DEF next
      <3>3. next \in STAs /\ next.todo = u /\ next.composing = FALSE
        BY <1>0, <3>2 DEF STAs
      <3> QED
        BY <3>1, <3>3
    <2> HIDE DEF next
    <2>4. past' \in Ghosts /\ past'.last = st.reading /\ past'.missed = past.missed
      BY <1>0, <2>1 DEF STAs, Ghosts
    <2>5. mb.phase # "terminal"
      BY <2>1 DEF Calls
    <2> QED
      BY <1>1, <2>1, <2>2, <2>3, <2>4, <2>5
  <1>6. ASSUME Drop PROVE MirrorInv'
    <2> DEFINE u == RequestClose \o <<"drop">>
               next == [st EXCEPT !.todo = u]
    <2>1. Operation(next) /\ past' = past
      BY <1>6 DEF Drop
    <2>2. u \in Todos /\ First(u) = "advance"
      <3>1. u = <<"advance", "bound", "close", "drop">>
        BY NewCalls
      <3> HIDE DEF u
      <3> QED
        BY <3>1, Firsts
    <2> HIDE DEF u
    <2>3. next \in STAs /\ next.todo = u /\ next.composing = st.composing
      BY <1>0, <2>2 DEF STAs
    <2> HIDE DEF next
    <2>4. mb.phase = "terminal" => ~next.composing
      BY <2>3 DEF Calls
    <2> QED
      BY <1>0, <1>1, <2>1, <2>2, <2>3, <2>4
  <1> QED
    BY <1>2, <1>3, <1>4, <1>5, <1>6 DEF STA

-----------------------------------------------------------------------------
(* The accesses of the STA.                                                *)
LEMMA Accessing ==
  ASSUME MirrorTypeOK, st.todo # <<>>
  PROVE  /\ Doing = Head(st.todo) /\ Tail(st.todo) \in Todos
         /\ Doing = "advance" => First(Tail(st.todo)) \in {"key", "bound"}
         /\ Doing = "bound" => First(Tail(st.todo)) = "close"
         /\ Doing = "close" => First(Tail(st.todo)) \in {"nothing", "reseed", "drop"}
         /\ Doing \in {"key", "reseed", "delta", "send", "commit", "drop"} => Tail(st.todo) = <<>>
  <1>1. st.todo \in Todos
    BY DEF MirrorTypeOK, STAs
  <1> QED
    BY <1>1, Shapes DEF Doing

LEMMA NothingFirst ==
  ASSUME NEW u \in Todos
  PROVE  <<>> \o u = u
  <1> DEFINE Words == {"advance", "bound", "close", "key", "reseed", "delta", "send", "commit", "drop"}
  <1>0. <<>> \in Seq(Words)
    OBVIOUS
  <1>1. <<"advance", "key">> \in Seq(Words)
    OBVIOUS
  <1>2. <<"key">> \in Seq(Words)
    OBVIOUS
  <1>3. <<"reseed">> \in Seq(Words)
    OBVIOUS
  <1>4. <<"delta">> \in Seq(Words)
    OBVIOUS
  <1>5. <<"send">> \in Seq(Words)
    OBVIOUS
  <1>6. <<"commit">> \in Seq(Words)
    OBVIOUS
  <1>7. <<"drop">> \in Seq(Words)
    OBVIOUS
  <1>8. <<"advance", "bound", "close">> \in Seq(Words)
    OBVIOUS
  <1>9. <<"bound", "close">> \in Seq(Words)
    OBVIOUS
  <1>10. <<"close">> \in Seq(Words)
    OBVIOUS
  <1>11. <<"advance", "bound", "close", "reseed">> \in Seq(Words)
    OBVIOUS
  <1>12. <<"bound", "close", "reseed">> \in Seq(Words)
    OBVIOUS
  <1>13. <<"close", "reseed">> \in Seq(Words)
    OBVIOUS
  <1>14. <<"advance", "bound", "close", "drop">> \in Seq(Words)
    OBVIOUS
  <1>15. <<"bound", "close", "drop">> \in Seq(Words)
    OBVIOUS
  <1>16. <<"close", "drop">> \in Seq(Words)
    OBVIOUS
  <1> HIDE DEF Words
  <1>20. u \in Seq(Words)
    BY <1>0, <1>1, <1>2, <1>3, <1>4, <1>5, <1>6, <1>7, <1>8, <1>9, <1>10, <1>11, <1>12, <1>13, <1>14,
       <1>15, <1>16 DEF Todos
  <1> QED
    BY <1>20, ConcatEmptySeq

LEMMA AdvanceKeeps ==
  ASSUME MirrorInv, Advance
  PROVE  MirrorInv'
  <1> USE DEF MirrorInv
  <1>0. st \in STAs /\ mb \in Mailboxes /\ wk \in Workers /\ ses \in Sessions /\ past \in Ghosts
        /\ env \in [ops : Nat, faults : Nat]
    BY DEF MirrorTypeOK
  <1>1. Doing = "advance" /\ First(Tail(st.todo)) \in {"key", "bound"} /\ Tail(st.todo) \in Todos
    BY Accessing DEF Advance
  <1>2. PICK u \in Todos, g \in Nat : u = Tail(st.todo) /\ g = mb.gen + 1 /\ g > mb.gen
    <2>1. mb.gen \in Nat
      BY <1>0 DEF Mailboxes
    <2>2. mb.gen + 1 \in Nat /\ mb.gen + 1 > mb.gen
      BY <2>1
    <2> QED
      BY <1>1, <2>2
  <1>3. st' \in STAs /\ st'.todo = u /\ st'.gen = g /\ st'.composing = st.composing
          /\ st'.intent = st.intent
    <2>1. st' = [st EXCEPT !.todo = u, !.gen = g]
      BY <1>2 DEF Advance
    <2> QED
      BY <1>0, <2>1 DEF STAs
  <1>4. mb' \in Mailboxes /\ mb'.gen = g /\ mb'.phase = "dirty" /\ mb'.bound = mb.bound
          /\ mb'.queue = mb.queue
        /\ mb'.dropped = mb.dropped
    <2>1. mb' = [mb EXCEPT !.gen = g, !.phase = "dirty"]
      BY <1>2 DEF Advance
    <2>2. g \in Nat \ {0} /\ "dirty" \in Phases
      BY <1>0, <1>2 DEF Mailboxes, Phases
    <2> QED
      BY <1>0, <2>1, <2>2 DEF Mailboxes
  <1>5. past' \in Ghosts /\ wk' = wk /\ ses' = ses /\ env' = env
    BY <1>0 DEF Advance, Ghosts
  <1>6. MirrorTypeOK'
    BY <1>0, <1>3, <1>4, <1>5 DEF MirrorTypeOK
  <1>7. Doing' \in {"key", "bound"}
    BY <1>1, <1>2, <1>3 DEF Doing
  <1>8. Line' = Line
    BY <1>1, <1>4, <1>5, <1>7 DEF Line, OnTheWay
  <1>9. Ordered(Line, g) /\ Aged(Line, g) /\ \A K : ~Carries(Line, g, K)
    <2>1. Line \in Seq(Intents)
      BY TheLine
    <2>2. Aged(Line, mb.gen)
      BY DEF Lines, Aged
    <2>3. mb.gen \in Nat
      BY <1>0 DEF Mailboxes
    <2> QED
      BY <1>2, <2>1, <2>2, <2>3, NewGeneration
  <1>10. Calls'
    <2>1. mb.gen \in Nat /\ mb.bound \in Nat
      BY <1>0 DEF Mailboxes
    <2>2. ~mb.dropped
      BY DEF Calls, Advance
    <2> QED
      BY <1>2, <1>3, <1>4, <1>7, <2>1, <2>2 DEF Calls
  <1>11. Works'
    <2>1. mb.gen \in Nat /\ wk.gen \in Nat
      BY <1>0 DEF Mailboxes, Workers
    <2>2. wk.gen < g
      BY <1>2, <2>1 DEF Works
    <2>3. wk.pc \in {"got", "apply", "failed", "failed_bound", "closing", "sync"}
          => wk.intent \in Intents /\ wk.intent.gen <= g
      BY <1>2, <2>1 DEF Works, Intents, Held
    <2> QED
      BY <1>4, <1>5, <2>1, <2>2, <2>3 DEF Works
  <1>12. Lines'
    BY <1>4, <1>5, <1>8, <1>9 DEF Lines, Aged
  <1>13. Faithful'
    BY <1>4 DEF Faithful
  <1> QED
    BY <1>6, <1>10, <1>11, <1>12, <1>13

LEMMA MaxOfTwo ==
  ASSUME NEW a \in Nat, NEW b \in Nat
  PROVE  Max({a, b}) \in Nat /\ Max({a, b}) \in {a, b}
  <1>1. \E x \in {a, b} : \A y \in {a, b} : x >= y
    OBVIOUS
  <1> QED
    BY <1>1 DEF Max

(* A step of the STA that leaves the word and the line as they are.        *)
LEMMA AccessKeeps ==
  ASSUME MirrorInv, MirrorTypeOK', mb'.gen = mb.gen, mb'.phase = mb.phase, mb'.bound <= mb.gen,
         mb'.dropped => mb'.phase = "dirty" /\ st'.todo = <<>>,
         wk' = wk, ses' = ses, past'.last = past.last, past.missed => past'.missed,
         Line' = Line, Doing \notin {"advance", "commit"},
         Doing' \notin {"advance", "key", "commit"},
         Doing' = "send" => st'.intent \in Intents,
         Doing' \in {"bound", "close"} => st'.gen <= mb.gen,
         Doing' \in {"bound", "close", "drop"} => mb.phase = "dirty",
         Doing' = "delta" => st'.composing /\ st'.reading = Append(Front(st'.reading), st'.key)
             /\ Front(st'.reading) \in Seq(Nat),
         mb.phase = "terminal" => ~st'.composing,
         mb.phase # "dirty" /\ ~past'.missed /\ Doing' # "reseed" => Doing # "reseed" /\ Target' = Target
  PROVE  MirrorInv'
  <1> USE DEF MirrorInv
  <1>1. Calls'
    BY DEF Calls
  <1>2. Works'
    BY DEF Works
  <1>3. Lines'
    BY DEF Lines
  <1>4. Faithful'
    <2>1. past.missed \in BOOLEAN /\ past'.missed \in BOOLEAN
      BY DEF MirrorTypeOK, Ghosts
    <2> SUFFICES ASSUME mb.phase # "dirty", ~past'.missed, Doing' # "reseed",
                        Carries(Line, mb.gen, {"reseed"}) \/ (wk.gen = mb.gen /\ wk.pc # "failed")
                 PROVE  Replayed(mb.gen, IF wk.gen = mb.gen THEN ses.text ELSE <<>>, Line) = Target'
      BY DEF Faithful
    <2>2. Doing # "reseed" /\ Target' = Target /\ ~past.missed
      BY <2>1
    <2> QED
      BY <2>2 DEF Faithful
  <1> QED
    BY <1>1, <1>2, <1>3, <1>4

LEMMA BoundKeeps ==
  ASSUME MirrorInv, Bound
  PROVE  MirrorInv'
  <1> USE DEF MirrorInv
  <1>0. st \in STAs /\ mb \in Mailboxes /\ wk \in Workers /\ ses \in Sessions /\ past \in Ghosts
        /\ env \in [ops : Nat, faults : Nat]
    BY DEF MirrorTypeOK
  <1>1. Doing = "bound" /\ First(Tail(st.todo)) = "close" /\ Tail(st.todo) \in Todos
    BY Accessing DEF Bound, Access
  <1>2. PICK u \in Todos, b \in Nat : u = Tail(st.todo) /\ b = Max({mb.bound, st.gen}) /\ b <= mb.gen
    <2>1. mb.bound \in Nat /\ st.gen \in Nat
      BY <1>0 DEF Mailboxes, STAs
    <2>2. Max({mb.bound, st.gen}) \in Nat /\ Max({mb.bound, st.gen}) \in {mb.bound, st.gen}
      BY <2>1, MaxOfTwo
    <2>3. mb.bound <= mb.gen /\ st.gen <= mb.gen
      BY <1>1 DEF Calls
    <2> QED
      BY <1>1, <2>2, <2>3
  <1>3. st' \in STAs /\ st'.todo = u /\ st'.gen = st.gen /\ st'.composing = st.composing
          /\ st'.reading = st.reading
    <2>1. <<>> \o u = u
      BY NothingFirst
    <2>2. st' = [st EXCEPT !.todo = u]
      BY <1>2, <2>1 DEF Bound, Access
    <2> QED
      BY <1>0, <2>2 DEF STAs
  <1>4. mb' \in Mailboxes /\ mb'.gen = mb.gen /\ mb'.phase = mb.phase /\ mb'.bound = b
          /\ mb'.queue = mb.queue
        /\ mb'.dropped = mb.dropped
    <2>1. mb' = [mb EXCEPT !.bound = b]
      BY <1>2 DEF Bound
    <2> QED
      BY <1>0, <2>1 DEF Mailboxes
  <1>5. past' = past /\ wk' = wk /\ ses' = ses /\ env' = env
    BY DEF Bound, Access
  <1>6. MirrorTypeOK'
    BY <1>0, <1>3, <1>4, <1>5 DEF MirrorTypeOK
  <1>7. Doing' = "close"
    BY <1>1, <1>2, <1>3 DEF Doing
  <1>8. Line' = Line
    BY <1>1, <1>4, <1>5, <1>7 DEF Line, OnTheWay
  <1>9. mb.phase = "dirty" /\ st.gen <= mb.gen /\ ~mb.dropped
    BY <1>1 DEF Calls, Doing, First
  <1> QED
    BY <1>1, <1>2, <1>3, <1>4, <1>5, <1>6, <1>7, <1>8, <1>9, AccessKeeps

LEMMA SendCloseKeeps ==
  ASSUME MirrorInv, SendClose
  PROVE  MirrorInv'
  <1> USE DEF MirrorInv
  <1>0. st \in STAs /\ mb \in Mailboxes /\ wk \in Workers /\ ses \in Sessions /\ past \in Ghosts
        /\ env \in [ops : Nat, faults : Nat]
    BY DEF MirrorTypeOK
  <1>1. Doing = "close" /\ First(Tail(st.todo)) \in {"nothing", "reseed", "drop"} /\ Tail(st.todo) \in Todos
    BY Accessing DEF SendClose, Access
  <1>2. PICK u \in Todos, i \in Intents : u = Tail(st.todo)
          /\ i = [NoIntent EXCEPT !.gen = st.gen, !.kind = "close"]
                                          /\ i.gen = st.gen /\ i.kind = "close"
    <2>1. st.gen \in Nat
      BY <1>0 DEF STAs
    <2>2. <<>> \in Seq(Nat)
      BY EmptySeq
    <2>3. PICK none \in Seq(Nat) : none = <<>>
      BY <2>2
    <2>4. PICK n \in Held : n = NoIntent
      <3>1. [gen |-> 0, kind |-> "none", text |-> none] \in Held
        BY <2>3 DEF Held
      <3>2. NoIntent = [gen |-> 0, kind |-> "none", text |-> none]
        BY <2>3, Zenon DEF NoIntent
      <3> QED
        BY <3>1, <3>2
    <2>5. PICK i : i = [n EXCEPT !.gen = st.gen, !.kind = "close"]
      OBVIOUS
    <2>6. i \in Held /\ i.gen = st.gen /\ i.kind = "close"
      BY <2>1, <2>5 DEF Held, Kinds
    <2>7. i \in Intents
      BY <2>6 DEF Intents
    <2> QED
      BY <1>1, <2>4, <2>5, <2>6, <2>7
  <1>3. st' \in STAs /\ st'.todo = u /\ st'.gen = st.gen /\ st'.composing = st.composing
          /\ st'.reading = st.reading
    <2>1. <<>> \o u = u
      BY NothingFirst
    <2>2. st' = [st EXCEPT !.todo = u]
      BY <1>2, <2>1 DEF SendClose, Access
    <2> QED
      BY <1>0, <2>2 DEF STAs
  <1>4. PICK q \in Seq(Intents) : q = IF Receiving THEN Append(mb.queue, i) ELSE mb.queue
    <2>1. mb.queue \in Seq(Intents)
      BY <1>0 DEF Mailboxes
    <2>2. Append(mb.queue, i) \in Seq(Intents)
      BY <2>1, AppendProperties
    <2> QED
      BY <2>1, <2>2
  <1>5. mb' \in Mailboxes /\ mb'.gen = mb.gen /\ mb'.phase = mb.phase /\ mb'.bound = mb.bound
          /\ mb'.queue = q
        /\ mb'.dropped = mb.dropped
    <2>1. mb' = [mb EXCEPT !.queue = q]
      BY <1>2, <1>4 DEF SendClose
    <2> QED
      BY <1>0, <2>1 DEF Mailboxes
  <1>6. past' = past /\ wk' = wk /\ ses' = ses /\ env' = env
    BY DEF SendClose, Access
  <1>7. MirrorTypeOK'
    BY <1>0, <1>3, <1>5, <1>6 DEF MirrorTypeOK
  <1>8. Doing' \in {"nothing", "reseed", "drop"}
    BY <1>1, <1>2, <1>3 DEF Doing
  <1>9. mb.phase = "dirty" /\ st.gen <= mb.gen /\ ~mb.dropped
    BY <1>1 DEF Calls, Doing, First
  <1>10. CASE ~Receiving
    <2>1. Line' = Line
      BY <1>1, <1>4, <1>5, <1>6, <1>8, <1>10 DEF Line, OnTheWay
    <2>2. mb.bound <= mb.gen
      BY DEF Calls
    <2> QED
      BY <1>1, <1>5, <1>6, <1>7, <1>8, <1>9, <2>1, <2>2, AccessKeeps
  <1>11. CASE Receiving
    <2>1. q = Append(mb.queue, i) /\ mb.queue \in Seq(Intents)
      BY <1>0, <1>4, <1>11 DEF Mailboxes
    <2>2. OnTheWay' = Append(OnTheWay, i)
      <3>1. CASE wk.pc \in {"got", "apply"}
        <4>1. wk.intent \in Intents /\ OnTheWay = <<wk.intent>> \o mb.queue
          BY <3>1, TheLine
        <4>2. OnTheWay' = <<wk.intent>> \o q
          BY <1>5, <1>6, <3>1 DEF OnTheWay
        <4> QED
          BY <2>1, <4>1, <4>2, LineEnds
      <3>2. CASE wk.pc \notin {"got", "apply"}
        <4>1. OnTheWay = mb.queue
          BY <3>2, TheLine
        <4>2. OnTheWay' = <<>> \o q
          BY <1>5, <1>6, <3>2 DEF OnTheWay
        <4> QED
          BY <2>1, <4>1, <4>2, ConcatEmptySeq
      <3> QED
        BY <3>1, <3>2
    <2>3. OnTheWay \in Seq(Intents) /\ Line = OnTheWay
      BY <1>1, TheLine
    <2>4. Append(OnTheWay, i) \in Seq(Intents)
      BY <2>3, AppendProperties
    <2>5. Line' = Append(Line, i)
      <3>1. Append(OnTheWay, i) \o <<>> = Append(OnTheWay, i)
        BY <2>4, ConcatEmptySeq
      <3>2. Line' = OnTheWay' \o <<>>
        BY <1>8 DEF Line
      <3> QED
        BY <2>2, <2>3, <3>1, <3>2
    <2>6. PICK l \in Seq(Intents) : l = Line
      BY <2>3
    <2>7. \A K : Carries(Append(l, i), mb.gen, K) <=>
            Carries(l, mb.gen, K) \/ (i.gen = mb.gen /\ i.kind \in K)
      BY CarriesAppend
    <2>8. ~Carries(l, mb.gen, {"reseed", "delta", "commit"}) /\ ~Carries(l, mb.gen, {"commit"})
      BY <1>9, <2>6 DEF Lines, Carries
    <2>9. Ordered(Append(l, i), mb.gen) /\ Aged(Append(l, i), mb.gen)
      <3>1. Ordered(l, mb.gen) /\ Aged(l, mb.gen) /\ mb.gen \in Nat
        BY <1>0, <2>6 DEF Lines, Aged, Mailboxes
      <3> QED
        BY <1>2, <1>9, <2>8, <3>1, OrderedAppend
    <2>10. Lines'
      BY <1>2, <1>5, <1>9, <2>5, <2>6, <2>7, <2>8, <2>9 DEF Lines, Aged
    <2>11. Calls'
      BY <1>3, <1>5, <1>8, <1>9 DEF Calls
    <2>12. Works'
      BY <1>2, <1>5, <1>6, <1>9, <2>5, <2>6, <2>7 DEF Works
    <2>13. Faithful'
      BY <1>5, <1>9 DEF Faithful
    <2> QED
      BY <1>7, <2>10, <2>11, <2>12, <2>13
  <1> QED
    BY <1>10, <1>11

LEMMA TakeKeyKeeps ==
  ASSUME MirrorInv, TakeKey
  PROVE  MirrorInv'
  <1> USE DEF MirrorInv
  <1>0. st \in STAs /\ mb \in Mailboxes /\ wk \in Workers /\ ses \in Sessions /\ past \in Ghosts
        /\ env \in [ops : Nat, faults : Nat]
    BY DEF MirrorTypeOK
  <1>1. Doing = "key" /\ Tail(st.todo) = <<>>
    BY Accessing DEF TakeKey
  <1> DEFINE reseed == st.cursor \/ mb.phase = "dirty"
  <1>2. PICK r \in Seq(Nat) :
          /\ r = IF st.cursor THEN <<st.key>> \o st.reading ELSE Append(st.reading, st.key)
          /\ ~st.cursor => r = Append(st.reading, st.key)
    <2>1. st.key \in Nat /\ st.reading \in Seq(Nat)
      BY <1>0 DEF STAs
    <2>2. PICK s : s = <<st.key>>
      OBVIOUS
    <2>3. s \in Seq(Nat)
      BY <2>1, <2>2
    <2>4. s \o st.reading \in Seq(Nat)
      BY <2>1, <2>3, ConcatProperties
    <2>5. Append(st.reading, st.key) \in Seq(Nat)
      BY <2>1, AppendProperties
    <2> QED
      BY <2>2, <2>4, <2>5
  <1>3. PICK u \in Todos : u = <<IF reseed THEN "reseed" ELSE "delta">>
          /\ First(u) = IF reseed THEN "reseed" ELSE "delta"
    BY Firsts
  <1>4. st' \in STAs /\ st'.todo = u /\ st'.composing = TRUE /\ st'.reading = r /\ st'.key = st.key
          /\ st'.intent = st.intent
    <2>1. <<IF reseed THEN "reseed" ELSE "delta">> \o <<>> = u
      BY <1>3, Single
    <2>2. st' = [st EXCEPT !.composing = TRUE, !.reading = r, !.todo = u]
      BY <1>1, <1>2, <2>1 DEF TakeKey
    <2> HIDE DEF reseed
    <2> QED
      BY <1>0, <2>2 DEF STAs
  <1>5. mb' = mb /\ wk' = wk /\ ses' = ses /\ env' = env /\ past' = past
    BY DEF TakeKey
  <1>6. MirrorTypeOK'
    BY <1>0, <1>4, <1>5 DEF MirrorTypeOK
  <1>7. Doing' = First(u)
    BY <1>4 DEF Doing
  <1>8. Line' = Line
    BY <1>1, <1>3, <1>5, <1>7 DEF Line, OnTheWay
  <1>9. Doing' # "reseed" => /\ mb.phase # "dirty" /\ ~st.cursor
                             /\ Front(r) = st.reading /\ r = Append(st.reading, st.key)
                                  /\ st.reading \in Seq(Nat)
    <2> SUFFICES ASSUME Doing' # "reseed"
                 PROVE  /\ mb.phase # "dirty" /\ ~st.cursor
                        /\ Front(r) = st.reading /\ r = Append(st.reading, st.key)
                             /\ st.reading \in Seq(Nat)
      OBVIOUS
    <2>1. mb.phase # "dirty" /\ ~st.cursor
      BY <1>3, <1>7
    <2>2. st.key \in Nat /\ st.reading \in Seq(Nat)
      BY <1>0 DEF STAs
    <2> QED
      BY <1>2, <2>1, <2>2, Lengthened
  <1>10. mb.phase # "terminal" /\ ~mb.dropped /\ mb.bound <= mb.gen
    BY <1>1 DEF Calls, Doing, First
  <1>11. mb.phase # "dirty" /\ Doing' # "reseed" => Target' = Target
    <2> SUFFICES ASSUME mb.phase # "dirty", Doing' # "reseed" PROVE Target' = Target
      OBVIOUS
    <2>1. Doing' = "delta"
      BY <1>3, <1>7
    <2>2. Target' = Front(r)
      BY <1>4, <1>5, <1>10, <2>1 DEF Target
    <2>3. Target = st.reading
      BY <1>1, <1>10 DEF Target
    <2> QED
      BY <1>9, <2>2, <2>3
  <1>12. Doing' \in {"reseed", "delta"}
    BY <1>3, <1>7
  <1>13. Doing' = "delta" => st'.composing /\ st'.reading = Append(Front(st'.reading), st'.key)
           /\ Front(st'.reading) \in Seq(Nat)
    BY <1>4, <1>9
  <1> QED
    BY <1>1, <1>5, <1>6, <1>8, <1>10, <1>11, <1>12, <1>13, AccessKeeps

(* A send that the call is about to make counts as on its way.             *)
LEMMA NewIntent ==
  ASSUME NEW g \in Nat, NEW k \in Kinds, k # "commit", NEW x \in Seq(Nat)
  PROVE  \E i \in Intents : i = [gen |-> g, kind |-> k, text |-> x] /\ i.gen = g /\ i.kind = k /\ i.text = x
  <1>1. PICK i : i = [gen |-> g, kind |-> k, text |-> x]
    OBVIOUS
  <1>2. i \in Held /\ i.gen = g /\ i.kind = k /\ i.text = x
    BY <1>1 DEF Held
  <1>3. k # "none"
    BY DEF Kinds
  <1>4. i \in Intents
    BY <1>2, <1>3 DEF Intents
  <1> QED
    BY <1>1, <1>2, <1>4

LEMMA SendPrepared ==
  ASSUME MirrorTypeOK, Calls, Works, Doing # "send", NEW i \in Intents, st'.intent = i, Doing' = "send",
         mb'.queue = mb.queue, wk' = wk
  PROVE  Line' = Append(Line, i) /\ Line \in Seq(Intents)
  <1>1. Line \in Seq(Intents) /\ Line = OnTheWay
    BY TheLine
  <1>2. OnTheWay' = OnTheWay
    BY DEF OnTheWay
  <1>3. Line' = OnTheWay \o <<i>>
    BY <1>2 DEF Line
  <1> QED
    BY <1>1, <1>3, LineEnds

LEMMA Prepared ==
  ASSUME MirrorInv, MirrorTypeOK', NEW i \in Intents, st'.intent = i, Doing' = "send", i.gen = mb.gen,
         Doing \in {"reseed", "delta", "commit"},
         mb'.gen = mb.gen, mb'.queue = mb.queue, mb'.bound = mb.bound, mb'.dropped = mb.dropped,
         wk' = wk, ses' = ses, past' = past, st'.composing = st.composing, mb'.phase # "dirty",
         \/ /\ i.kind = "reseed" /\ mb.phase = "dirty" /\ mb'.phase = "reseed_queued" /\ i.text = Target'
         \/ /\ i.kind = "delta" /\ mb.phase \in Fed /\ mb'.phase = mb.phase /\ Doing = "delta"
            /\ Target' = Target \o i.text
         \/ /\ i.kind = "commit" /\ mb.phase \in Fed /\ mb'.phase = "terminal" /\ Doing = "commit"
            /\ Target' = Target /\ ~st.composing
  PROVE  MirrorInv'
  <1> USE DEF MirrorInv
  <1>1. Line' = Append(Line, i) /\ Line \in Seq(Intents)
    BY SendPrepared
  <1>2. PICK l \in Seq(Intents), g \in Nat : l = Line /\ g = mb.gen
    BY <1>1 DEF MirrorTypeOK, Mailboxes
  <1>3. \A K : Carries(Append(l, i), g, K) <=> Carries(l, g, K) \/ (i.gen = g /\ i.kind \in K)
    BY CarriesAppend
  <1>4. \A b : Replayed(g, b, Append(l, i)) = Followed(g, Replayed(g, b, l), i)
    BY ReplayedAppend
  <1>5. ~Carries(l, g, {"commit"})
    BY <1>2 DEF Lines, Carries, Fed
  <1>6. i.kind = "reseed" => ~Carries(l, g, {"reseed", "delta", "commit"})
    BY <1>2 DEF Lines, Fed
  <1>7. Ordered(Append(l, i), g) /\ Aged(Append(l, i), g)
    <2>1. Ordered(l, g) /\ Aged(l, g) /\ g \in Nat /\ i.gen <= g
      BY <1>2 DEF Lines, Aged
    <2>2. i.kind # "close"
      OBVIOUS
    <2> QED
      BY <1>5, <1>6, <2>1, <2>2, OrderedAppend
  <1>8. ~mb.dropped
    BY DEF Calls, Doing, First
  <1>9. Calls'
    BY <1>2, <1>8 DEF Calls, Fed
  <1>10. Works'
    <2>1. wk.pc = "closing" /\ wk.gen = mb.gen => FALSE
      BY DEF Works, Fed
    <2> QED
      BY <2>1 DEF Works
  <1>11. Lines'
    <2>1. mb.phase # "dirty" => mb.phase \in Fed
      OBVIOUS
    <2>2. i.kind = "delta" \/ i.kind = "commit" => 
             /\ Carries(l, g, {"close"}) => Carries(l, g, {"reseed"})
             /\ Carries(l, g, {"reseed"}) \/ wk.gen = g
      BY <1>2 DEF Lines, Fed
    <2>3. Carries(Append(l, i), g, {"close"}) <=> Carries(l, g, {"close"})
      BY <1>3
    <2>4. Carries(Append(l, i), g, {"reseed"}) <=> Carries(l, g, {"reseed"}) \/ i.kind = "reseed"
      BY <1>2, <1>3
    <2>5. Carries(Append(l, i), g, {"commit"}) => mb'.phase = "terminal"
      BY <1>3, <1>5
    <2> QED
      BY <1>1, <1>2, <1>7, <2>2, <2>3, <2>4, <2>5 DEF Lines, Aged
  <1>12. Faithful'
    <2> DEFINE base == IF wk.gen = g THEN ses.text ELSE <<>>
    <2> SUFFICES ASSUME ~past.missed,
                        Carries(Append(l, i), g, {"reseed"}) \/ (wk.gen = g /\ wk.pc # "failed")
                 PROVE  Replayed(g, base, Append(l, i)) = Target'
      BY <1>1, <1>2 DEF Faithful
    <2>1. Replayed(g, base, Append(l, i)) = Followed(g, Replayed(g, base, l), i)
      BY <1>4
    <2>2. CASE i.kind = "reseed"
      BY <1>2, <2>1, <2>2 DEF Followed, Reseeds
    <2>3. CASE i.kind # "reseed"
      <3>1. Carries(l, g, {"reseed"}) \/ (wk.gen = g /\ wk.pc # "failed")
        BY <1>3, <2>3
      <3>2. Replayed(g, base, l) = Target
        BY <1>2, <2>3, <3>1 DEF Faithful, Fed
      <3> HIDE DEF base
      <3> QED
        BY <1>2, <2>1, <2>3, <3>2 DEF Followed, Reseeds
    <2> QED
      BY <2>2, <2>3
  <1> QED
    BY <1>9, <1>10, <1>11, <1>12

LEMMA ReseedKeeps ==
  ASSUME MirrorInv, Reseed
  PROVE  MirrorInv'
  <1> USE DEF MirrorInv
  <1>0. st \in STAs /\ mb \in Mailboxes /\ wk \in Workers /\ ses \in Sessions /\ past \in Ghosts
        /\ env \in [ops : Nat, faults : Nat]
    BY DEF MirrorTypeOK
  <1>1. Doing = "reseed" /\ Tail(st.todo) = <<>> /\ wk' = wk /\ ses' = ses /\ env' = env
    BY Accessing DEF Reseed
  <1>2. CASE mb.phase = "dirty"
    <2>1. PICK u \in Todos : u = <<"send">> /\ First(u) = "send"
      BY Firsts
    <2>2. PICK i \in Intents : i = [gen |-> mb.gen, kind |-> "reseed", text |-> st.reading]
                               /\ i.gen = mb.gen /\ i.kind = "reseed" /\ i.text = st.reading
      <3>1. mb.gen \in Nat /\ st.reading \in Seq(Nat)
        BY <1>0 DEF Mailboxes, STAs
      <3>2. "reseed" \in Kinds
        BY DEF Kinds
      <3> QED
        BY <3>1, <3>2, NewIntent
    <2>3. st' \in STAs /\ st'.todo = u /\ st'.intent = i /\ st'.composing = st.composing
            /\ st'.reading = st.reading
      <3>1. <<"send">> \o <<>> = u
        BY <2>1, Single
      <3>2. st' = [st EXCEPT !.todo = u, !.intent = i]
        BY <1>1, <1>2, <2>2, <3>1 DEF Reseed
      <3>3. i \in Held
        BY DEF Intents
      <3> QED
        BY <1>0, <3>2, <3>3 DEF STAs
    <2>4. mb' \in Mailboxes /\ mb'.gen = mb.gen /\ mb'.phase = "reseed_queued" /\ mb'.bound = mb.bound
            /\ mb'.queue = mb.queue
          /\ mb'.dropped = mb.dropped
      <3>1. mb' = [mb EXCEPT !.phase = "reseed_queued"]
        BY <1>2 DEF Reseed
      <3> QED
        BY <1>0, <3>1 DEF Mailboxes, Phases
    <2>5. past' = past
      BY <1>2 DEF Reseed
    <2>6. MirrorTypeOK'
      BY <1>0, <1>1, <2>3, <2>4, <2>5 DEF MirrorTypeOK
    <2>7. Doing' = "send"
      BY <2>1, <2>3 DEF Doing
    <2>8. i.text = Target'
      BY <2>2, <2>3, <2>4, <2>7 DEF Target
    <2> QED
      BY <1>1, <1>2, <2>2, <2>3, <2>4, <2>5, <2>6, <2>7, <2>8, Prepared
  <1>3. CASE mb.phase # "dirty"
    <2>1. PICK u \in Todos : u = <<>> /\ First(u) = "nothing"
      BY Firsts
    <2>2. st' \in STAs /\ st'.todo = u /\ st'.composing = st.composing
      <3>1. st' = [st EXCEPT !.todo = u]
        BY <1>1, <1>3, <2>1 DEF Reseed
      <3> QED
        BY <1>0, <3>1 DEF STAs
    <2>3. past' \in Ghosts /\ past'.missed = TRUE /\ past'.last = past.last /\ mb' = mb
      BY <1>0, <1>3 DEF Reseed, Ghosts
    <2>4. MirrorTypeOK'
      BY <1>0, <1>1, <2>2, <2>3 DEF MirrorTypeOK
    <2>5. Doing' = "nothing"
      BY <2>1, <2>2 DEF Doing
    <2>6. Line' = Line
      BY <1>1, <2>3, <2>5 DEF Line, OnTheWay
    <2>7. ~mb.dropped /\ mb.bound <= mb.gen /\ (mb.phase = "terminal" => ~st.composing)
      BY <1>1 DEF Calls, Doing, First
    <2> QED
      BY <1>1, <2>2, <2>3, <2>4, <2>5, <2>6, <2>7, AccessKeeps
  <1> QED
    BY <1>2, <1>3

LEMMA DeltaKeeps ==
  ASSUME MirrorInv, Delta
  PROVE  MirrorInv'
  <1> USE DEF MirrorInv
  <1>0. st \in STAs /\ mb \in Mailboxes /\ wk \in Workers /\ ses \in Sessions /\ past \in Ghosts
        /\ env \in [ops : Nat, faults : Nat]
    BY DEF MirrorTypeOK
  <1>1. Doing = "delta" /\ Tail(st.todo) = <<>> /\ mb' = mb /\ wk' = wk /\ ses' = ses /\ env' = env
          /\ past' = past
    BY Accessing DEF Delta
  <1>2. CASE mb.phase \in Fed
    <2>1. PICK u \in Todos : u = <<"send">> /\ First(u) = "send"
      BY Firsts
    <2>2. st.key \in Nat /\ st.reading = Append(Front(st.reading), st.key) /\ Front(st.reading) \in Seq(Nat)
      BY <1>0, <1>1 DEF Calls, STAs
    <2>3. PICK s \in Seq(Nat) : s = <<st.key>>
      <3>1. PICK s : s = <<st.key>>
        OBVIOUS
      <3>2. s \in Seq(Nat)
        BY <2>2, <3>1
      <3> QED
        BY <3>1, <3>2
    <2>4. PICK i \in Intents : i = [gen |-> mb.gen, kind |-> "delta", text |-> s]
                               /\ i.gen = mb.gen /\ i.kind = "delta" /\ i.text = s
      <3>1. mb.gen \in Nat
        BY <1>0 DEF Mailboxes
      <3>2. "delta" \in Kinds
        BY DEF Kinds
      <3> QED
        BY <3>1, <3>2, NewIntent
    <2>5. st' \in STAs /\ st'.todo = u /\ st'.intent = i /\ st'.composing = st.composing
            /\ st'.reading = st.reading
      <3>1. <<"send">> \o <<>> = u
        BY <2>1, Single
      <3>2. st' = [st EXCEPT !.todo = u, !.intent = i]
        BY <1>1, <1>2, <2>3, <2>4, <3>1 DEF Delta
      <3>3. i \in Held
        BY DEF Intents
      <3> QED
        BY <1>0, <3>2, <3>3 DEF STAs
    <2>6. MirrorTypeOK'
      BY <1>0, <1>1, <2>5 DEF MirrorTypeOK
    <2>7. Doing' = "send"
      BY <2>1, <2>5 DEF Doing
    <2>8. mb.phase # "terminal" /\ mb.phase # "dirty"
      BY <1>2 DEF Fed
    <2>9. Target' = Target \o i.text
      <3>1. Target' = st.reading
        BY <1>1, <2>5, <2>7, <2>8 DEF Target
      <3>2. Target = Front(st.reading)
        BY <1>1, <2>8 DEF Target
      <3>3. PICK f \in Seq(Nat) : f = Front(st.reading)
        BY <2>2
      <3>4. Append(f, st.key) = f \o s
        BY <2>2, <2>3, Lengthened
      <3> QED
        BY <2>2, <2>4, <3>1, <3>2, <3>3, <3>4
    <2> QED
      BY <1>1, <1>2, <2>4, <2>5, <2>6, <2>7, <2>8, <2>9, Prepared
  <1>3. CASE mb.phase \notin Fed
    <2>1. PICK u \in Todos : u = <<>> /\ First(u) = "nothing"
      BY Firsts
    <2>2. st' \in STAs /\ st'.todo = u /\ st'.composing = st.composing
      <3>1. st' = [st EXCEPT !.todo = u]
        BY <1>1, <1>3, <2>1 DEF Delta
      <3> QED
        BY <1>0, <3>1 DEF STAs
    <2>3. MirrorTypeOK'
      BY <1>0, <1>1, <2>2 DEF MirrorTypeOK
    <2>4. Doing' = "nothing"
      BY <2>1, <2>2 DEF Doing
    <2>5. Line' = Line
      BY <1>1, <2>4 DEF Line, OnTheWay
    <2>6. ~mb.dropped /\ mb.bound <= mb.gen /\ (mb.phase = "terminal" => ~st.composing) /\ st.composing
      BY <1>1 DEF Calls, Doing, First
    <2>7. mb.phase = "dirty"
      BY <1>0, <1>3, <2>6 DEF Mailboxes, Phases, Fed
    <2> QED
      BY <1>1, <2>2, <2>3, <2>4, <2>5, <2>6, <2>7, AccessKeeps
  <1> QED
    BY <1>2, <1>3

LEMMA CommitKeeps ==
  ASSUME MirrorInv, Commit
  PROVE  MirrorInv'
  <1> USE DEF MirrorInv
  <1>0. st \in STAs /\ mb \in Mailboxes /\ wk \in Workers /\ ses \in Sessions /\ past \in Ghosts
        /\ env \in [ops : Nat, faults : Nat]
    BY DEF MirrorTypeOK
  <1>1. Doing = "commit" /\ Tail(st.todo) = <<>> /\ wk' = wk /\ ses' = ses /\ env' = env /\ past' = past
    BY Accessing DEF Commit
  <1>2. CASE mb.phase \in Fed
    <2>1. PICK u \in Todos : u = <<"send">> /\ First(u) = "send"
      BY Firsts
    <2>2. PICK i \in Intents : i = [NoIntent EXCEPT !.gen = mb.gen, !.kind = "commit"]
                               /\ i.gen = mb.gen /\ i.kind = "commit"
      <3>1. mb.gen \in Nat
        BY <1>0 DEF Mailboxes
      <3>2. PICK none \in Seq(Nat) : none = <<>>
        BY EmptySeq
      <3>3. PICK n \in Held : n = NoIntent /\ n.text = none
        <4>1. PICK n : n = [gen |-> 0, kind |-> "none", text |-> none]
          OBVIOUS
        <4>2. n \in Held /\ n.text = none
          BY <4>1 DEF Held
        <4>3. NoIntent = [gen |-> 0, kind |-> "none", text |-> none]
          BY <3>2, Zenon DEF NoIntent
        <4> QED
          BY <4>1, <4>2, <4>3
      <3>4. PICK i : i = [n EXCEPT !.gen = mb.gen, !.kind = "commit"]
        OBVIOUS
      <3>5. i \in Held /\ i.gen = mb.gen /\ i.kind = "commit" /\ i.text = none
        BY <3>1, <3>3, <3>4 DEF Held, Kinds
      <3>6. i \in Intents
        BY <3>2, <3>5 DEF Intents
      <3> QED
        BY <3>3, <3>4, <3>5, <3>6
    <2>3. st' \in STAs /\ st'.todo = u /\ st'.intent = i /\ st'.composing = st.composing
      <3>1. <<"send">> \o <<>> = u
        BY <2>1, Single
      <3>2. st' = [st EXCEPT !.todo = u, !.intent = i]
        BY <1>1, <1>2, <2>2, <3>1 DEF Commit
      <3>3. i \in Held
        BY DEF Intents
      <3> QED
        BY <1>0, <3>2, <3>3 DEF STAs
    <2>4. mb' \in Mailboxes /\ mb'.gen = mb.gen /\ mb'.phase = "terminal" /\ mb'.bound = mb.bound
            /\ mb'.queue = mb.queue
          /\ mb'.dropped = mb.dropped
      <3>1. mb' = [mb EXCEPT !.phase = "terminal"]
        BY <1>2 DEF Commit
      <3> QED
        BY <1>0, <3>1 DEF Mailboxes, Phases
    <2>5. MirrorTypeOK'
      BY <1>0, <1>1, <2>3, <2>4 DEF MirrorTypeOK
    <2>6. Doing' = "send"
      BY <2>1, <2>3 DEF Doing
    <2>7. Target' = Target
      BY <1>1, <2>4 DEF Target
    <2>8. ~st.composing
      BY <1>1 DEF Calls
    <2> QED
      BY <1>1, <1>2, <2>2, <2>3, <2>4, <2>5, <2>6, <2>7, <2>8, Prepared
  <1>3. CASE mb.phase \notin Fed
    <2>1. PICK u \in Todos : u = RequestClose /\ First(u) = "advance"
      BY Firsts DEF RequestClose
    <2>2. st' \in STAs /\ st'.todo = u /\ st'.composing = st.composing
      <3>1. st' = [st EXCEPT !.todo = u]
        BY <1>1, <1>3, <2>1, NewCalls DEF Commit
      <3> QED
        BY <1>0, <3>1 DEF STAs
    <2>3. mb' = mb
      BY <1>3 DEF Commit
    <2>4. MirrorTypeOK'
      BY <1>0, <1>1, <2>2, <2>3 DEF MirrorTypeOK
    <2>5. Doing' = "advance"
      BY <2>1, <2>2 DEF Doing
    <2>6. Line' = Line
      BY <1>1, <2>3, <2>5 DEF Line, OnTheWay
    <2>7. ~mb.dropped
      BY <1>1 DEF Calls, Doing, First
    <2>8. Calls'
      BY <1>1, <2>2, <2>3, <2>5, <2>7 DEF Calls
    <2>9. Works'
      BY <1>1, <2>3, <2>6 DEF Works
    <2>10. Lines'
      BY <1>1, <2>3, <2>5, <2>6 DEF Lines
    <2>11. Faithful'
      BY <2>5 DEF Faithful
    <2> QED
      BY <2>4, <2>8, <2>9, <2>10, <2>11
  <1> QED
    BY <1>2, <1>3

LEMMA SendKeeps ==
  ASSUME MirrorInv, Send
  PROVE  MirrorInv'
  <1> USE DEF MirrorInv
  <1>0. st \in STAs /\ mb \in Mailboxes /\ wk \in Workers /\ ses \in Sessions /\ past \in Ghosts
        /\ env \in [ops : Nat, faults : Nat]
    BY DEF MirrorTypeOK
  <1>1. Doing = "send" /\ Tail(st.todo) = <<>> /\ wk' = wk /\ ses' = ses /\ env' = env /\ past' = past
    BY Accessing DEF Send, Access
  <1>2. PICK i \in Intents : i = st.intent
    BY <1>1 DEF Calls
  <1>3. OnTheWay \in Seq(Intents) /\ Line = Append(OnTheWay, i) /\ mb.queue \in Seq(Intents)
    BY <1>1, <1>2, TheLine
  <1>4. ~mb.dropped
    BY <1>1 DEF Calls, Doing, First
  <1>5. CASE Receiving
    <2>1. PICK u \in Todos : u = <<>> /\ First(u) = "nothing"
      BY Firsts
    <2>2. st' \in STAs /\ st'.todo = u /\ st'.composing = st.composing /\ st'.reading = st.reading
      <3>1. <<>> \o <<>> = u
        BY <2>1, NewCalls
      <3>2. st' = [st EXCEPT !.todo = u]
        BY <1>1, <1>5, <3>1 DEF Send, Access
      <3> QED
        BY <1>0, <3>2 DEF STAs
    <2>3. PICK q \in Seq(Intents) : q = Append(mb.queue, i)
      BY <1>3, AppendProperties
    <2>4. mb' \in Mailboxes /\ mb'.gen = mb.gen /\ mb'.phase = mb.phase /\ mb'.bound = mb.bound
            /\ mb'.queue = q
          /\ mb'.dropped = mb.dropped
      <3>1. mb' = [mb EXCEPT !.queue = q]
        BY <1>2, <1>5, <2>3 DEF Send
      <3> QED
        BY <1>0, <3>1 DEF Mailboxes
    <2>5. MirrorTypeOK'
      BY <1>0, <1>1, <2>2, <2>4 DEF MirrorTypeOK
    <2>6. Doing' = "nothing"
      BY <2>1, <2>2 DEF Doing
    <2>7. OnTheWay' = Append(OnTheWay, i)
      <3>1. CASE wk.pc \in {"got", "apply"}
        <4>1. wk.intent \in Intents /\ OnTheWay = <<wk.intent>> \o mb.queue
          BY <3>1, TheLine
        <4>2. OnTheWay' = <<wk.intent>> \o q
          BY <1>1, <2>4, <3>1 DEF OnTheWay
        <4> QED
          BY <1>3, <2>3, <4>1, <4>2, LineEnds
      <3>2. CASE wk.pc \notin {"got", "apply"}
        <4>1. OnTheWay = mb.queue
          BY <3>2, TheLine
        <4>2. OnTheWay' = <<>> \o q
          BY <1>1, <2>4, <3>2 DEF OnTheWay
        <4> QED
          BY <2>3, <4>1, <4>2, ConcatEmptySeq
      <3> QED
        BY <3>1, <3>2
    <2>8. Line' = Line
      <3>1. Append(OnTheWay, i) \in Seq(Intents)
        BY <1>3, AppendProperties
      <3>2. Append(OnTheWay, i) \o <<>> = Append(OnTheWay, i)
        BY <3>1, ConcatEmptySeq
      <3>3. Line' = OnTheWay' \o <<>>
        BY <2>6 DEF Line
      <3> QED
        BY <1>3, <2>7, <3>2, <3>3
    <2>9. mb.bound <= mb.gen /\ (mb.phase = "terminal" => ~st.composing)
      BY DEF Calls
    <2>10. Target' = Target
      BY <1>1, <2>2, <2>4, <2>6 DEF Target
    <2> QED
      BY <1>1, <1>4, <2>2, <2>4, <2>5, <2>6, <2>8, <2>9, <2>10, AccessKeeps
  <1>6. CASE ~Receiving
    <2>1. PICK u \in Todos : u = RequestClose /\ First(u) = "advance"
      BY Firsts DEF RequestClose
    <2>2. st' \in STAs /\ st'.todo = u /\ st'.composing = st.composing
      <3>1. st' = [st EXCEPT !.todo = u]
        BY <1>1, <1>6, <2>1, NewCalls DEF Send, Access
      <3> QED
        BY <1>0, <3>1 DEF STAs
    <2>3. mb' \in Mailboxes /\ mb'.gen = mb.gen /\ mb'.phase = mb.phase /\ mb'.bound = mb.bound
            /\ mb'.queue = mb.queue
          /\ mb'.dropped = mb.dropped
      <3>1. mb' = [mb EXCEPT !.queue = mb.queue]
        BY <1>6 DEF Send
      <3> QED
        BY <1>0, <3>1 DEF Mailboxes
    <2>4. MirrorTypeOK'
      BY <1>0, <1>1, <2>2, <2>3 DEF MirrorTypeOK
    <2>5. Doing' = "advance"
      BY <2>1, <2>2 DEF Doing
    <2>6. Line' = OnTheWay
      <3>1. OnTheWay' = OnTheWay
        BY <1>1, <2>3 DEF OnTheWay
      <3>2. Line' = OnTheWay \o <<>>
        BY <2>5, <3>1 DEF Line
      <3> QED
        BY <1>3, <3>2, ConcatEmptySeq
    <2>7. PICK l \in Seq(Intents) : l = OnTheWay
      BY <1>3
    <2>8. \A K : Carries(l, mb.gen, K) => Carries(Append(l, i), mb.gen, K)
      BY CarriesAppend
    <2>9. Ordered(l, mb.gen) /\ \A n \in DOMAIN l : l[n].gen <= mb.gen
      <3>1. /\ Len(l) \in Nat /\ DOMAIN l = 1..Len(l) /\ DOMAIN Append(l, i) = 1..(Len(l) + 1)
            /\ \A n \in 1..Len(l) : Append(l, i)[n] = l[n]
        BY LenProperties, AppendProperties
      <3>2. PICK m : m = Append(l, i)
        OBVIOUS
      <3>3. Ordered(m, mb.gen) /\ \A n \in DOMAIN m : m[n].gen <= mb.gen
        BY <1>3, <2>7, <3>2 DEF Lines
      <3>4. \A n \in DOMAIN l : n \in DOMAIN m /\ m[n] = l[n]
        BY <3>1, <3>2
      <3> QED
        BY <3>3, <3>4 DEF Ordered
    <2>10. Calls'
      BY <1>4, <2>2, <2>3, <2>5 DEF Calls
    <2>11. Works'
      <3>1. ~Carries(Line, mb.gen, {"reseed", "delta", "commit"}) =>
              ~Carries(l, mb.gen, {"reseed", "delta", "commit"})
        BY <1>3, <2>7, <2>8
      <3> QED
        BY <1>1, <2>3, <2>6, <2>7, <3>1 DEF Works
    <2>12. Lines'
      <3>1. \A K : Carries(l, mb.gen, K) => Carries(Line, mb.gen, K)
        BY <1>3, <2>7, <2>8
      <3> QED
        BY <2>3, <2>5, <2>6, <2>7, <2>9, <3>1 DEF Lines
    <2>13. Faithful'
      BY <2>5 DEF Faithful
    <2> QED
      BY <2>4, <2>10, <2>11, <2>12, <2>13
  <1> QED
    BY <1>5, <1>6

LEMMA DropSenderKeeps ==
  ASSUME MirrorInv, DropSender
  PROVE  MirrorInv'
  <1> USE DEF MirrorInv
  <1>0. st \in STAs /\ mb \in Mailboxes /\ wk \in Workers /\ ses \in Sessions /\ past \in Ghosts
        /\ env \in [ops : Nat, faults : Nat]
    BY DEF MirrorTypeOK
  <1>1. Doing = "drop" /\ Tail(st.todo) = <<>> /\ wk' = wk /\ ses' = ses /\ env' = env /\ past' = past
    BY Accessing DEF DropSender, Access
  <1>2. PICK u \in Todos : u = <<>> /\ First(u) = "nothing"
    BY Firsts
  <1>3. st' \in STAs /\ st'.todo = u /\ st'.composing = st.composing /\ st'.reading = st.reading
    <2>1. <<>> \o <<>> = u
      BY <1>2, NewCalls
    <2>2. st' = [st EXCEPT !.todo = u]
      BY <1>1, <2>1 DEF DropSender, Access
    <2> QED
      BY <1>0, <2>2 DEF STAs
  <1>4. mb' \in Mailboxes /\ mb'.gen = mb.gen /\ mb'.phase = mb.phase /\ mb'.bound = mb.bound
          /\ mb'.queue = mb.queue
    BY <1>0 DEF DropSender, Mailboxes
  <1>5. MirrorTypeOK'
    BY <1>0, <1>1, <1>3, <1>4 DEF MirrorTypeOK
  <1>6. Doing' = "nothing"
    BY <1>2, <1>3 DEF Doing
  <1>7. Line' = Line
    BY <1>1, <1>4, <1>6 DEF Line, OnTheWay
  <1>8. mb.phase = "dirty" /\ mb.bound <= mb.gen
    BY <1>1 DEF Calls
  <1> QED
    BY <1>1, <1>2, <1>3, <1>4, <1>5, <1>6, <1>7, <1>8, AccessKeeps

-----------------------------------------------------------------------------
(* The input worker.                                                       *)

(* A step of the worker that leaves the line and the session's text alone. *)
LEMMA WorkerKeeps ==
  ASSUME MirrorInv, MirrorTypeOK', Works', st' = st, past' = past,
         mb'.gen = mb.gen, mb'.dropped = mb.dropped, mb'.bound <= mb.gen,
         mb'.phase = mb.phase \/ {mb.phase, mb'.phase} \subseteq Fed,
         Line' = Line, wk'.gen = mb.gen <=> wk.gen = mb.gen,
         wk.gen = mb.gen => ses'.text = ses.text /\ (wk'.pc # "failed" => wk.pc # "failed")
  PROVE  MirrorInv'
  <1> USE DEF MirrorInv
  <1>1. mb'.phase # mb.phase => mb.phase \in Fed /\ mb'.phase \in Fed /\ mb.phase # "dirty"
          /\ mb'.phase # "dirty"
                                /\ mb.phase # "terminal" /\ mb'.phase # "terminal" 
    BY DEF Fed
  <1>2. Doing' = Doing
    BY DEF Doing
  <1>3. Calls'
    <2>1. Doing \in {"bound", "close", "drop"} => mb'.phase = mb.phase
      BY <1>1 DEF Calls
    <2>2. mb.dropped => mb'.phase = mb.phase
      BY <1>1 DEF Calls
    <2>3. Doing = "key" /\ ~st.composing => mb'.phase = mb.phase
      BY <1>1 DEF Calls
    <2> QED
      BY <1>1, <1>2, <2>1, <2>2, <2>3 DEF Calls
  <1>4. Lines'
    <2>1. mb'.phase = "dirty" <=> mb.phase = "dirty"
      BY <1>1
    <2>2. mb'.phase = "terminal" <=> mb.phase = "terminal"
      BY <1>1
    <2>3. mb'.phase \in Fed <=> mb.phase \in Fed
      BY <1>1
    <2> QED
      BY <1>2, <2>1, <2>2, <2>3 DEF Lines
  <1>5. Target' = Target
    BY <1>1, <1>2 DEF Target
  <1>6. Faithful'
    <2> SUFFICES ASSUME mb'.phase # "dirty", ~past.missed, Doing \notin {"advance", "reseed"},
                        Carries(Line, mb.gen, {"reseed"}) \/ (wk'.gen = mb.gen /\ wk'.pc # "failed")
                 PROVE  Replayed(mb.gen, IF wk'.gen = mb.gen THEN ses'.text ELSE <<>>, Line) = Target
      BY <1>2, <1>5 DEF Faithful
    <2>1. mb.phase # "dirty"
      BY <1>1
    <2>2. Replayed(mb.gen, IF wk.gen = mb.gen THEN ses.text ELSE <<>>, Line) = Target
      BY <2>1 DEF Faithful
    <2>3. (IF wk'.gen = mb.gen THEN ses'.text ELSE <<>>) = (IF wk.gen = mb.gen THEN ses.text ELSE <<>>)
      OBVIOUS
    <2> QED
      BY <2>2, <2>3
  <1> QED
    BY <1>3, <1>4, <1>6

LEMMA ClosedSession ==
  /\ Closed \in Sessions /\ ~Closed.open /\ ~Closed.alive /\ Closed.text = <<>>
  <1>1. PICK none \in Seq(Nat) : none = <<>>
    BY EmptySeq
  <1>2. PICK c : c = [open |-> FALSE, alive |-> FALSE, text |-> none]
    OBVIOUS
  <1>3. c \in Sessions /\ ~c.open /\ ~c.alive /\ c.text = none
    BY <1>2 DEF Sessions
  <1>4. Closed = c
    BY <1>1, <1>2, Zenon DEF Closed
  <1> QED
    BY <1>1, <1>3, <1>4

LEMMA TurnKeeps ==
  ASSUME MirrorInv, Turn
  PROVE  MirrorInv'
  <1> USE DEF MirrorInv
  <1>0. st \in STAs /\ mb \in Mailboxes /\ wk \in Workers /\ ses \in Sessions /\ past \in Ghosts
        /\ env \in [ops : Nat, faults : Nat] /\ mb.gen \in Nat /\ mb.bound \in Nat /\ wk.gen \in Nat
    <2>1. st \in STAs /\ mb \in Mailboxes /\ wk \in Workers /\ ses \in Sessions /\ past \in Ghosts
          /\ env \in [ops : Nat, faults : Nat]
      BY DEF MirrorTypeOK
    <2>2. mb.gen \in Nat /\ mb.bound \in Nat /\ mb.queue \in Seq(Intents)
      <3>1. mb.gen \in Nat
        BY <2>1 DEF Mailboxes
      <3>2. mb.bound \in Nat
        BY <2>1 DEF Mailboxes
      <3>3. mb.queue \in Seq(Intents)
        BY <2>1 DEF Mailboxes
      <3> QED
        BY <3>1, <3>2, <3>3
    <2>3. wk.gen \in Nat
      BY <2>1 DEF Workers
    <2> QED
      BY <2>1, <2>2, <2>3
  <1>1. wk.pc = "top" /\ st' = st /\ env' = env /\ past' = past /\ mb' = mb
    BY DEF Turn, WorkerStep
  <1>2. wk' \in Workers /\ wk'.pc = "recv" /\ wk'.intent = wk.intent
          /\ wk'.gen = IF wk.gen < mb.bound THEN 0 ELSE wk.gen
    <2>1. PICK n \in Nat : n = IF wk.gen < mb.bound THEN 0 ELSE wk.gen
      BY <1>0
    <2>2. wk' = [wk EXCEPT !.pc = "recv", !.gen = n]
      BY <2>1 DEF Turn, WorkerStep
    <2> QED
      BY <1>0, <2>1, <2>2 DEF Workers, PCs
  <1>3. ses' = IF wk.gen # 0 /\ wk.gen < mb.bound THEN Closed ELSE ses
    BY DEF Turn
  <1>4. ses' \in Sessions /\ (~ses'.open => ses'.text = <<>> /\ ~ses'.alive)
    BY <1>0, <1>3, ClosedSession DEF Works
  <1>5. MirrorTypeOK'
    BY <1>0, <1>1, <1>2, <1>4 DEF MirrorTypeOK
  <1>6. mb.bound <= mb.gen /\ mb.gen >= 1
    BY DEF Calls
  <1>7. (wk'.gen = mb.gen <=> wk.gen = mb.gen) /\ (wk.gen = mb.gen => ses' = ses) /\ wk'.gen <= mb.gen
    BY <1>0, <1>2, <1>3, <1>6 DEF Works
  <1>8. Line' = Line
    BY <1>1, <1>2 DEF Line, OnTheWay, Doing
  <1>9. Works'
    BY <1>1, <1>2, <1>4, <1>7 DEF Works
  <1> QED
    BY <1>1, <1>2, <1>5, <1>6, <1>7, <1>8, <1>9, WorkerKeeps

LEMMA ReceiveKeeps ==
  ASSUME MirrorInv, Receive
  PROVE  MirrorInv'
  <1> USE DEF MirrorInv
  <1>0. st \in STAs /\ mb \in Mailboxes /\ wk \in Workers /\ ses \in Sessions /\ past \in Ghosts
        /\ env \in [ops : Nat, faults : Nat] /\ mb.gen \in Nat /\ mb.bound \in Nat /\ wk.gen \in Nat
        /\ mb.queue \in Seq(Intents)
    <2>1. st \in STAs /\ mb \in Mailboxes /\ wk \in Workers /\ ses \in Sessions /\ past \in Ghosts
          /\ env \in [ops : Nat, faults : Nat]
      BY DEF MirrorTypeOK
    <2>2. mb.gen \in Nat /\ mb.bound \in Nat /\ mb.queue \in Seq(Intents)
      <3>1. mb.gen \in Nat
        BY <2>1 DEF Mailboxes
      <3>2. mb.bound \in Nat
        BY <2>1 DEF Mailboxes
      <3>3. mb.queue \in Seq(Intents)
        BY <2>1 DEF Mailboxes
      <3> QED
        BY <3>1, <3>2, <3>3
    <2>3. wk.gen \in Nat
      BY <2>1 DEF Workers
    <2> QED
      BY <2>1, <2>2, <2>3
  <1>1. wk.pc = "recv" /\ st' = st /\ env' = env /\ past' = past
    BY DEF Receive, WorkerStep
  <1>2. mb.bound <= mb.gen /\ OnTheWay = mb.queue
    BY <1>1, TheLine DEF Calls
  <1>3. CASE mb.queue # <<>>
    <2>1. PICK h \in Intents, q \in Seq(Intents) : h = Head(mb.queue) /\ q = Tail(mb.queue)
            /\ <<h>> \o q = mb.queue
      BY <1>0, <1>3, Requeued
    <2>2. wk' \in Workers /\ wk'.pc = "got" /\ wk'.intent = h /\ wk'.gen = wk.gen
      <3>1. wk' = [wk EXCEPT !.pc = "got", !.intent = h]
        BY <1>3, <2>1 DEF Receive, WorkerStep
      <3>2. h \in Held
        BY DEF Intents
      <3> QED
        BY <1>0, <3>1, <3>2 DEF Workers, PCs
    <2>3. mb' \in Mailboxes /\ mb'.gen = mb.gen /\ mb'.phase = mb.phase /\ mb'.bound = mb.bound
            /\ mb'.queue = q
          /\ mb'.dropped = mb.dropped
      <3>1. mb' = [mb EXCEPT !.queue = q]
        BY <1>3, <2>1 DEF Receive
      <3> QED
        BY <1>0, <3>1 DEF Mailboxes
    <2>4. ses' = ses
      BY <1>3 DEF Receive
    <2>5. MirrorTypeOK'
      BY <1>0, <1>1, <2>2, <2>3, <2>4 DEF MirrorTypeOK
    <2>6. OnTheWay' = OnTheWay
      BY <1>2, <2>1, <2>2, <2>3 DEF OnTheWay
    <2>7. Line' = Line
      BY <1>1, <2>6 DEF Line, Doing
    <2>8. h.gen <= mb.gen
      <3>1. Len(mb.queue) \in Nat \ {0} /\ DOMAIN mb.queue = 1..Len(mb.queue) /\ h = mb.queue[1]
        BY <1>0, <1>3, <2>1, LenProperties, EmptySeq
      <3>2. 1 \in DOMAIN mb.queue
        BY <3>1
      <3>3. PICK m \in Seq(Intents) : m = mb.queue
        BY <1>0
      <3>4. Line = m \/ (Line = Append(m, st.intent) /\ st.intent \in Intents)
        <4>1. Doing = "send" => st.intent \in Intents
          BY DEF Calls
        <4>2. (Doing = "send" => Line = Append(OnTheWay, st.intent)) /\ (Doing # "send" => Line = OnTheWay)
          BY TheLine
        <4>3. CASE Doing = "send"
          BY <1>2, <3>3, <4>1, <4>2, <4>3
        <4>4. CASE Doing # "send"
          BY <1>2, <3>3, <4>2, <4>4
        <4> QED
          BY <4>3, <4>4
      <3>5. CASE Line = m
        BY <3>1, <3>2, <3>3, <3>5 DEF Lines
      <3>6. CASE Line = Append(m, st.intent) /\ st.intent \in Intents
        <4>1. PICK i \in Intents : i = st.intent
          BY <3>6
        <4>2. DOMAIN Append(m, i) = 1..(Len(m) + 1) /\ Append(m, i)[1] = m[1]
          BY <3>1, <3>3, AppendProperties, LenProperties
        <4>3. 1 \in DOMAIN Append(m, i)
          BY <3>1, <3>3, <4>2
        <4> QED
          BY <3>1, <3>3, <3>6, <4>1, <4>2, <4>3 DEF Lines
      <3> QED
        BY <3>4, <3>5, <3>6
    <2>9. Works'
      BY <1>1, <2>2, <2>3, <2>4, <2>7, <2>8 DEF Works
    <2> QED
      BY <1>1, <1>2, <2>2, <2>3, <2>4, <2>5, <2>7, <2>9, WorkerKeeps
  <1>4. CASE mb.queue = <<>> /\ ~mb.dropped
    <2>1. wk' = [wk EXCEPT !.pc = "top"] /\ mb' = mb /\ ses' = ses
      BY <1>4 DEF Receive, WorkerStep
    <2>2. wk' \in Workers /\ wk'.pc = "top" /\ wk'.intent = wk.intent /\ wk'.gen = wk.gen
      BY <1>0, <2>1 DEF Workers, PCs
    <2>3. MirrorTypeOK'
      BY <1>0, <1>1, <2>1, <2>2 DEF MirrorTypeOK
    <2>4. Line' = Line
      BY <1>1, <2>1, <2>2 DEF Line, OnTheWay, Doing
    <2>5. Works'
      BY <1>1, <2>1, <2>2, <2>4 DEF Works
    <2> QED
      BY <1>1, <1>2, <2>1, <2>2, <2>3, <2>4, <2>5, WorkerKeeps
  <1>5. CASE mb.queue = <<>> /\ mb.dropped
    <2>1. wk' = [wk EXCEPT !.pc = "exit", !.gen = 0] /\ mb' = mb /\ ses' = Closed
      BY <1>5 DEF Receive, WorkerStep
    <2>2. wk' \in Workers /\ wk'.pc = "exit" /\ wk'.intent = wk.intent /\ wk'.gen = 0
      BY <1>0, <2>1 DEF Workers, PCs
    <2>3. MirrorTypeOK'
      BY <1>0, <1>1, <2>1, <2>2, ClosedSession DEF MirrorTypeOK
    <2>4. Line' = Line
      BY <1>1, <2>1, <2>2 DEF Line, OnTheWay, Doing
    <2>5. Works'
      BY <1>0, <1>1, <2>1, <2>2, <2>4, ClosedSession DEF Works
    <2>6. mb.phase = "dirty"
      BY <1>5 DEF Calls
    <2>7. Calls'
      BY <1>1, <2>1 DEF Calls, Doing
    <2>8. Lines'
      BY <1>1, <2>1, <2>4, <2>6 DEF Lines
    <2>9. Faithful'
      BY <2>1, <2>6 DEF Faithful
    <2> QED
      BY <2>3, <2>5, <2>7, <2>8, <2>9
  <1> QED
    BY <1>0, <1>3, <1>4, <1>5 DEF Mailboxes

(* The intent in hand is the first of the line, and is taken off it.       *)
LEMMA InHand ==
  ASSUME MirrorTypeOK, Calls, Works, wk.pc \in {"got", "apply"}
  PROVE  /\ Line \in Seq(Intents) /\ Line # <<>> /\ Line[1] = wk.intent /\ wk.intent \in Intents
         /\ wk'.pc \notin {"got", "apply"} /\ mb'.queue = mb.queue /\ st' = st => Line' = Tail(Line)
         /\ wk'.pc \in {"got", "apply"} /\ wk'.intent = wk.intent /\ mb'.queue = mb.queue
              /\ st' = st => Line' = Line
  <1>1. PICK h \in Intents, q \in Seq(Intents) : h = wk.intent /\ q = mb.queue /\ OnTheWay = <<h>> \o q
    BY TheLine
  <1>2. PICK m \in Seq(Intents) : m = <<h>> \o q /\ m # <<>> /\ m[1] = h /\ Tail(m) = q
    BY LineEnds
  <1>3. Len(m) \in Nat \ {0}
    BY <1>2, EmptySeq
  <1>4. CASE Doing = "send"
    <2>1. PICK i \in Intents : i = st.intent
      BY <1>4 DEF Calls
    <2>2. Line = Append(m, i)
      BY <1>1, <1>2, <1>4, <2>1, TheLine
    <2>3. Append(m, i) \in Seq(Intents) /\ Append(m, i) # <<>> /\ Append(m, i)[1] = h
      BY <1>2, <1>3, AppendProperties
    <2>4. Tail(Append(m, i)) = Append(q, i)
      BY <1>2, HeadTailAppend
    <2>5. ASSUME wk'.pc \notin {"got", "apply"}, mb'.queue = mb.queue, st' = st PROVE Line' = Append(q, i)
      <3>1. OnTheWay' = <<>> \o q
        BY <1>1, <2>5 DEF OnTheWay
      <3>2. OnTheWay' = q
        BY <3>1, ConcatEmptySeq
      <3>3. Line' = q \o <<i>>
        BY <1>4, <2>1, <2>5, <3>2 DEF Line, Doing
      <3> QED
        BY <3>3, LineEnds
    <2>6. ASSUME wk'.pc \in {"got", "apply"}, wk'.intent = wk.intent, mb'.queue = mb.queue,
          st' = st PROVE Line' = Line
      BY <1>4, <2>6, wk.pc \in {"got", "apply"} DEF Line, Doing, OnTheWay
    <2> QED
      BY <1>1, <2>2, <2>3, <2>4, <2>5, <2>6
  <1>5. CASE Doing # "send"
    <2>1. Line = m
      BY <1>1, <1>2, <1>5, TheLine
    <2>2. ASSUME wk'.pc \notin {"got", "apply"}, mb'.queue = mb.queue, st' = st PROVE Line' = q
      <3>1. OnTheWay' = <<>> \o q
        BY <1>1, <2>2 DEF OnTheWay
      <3>2. Line' = (<<>> \o q) \o <<>>
        BY <1>5, <2>2, <3>1 DEF Line, Doing
      <3> QED
        BY <3>2, ConcatEmptySeq
    <2>3. ASSUME wk'.pc \in {"got", "apply"}, wk'.intent = wk.intent, mb'.queue = mb.queue,
          st' = st PROVE Line' = Line
      BY <1>5, <2>3 DEF Line, Doing, OnTheWay
    <2> QED
      BY <1>1, <1>2, <2>1, <2>2, <2>3
  <1> QED
    BY <1>4, <1>5

(* A step of the worker that is done with the intent in hand.              *)
LEMMA IntentDone ==
  ASSUME MirrorInv, MirrorTypeOK', wk.pc \in {"got", "apply"}, wk'.pc \notin {"got", "apply"}, st' = st,
         past' = past, mb' = mb,
         wk'.gen \in {0, wk.gen, wk.intent.gen}, ~ses'.open => ses'.text = <<>> /\ ~ses'.alive,
         wk'.pc \in {"failed", "closing", "sync"} => wk'.intent = wk.intent /\ wk'.gen = wk.intent.gen,
         wk'.pc \in {"top", "failed", "closing", "sync"},
         wk'.pc = "closing" => wk.intent.kind = "commit",
         wk.pc = "apply" => wk'.gen = wk.gen,
         \/ /\ wk.intent.gen # mb.gen
            /\ wk'.gen = wk.gen /\ (wk.gen = mb.gen => ses' = ses /\ wk'.pc # "failed")
         \/ /\ wk.intent.gen = mb.gen /\ wk.intent.kind = "close" /\ wk'.gen = 0
         \/ /\ wk.intent.gen = mb.gen /\ wk.pc = "apply" /\ wk'.gen = mb.gen
            /\ wk'.pc # "failed" => ses'.text = Followed(mb.gen, ses.text, wk.intent)
  PROVE  MirrorInv'
  <1> USE DEF MirrorInv
  <1>1. PICK l \in Seq(Intents), i \in Intents : l = Line /\ l # <<>> /\ l[1] = i /\ i = wk.intent
          /\ Line' = Tail(l)
    BY InHand
  <1>2. PICK g \in Nat : g = mb.gen /\ g >= 1
    BY DEF MirrorTypeOK, Mailboxes, Calls
  <1>3. \A K : Carries(l, g, K) <=> Carries(Tail(l), g, K) \/ (i.gen = g /\ i.kind \in K)
    BY <1>1, CarriesTail
  <1>4. Ordered(l, g) /\ Aged(l, g)
    BY <1>1, <1>2 DEF Lines, Aged
  <1>5. /\ Ordered(Tail(l), g) /\ Aged(Tail(l), g)
        /\ i.gen = g /\ i.kind # "close" => ~Carries(Tail(l), g, {"reseed", "close"})
        /\ i.gen = g /\ i.kind = "commit" => ~Carries(Tail(l), g, {"reseed", "delta", "commit", "close"})
    BY <1>1, <1>4, OrderedTail
  <1>6. \A b : Replayed(g, b, l) = Replayed(g, Followed(g, b, i), Tail(l))
    BY <1>1, ReplayedTail
  <1>7. Tail(l) \in Seq(Intents)
    BY <1>1, HeadTailProperties
  <1>8. Calls'
    BY DEF Calls, Doing
  <1>9. Works'
    <2>1. wk'.gen <= g
      BY <1>1, <1>2 DEF Works
    <2>2. wk'.pc \in {"failed", "closing", "sync"} => wk'.intent \in Intents /\ wk'.intent.gen <= g
      BY <1>1, <1>2 DEF Works
    <2>3. wk'.pc = "closing" /\ wk'.gen = g => mb.phase = "terminal"
            /\ ~Carries(Tail(l), g, {"reseed", "delta", "commit"})
      <3> SUFFICES ASSUME wk'.pc = "closing", wk'.gen = g PROVE mb.phase = "terminal"
            /\ ~Carries(Tail(l), g, {"reseed", "delta", "commit"})
        OBVIOUS
      <3>1. i.gen = g /\ i.kind = "commit"
        BY <1>1
      <3>2. Carries(l, g, {"commit"})
        BY <1>3, <3>1
      <3>3. mb.phase = "terminal"
        BY <1>1, <1>2, <3>2 DEF Lines
      <3>4. ~Carries(Tail(l), g, {"reseed", "delta", "commit"})
        BY <1>5, <3>1 DEF Carries
      <3> QED
        BY <3>3, <3>4
    <2> QED
      BY <1>1, <1>2, <2>1, <2>2, <2>3 DEF Works
  <1>10. Lines'
    <2>1. Carries(Tail(l), g, {"commit"}) => mb.phase = "terminal"
      BY <1>1, <1>2, <1>3 DEF Lines
    <2>2. mb.phase = "dirty" => ~Carries(Tail(l), g, {"reseed", "delta", "commit"})
      BY <1>1, <1>2, <1>3 DEF Lines
    <2>3. ASSUME mb.phase # "dirty", Doing # "advance", Carries(Tail(l), g, {"close"})
          PROVE  Carries(Tail(l), g, {"reseed"})
      <3>1. Carries(l, g, {"close"})
        BY <1>3, <2>3
      <3>2. Carries(l, g, {"reseed"})
        BY <1>1, <1>2, <2>3, <3>1 DEF Lines
      <3>3. i.gen = g => i.kind = "close"
        BY <1>5, <2>3 DEF Carries
      <3> QED
        BY <1>3, <3>2, <3>3
    <2>4. ASSUME mb.phase # "dirty", Doing # "advance",
                 mb.phase \in Fed \/ Carries(Tail(l), g, {"delta", "commit"})
          PROVE  Carries(Tail(l), g, {"reseed"}) \/ wk'.gen = g
      <3>1. Carries(l, g, {"reseed"}) \/ wk.gen = g
        BY <1>1, <1>2, <1>3, <2>4 DEF Lines
      <3>2. CASE i.gen # g
        BY <1>1, <1>2, <1>3, <3>1, <3>2
      <3>3. CASE i.gen = g /\ i.kind = "close"
        <4>1. Carries(l, g, {"close"})
          BY <1>3, <3>3
        <4>2. Carries(l, g, {"reseed"})
          BY <1>1, <1>2, <2>4, <4>1 DEF Lines
        <4> QED
          BY <1>3, <3>3, <4>2
      <3>4. CASE i.gen = g /\ i.kind # "close"
        BY <1>1, <1>2, <3>4
      <3> QED
        BY <3>2, <3>3, <3>4
    <2>5. Doing' = Doing
      BY DEF Doing
    <2> QED
      BY <1>1, <1>2, <1>5, <2>1, <2>2, <2>3, <2>4, <2>5 DEF Lines, Aged
  <1>11. Faithful'
    <2> DEFINE base == IF wk.gen = g THEN ses.text ELSE <<>>
               after == IF wk'.gen = g THEN ses'.text ELSE <<>>
    <2>1. Target' = Target /\ Doing' = Doing
      BY DEF Target, Doing
    <2> SUFFICES ASSUME mb.phase # "dirty", ~past.missed, Doing \notin {"advance", "reseed"},
                        Carries(Tail(l), g, {"reseed"}) \/ (wk'.gen = g /\ wk'.pc # "failed")
                 PROVE  Replayed(g, after, Tail(l)) = Target
      BY <1>1, <1>2, <2>1 DEF Faithful
    <2>2. ASSUME Carries(l, g, {"reseed"}) \/ (wk.gen = g /\ wk.pc # "failed")
          PROVE  Replayed(g, Followed(g, base, i), Tail(l)) = Target
      <3>1. Replayed(g, base, l) = Target
        BY <1>1, <1>2, <2>2 DEF Faithful
      <3> HIDE DEF base
      <3> QED
        BY <1>6, <3>1
    <2>3. CASE i.gen # g
      <3>1. Carries(l, g, {"reseed"}) \/ (wk.gen = g /\ wk.pc # "failed")
        BY <1>1, <1>2, <1>3, <2>3
      <3>2. after = base
        BY <1>1, <1>2, <2>3
      <3>3. Followed(g, base, i) = base
        <4> HIDE DEF base
        <4> QED
          BY <2>3 DEF Followed, Reseeds
      <3> HIDE DEF base, after
      <3> QED
        BY <2>2, <3>1, <3>2, <3>3
    <2>4. CASE i.gen = g /\ i.kind = "close"
      <3>0. wk.pc # "apply" /\ wk'.gen = 0
        BY <1>1, <1>2, <2>4 DEF Works
      <3>1. Carries(Tail(l), g, {"reseed"})
        BY <1>2, <3>0
      <3>2. Carries(l, g, {"reseed"})
        BY <1>3, <3>1
      <3>3. Replayed(g, Followed(g, base, i), Tail(l)) = Replayed(g, after, Tail(l))
        <4> HIDE DEF base, after
        <4> QED
          BY <1>7, <3>1, ReseedForgets
      <3> HIDE DEF base, after
      <3> QED
        BY <2>2, <3>2, <3>3
    <2>5. CASE i.gen = g /\ i.kind # "close"
      <3>1. wk.pc = "apply" /\ wk'.gen = g
        BY <1>1, <1>2, <2>5
      <3>2. wk.gen = g
        BY <1>1, <2>5, <3>1 DEF Works
      <3>3. ~Carries(Tail(l), g, {"reseed"})
        BY <1>5, <2>5 DEF Carries
      <3>4. wk'.pc # "failed"
        BY <3>3
      <3>5. after = Followed(g, base, i)
        <4>1. after = ses'.text /\ base = ses.text
          BY <3>1, <3>2
        <4> QED
          BY <1>1, <1>2, <2>5, <3>4, <4>1
      <3> HIDE DEF base, after
      <3> QED
        BY <2>2, <3>1, <3>2, <3>5
    <2> QED
      BY <2>3, <2>4, <2>5
  <1> QED
    BY <1>8, <1>9, <1>10, <1>11

LEMMA WorkerTypes ==
  ASSUME MirrorInv
  PROVE  /\ st \in STAs /\ mb \in Mailboxes /\ wk \in Workers /\ ses \in Sessions /\ past \in Ghosts
         /\ env \in [ops : Nat, faults : Nat]
         /\ mb.gen \in Nat /\ mb.gen >= 1 /\ mb.bound \in Nat /\ mb.bound <= mb.gen /\ wk.gen \in Nat
              /\ wk.gen <= mb.gen
         /\ wk.intent \in Held /\ wk.intent.gen \in Nat /\ wk.mismatch \in BOOLEAN
  <1>1. st \in STAs /\ mb \in Mailboxes /\ wk \in Workers /\ ses \in Sessions /\ past \in Ghosts
        /\ env \in [ops : Nat, faults : Nat]
    BY DEF MirrorInv, MirrorTypeOK
  <1>2. mb.gen \in Nat
    BY <1>1 DEF Mailboxes
  <1>3. mb.bound \in Nat
    BY <1>1 DEF Mailboxes
  <1>4. wk.gen \in Nat /\ wk.intent \in Held /\ wk.mismatch \in BOOLEAN
    BY <1>1 DEF Workers
  <1>5. wk.intent.gen \in Nat
    BY <1>4 DEF Held
  <1>6. mb.gen >= 1 /\ mb.bound <= mb.gen /\ wk.gen <= mb.gen
    BY DEF MirrorInv, Calls, Works
  <1> QED
    BY <1>1, <1>2, <1>3, <1>4, <1>5, <1>6

LEMMA TakeIntentKeeps ==
  ASSUME MirrorInv, Take
  PROVE  MirrorInv'
  <1>0. /\ st \in STAs /\ mb \in Mailboxes /\ wk \in Workers /\ ses \in Sessions /\ past \in Ghosts
        /\ env \in [ops : Nat, faults : Nat]
        /\ mb.gen \in Nat /\ mb.gen >= 1 /\ mb.bound \in Nat /\ mb.bound <= mb.gen /\ wk.gen \in Nat
             /\ wk.gen <= mb.gen
        /\ wk.intent \in Held /\ wk.intent.gen \in Nat /\ wk.mismatch \in BOOLEAN
    BY WorkerTypes
  <1> DEFINE stale == wk.intent.gen # mb.gen
             close == wk.intent.kind = "close"
  <1>1. wk.pc = "got" /\ st' = st /\ env' = env /\ past' = past /\ mb' = mb
    BY DEF Take, WorkerStep
  <1>2. PICK none \in Held : none = NoIntent
    <2>1. PICK e \in Seq(Nat) : e = <<>>
      BY EmptySeq
    <2>2. [gen |-> 0, kind |-> "none", text |-> e] \in Held
      BY DEF Held
    <2>3. NoIntent = [gen |-> 0, kind |-> "none", text |-> e]
      BY <2>1, Zenon DEF NoIntent
    <2> QED
      BY <2>2, <2>3
  <1>3. /\ wk' \in Workers
        /\ wk'.pc = IF stale \/ close THEN "top" ELSE "apply"
        /\ wk'.gen = IF stale THEN wk.gen ELSE IF close THEN 0 ELSE wk.intent.gen
        /\ wk'.intent = IF stale \/ close THEN none ELSE wk.intent
    <2>1. PICK n \in Nat, i \in Held, p \in PCs :
             /\ n = IF stale THEN wk.gen ELSE IF close THEN 0 ELSE wk.intent.gen
             /\ i = IF stale \/ close THEN none ELSE wk.intent
             /\ p = IF stale \/ close THEN "top" ELSE "apply"
      BY <1>0 DEF PCs
    <2>2. wk' = [wk EXCEPT !.pc = p, !.gen = n, !.intent = i]
      BY <1>2, <2>1 DEF Take, WorkerStep
    <2> HIDE DEF stale, close
    <2> QED
      BY <1>0, <2>1, <2>2 DEF Workers
  <1>4. ses' = IF ~stale /\ (close \/ wk.gen # wk.intent.gen) THEN Closed ELSE ses
    BY DEF Take
  <1>5. ses' \in Sessions /\ (~ses'.open => ses'.text = <<>> /\ ~ses'.alive)
    <2>1. ~ses.open => ses.text = <<>> /\ ~ses.alive
      BY DEF MirrorInv, Works
    <2> QED
      BY <1>0, <1>4, <2>1, ClosedSession
  <1>6. MirrorTypeOK'
    BY <1>0, <1>1, <1>3, <1>5 DEF MirrorTypeOK
  <1>7. CASE stale \/ close
    <2>1. wk'.pc = "top" /\ wk'.gen = IF stale THEN wk.gen ELSE 0
      BY <1>3, <1>7
    <2>2. stale => ses' = ses
      BY <1>4
    <2>3. wk'.gen \in {0, wk.gen, wk.intent.gen}
      BY <2>1
    <2> QED
      BY <1>1, <1>5, <1>6, <1>7, <2>1, <2>2, <2>3, IntentDone
  <1>8. CASE ~stale /\ ~close
    <2>1. wk'.pc = "apply" /\ wk'.gen = mb.gen /\ wk'.intent = wk.intent
      BY <1>3, <1>8
    <2>2. PICK l \in Seq(Intents), i \in Intents : l = Line /\ l # <<>> /\ l[1] = i /\ i = wk.intent
            /\ Line' = l
      BY <1>1, <2>1, InHand DEF MirrorInv
    <2>3. Calls'
      BY <1>1 DEF Calls, Doing, MirrorInv
    <2>4. Works'
      BY <1>0, <1>1, <1>5, <1>8, <2>1, <2>2 DEF Works, MirrorInv
    <2>5. Lines'
      BY <1>1, <2>1, <2>2 DEF Lines, Doing, MirrorInv
    <2>6. Faithful'
      <3>1. \A K : Carries(l, mb.gen, K) <=> Carries(Tail(l), mb.gen, K) \/ (i.gen = mb.gen /\ i.kind \in K)
        BY <2>2, CarriesTail
      <3>2. i.kind \in {"reseed", "delta", "commit"} /\ i.gen = mb.gen
        BY <1>8, <2>2 DEF Intents, Held, Kinds
      <3>3. Carries(l, mb.gen, {"reseed"}) \/ Carries(l, mb.gen, {"delta", "commit"})
        BY <3>1, <3>2
      <3>4. Target' = Target /\ Doing' = Doing
        BY <1>1 DEF Target, Doing
      <3> SUFFICES ASSUME mb.phase # "dirty", ~past.missed, Doing \notin {"advance", "reseed"}
                   PROVE  Replayed(mb.gen, ses'.text, l) = Target
        BY <1>1, <2>1, <2>2, <3>4 DEF Faithful
      <3>5. Carries(l, mb.gen, {"reseed"}) \/ wk.gen = mb.gen
        BY <2>2, <3>3 DEF MirrorInv, Lines
      <3>6. Replayed(mb.gen, IF wk.gen = mb.gen THEN ses.text ELSE <<>>, l) = Target
        BY <1>1, <2>2, <3>5 DEF MirrorInv, Faithful
      <3>7. (IF wk.gen = mb.gen THEN ses.text ELSE <<>>) = ses'.text
        BY <1>4, <1>8, ClosedSession
      <3> QED
        BY <3>6, <3>7
    <2> QED
      BY <1>6, <2>3, <2>4, <2>5, <2>6 DEF MirrorInv
  <1> QED
    BY <1>7, <1>8

LEMMA BaseSession ==
  ASSUME MirrorInv
  PROVE  /\ Base \in Sessions /\ Base.open
         /\ Base.text = IF wk.intent.kind = "reseed" \/ ~ses.open THEN <<>> ELSE ses.text
  <1>1. PICK c \in Sessions : c = Closed /\ c.text = <<>>
    BY ClosedSession
  <1>2. PICK d : d = [c EXCEPT !.open = TRUE, !.alive = TRUE]
    OBVIOUS
  <1>3. d \in Sessions /\ d.open /\ d.text = <<>>
    BY <1>1, <1>2 DEF Sessions
  <1>4. ses \in Sessions
    BY WorkerTypes
  <1>5. Base = IF wk.intent.kind = "reseed" \/ ~ses.open THEN d ELSE ses
    BY <1>1, <1>2 DEF Base
  <1> QED
    BY <1>3, <1>4, <1>5

LEMMA ApplyKeeps ==
  ASSUME MirrorInv, Apply
  PROVE  MirrorInv'
  <1>0. /\ st \in STAs /\ mb \in Mailboxes /\ wk \in Workers /\ ses \in Sessions /\ past \in Ghosts
        /\ env \in [ops : Nat, faults : Nat]
        /\ mb.gen \in Nat /\ mb.gen >= 1 /\ mb.bound \in Nat /\ mb.bound <= mb.gen /\ wk.gen \in Nat
             /\ wk.gen <= mb.gen
        /\ wk.intent \in Held /\ wk.intent.gen \in Nat /\ wk.mismatch \in BOOLEAN
    BY WorkerTypes
  <1>1. wk.pc = "apply" /\ st' = st /\ env' = env /\ past' = past /\ mb' = mb
    BY DEF Apply, WorkerStep
  <1>2. PICK none \in Held : none = NoIntent
    <2>1. PICK e \in Seq(Nat) : e = <<>>
      BY EmptySeq
    <2>2. [gen |-> 0, kind |-> "none", text |-> e] \in Held
      BY DEF Held
    <2>3. NoIntent = [gen |-> 0, kind |-> "none", text |-> e]
      BY <2>1, Zenon DEF NoIntent
    <2> QED
      BY <2>2, <2>3
  <1>3. wk.intent \in Intents /\ wk.intent.kind \in {"reseed", "commit", "delta"} /\ wk.gen = wk.intent.gen
    <2>1. wk.intent \in Intents /\ wk.intent.kind # "close" /\ wk.gen = wk.intent.gen
      BY <1>1 DEF MirrorInv, Works
    <2> QED
      BY <2>1 DEF Intents, Held, Kinds
  <1>4. /\ wk' \in Workers
        /\ wk'.pc = IF wk.intent.kind = "reseed" THEN "sync"
                    ELSE IF wk.intent.kind = "commit" THEN "closing" ELSE "top"
        /\ wk'.gen = wk.gen
        /\ wk'.intent = IF wk.intent.kind = "delta" THEN none ELSE wk.intent
    <2>1. PICK i \in Held, p \in PCs :
             /\ i = IF wk.intent.kind = "delta" THEN none ELSE wk.intent
             /\ p = IF wk.intent.kind = "reseed" THEN "sync"
                     ELSE IF wk.intent.kind = "commit" THEN "closing" ELSE "top"
      BY <1>0 DEF PCs
    <2>2. wk' = [wk EXCEPT !.pc = p, !.intent = i]
      <3>1. p = CASE wk.intent.kind = "reseed" -> "sync"
                  [] wk.intent.kind = "commit" -> "closing"
                  [] wk.intent.kind = "delta" -> "top"
        BY <1>3, <2>1
      <3> QED
        BY <1>2, <2>1, <3>1 DEF Apply, WorkerStep
    <2> QED
      BY <1>0, <2>1, <2>2 DEF Workers
  <1>5. PICK x \in Seq(Nat) : x = Base.text \o wk.intent.text
    <2>1. Base.text \in Seq(Nat)
      BY BaseSession DEF Sessions
    <2>2. wk.intent.text \in Seq(Nat)
      BY <1>0 DEF Held
    <2> QED
      BY <2>1, <2>2, ConcatProperties
  <1>6. ses' \in Sessions /\ ses'.text = x /\ ses'.open
    <2>1. ses' = [Base EXCEPT !.text = x]
      BY <1>5 DEF Apply
    <2> QED
      BY <2>1, BaseSession DEF Sessions
  <1>7. MirrorTypeOK'
    BY <1>0, <1>1, <1>4, <1>6 DEF MirrorTypeOK
  <1>8. x = Followed(mb.gen, ses.text, wk.intent) \/ wk.intent.gen # mb.gen
    <2> SUFFICES ASSUME wk.intent.gen = mb.gen PROVE x = Followed(mb.gen, ses.text, wk.intent)
      OBVIOUS
    <2>1. wk.intent.text \in Seq(Nat) /\ ses.text \in Seq(Nat)
      BY <1>0 DEF Held, Sessions
    <2>2. ~ses.open => ses.text = <<>>
      BY DEF MirrorInv, Works
    <2>3. CASE wk.intent.kind = "reseed"
      <3>1. x = <<>> \o wk.intent.text
        BY <1>5, <2>3, BaseSession
      <3>2. x = wk.intent.text
        BY <2>1, <3>1, ConcatEmptySeq
      <3> QED
        BY <2>3, <3>2 DEF Followed, Reseeds
    <2>4. CASE wk.intent.kind # "reseed"
      <3>1. Base.text = ses.text
        BY <2>2, <2>4, BaseSession
      <3>2. CASE wk.intent.kind = "delta"
        BY <1>5, <2>4, <3>1, <3>2 DEF Followed, Reseeds
      <3>3. CASE wk.intent.kind = "commit"
        <4>1. wk.intent.text = <<>>
          BY <1>3, <3>3 DEF Intents
        <4>2. x = ses.text \o <<>>
          BY <1>5, <3>1, <4>1
        <4>3. x = ses.text
          BY <2>1, <4>2, ConcatEmptySeq
        <4> QED
          BY <3>3, <4>3 DEF Followed, Reseeds
      <3> QED
        BY <1>3, <2>4, <3>2, <3>3
    <2> QED
      BY <2>3, <2>4
  <1>9. wk'.pc \in {"top", "closing", "sync"}
    BY <1>4
  <1>10. wk'.pc \in {"failed", "closing", "sync"} => wk'.intent = wk.intent /\ wk'.gen = wk.intent.gen
    BY <1>3, <1>4
  <1>11. wk'.pc = "closing" => wk.intent.kind = "commit"
    BY <1>3, <1>4
  <1>12. wk.gen = mb.gen <=> wk.intent.gen = mb.gen
    BY <1>3
  <1> QED
    BY <1>1, <1>4, <1>6, <1>7, <1>8, <1>9, <1>10, <1>11, <1>12, IntentDone

LEMMA ApplyFailsKeeps ==
  ASSUME MirrorInv, ApplyFails
  PROVE  MirrorInv'
  <1>0. /\ st \in STAs /\ mb \in Mailboxes /\ wk \in Workers /\ ses \in Sessions /\ past \in Ghosts
        /\ env \in [ops : Nat, faults : Nat]
        /\ mb.gen \in Nat /\ mb.gen >= 1 /\ mb.bound \in Nat /\ mb.bound <= mb.gen /\ wk.gen \in Nat
             /\ wk.gen <= mb.gen
        /\ wk.intent \in Held /\ wk.intent.gen \in Nat /\ wk.mismatch \in BOOLEAN
    BY WorkerTypes
  <1>1. wk.pc = "apply" /\ st' = st /\ past' = past /\ mb' = mb
    BY DEF ApplyFails
  <1>2. wk' \in Workers /\ wk'.pc = "failed" /\ wk'.gen = wk.gen /\ wk'.intent = wk.intent
    <2>1. PICK m \in BOOLEAN : wk' = [wk EXCEPT !.pc = "failed", !.mismatch = m]
      <3>1. PICK m \in {wk.mismatch,
            ~ses.open \/ wk.intent.kind = "reseed"} : wk' = [wk EXCEPT !.pc = "failed", !.mismatch = m]
        BY DEF ApplyFails
      <3>2. m \in BOOLEAN
        BY <1>0, <3>1
      <3> QED
        BY <3>1, <3>2
    <2> QED
      BY <1>0, <2>1 DEF Workers, PCs
  <1>3. env' \in [ops : Nat, faults : Nat]
    BY <1>0 DEF ApplyFails
  <1>4. ses' \in Sessions /\ ses'.open
    <2>1. ses' = [Base EXCEPT !.alive = FALSE]
      BY DEF ApplyFails
    <2> QED
      BY <2>1, BaseSession DEF Sessions
  <1>5. MirrorTypeOK'
    BY <1>0, <1>1, <1>2, <1>3, <1>4 DEF MirrorTypeOK
  <1>6. wk.gen = wk.intent.gen
    BY <1>1 DEF MirrorInv, Works
  <1> QED
    BY <1>1, <1>2, <1>4, <1>5, <1>6, IntentDone

LEMMA MarkFailedKeeps ==
  ASSUME MirrorInv, MarkFailed
  PROVE  MirrorInv'
  <1>0. /\ st \in STAs /\ mb \in Mailboxes /\ wk \in Workers /\ ses \in Sessions /\ past \in Ghosts
        /\ env \in [ops : Nat, faults : Nat]
        /\ mb.gen \in Nat /\ mb.gen >= 1 /\ mb.bound \in Nat /\ mb.bound <= mb.gen /\ wk.gen \in Nat
             /\ wk.gen <= mb.gen
        /\ wk.intent \in Held /\ wk.intent.gen \in Nat /\ wk.mismatch \in BOOLEAN
    BY WorkerTypes
  <1>1. wk.pc = "failed" /\ st' = st /\ env' = env /\ ses' = ses
    BY DEF MarkFailed
  <1>2. wk.gen = wk.intent.gen /\ wk.intent \in Intents
    BY <1>1 DEF MirrorInv, Works
  <1>3. CASE mb.gen = wk.intent.gen
    <2>1. PICK g \in Nat : g = mb.gen + 1 /\ g > mb.gen /\ g # 0
      BY <1>0
    <2>2. wk' \in Workers /\ wk'.pc = "failed_bound" /\ wk'.gen = wk.gen /\ wk'.intent = wk.intent
      <3>1. wk' = [wk EXCEPT !.pc = "failed_bound"]
        BY <1>3 DEF MarkFailed
      <3> QED
        BY <1>0, <3>1 DEF Workers, PCs
    <2>3. mb' \in Mailboxes /\ mb'.gen = g /\ mb'.phase = "dirty" /\ mb'.bound = mb.bound
            /\ mb'.queue = mb.queue
          /\ mb'.dropped = mb.dropped
      <3>1. mb' = [mb EXCEPT !.gen = g, !.phase = "dirty"]
        BY <1>3, <2>1 DEF MarkFailed
      <3>2. g \in Nat \ {0} /\ "dirty" \in Phases
        BY <2>1 DEF Phases
      <3> QED
        BY <1>0, <3>1, <3>2 DEF Mailboxes
    <2>4. past' \in Ghosts
      <3>1. past.missed \in BOOLEAN
        BY <1>0 DEF Ghosts
      <3>2. PICK m \in BOOLEAN : past' = [past EXCEPT !.missed = m]
        BY <1>3, <3>1 DEF MarkFailed
      <3> QED
        BY <1>0, <3>2 DEF Ghosts
    <2>5. MirrorTypeOK'
      BY <1>0, <1>1, <2>2, <2>3, <2>4 DEF MirrorTypeOK
    <2>6. Line' = Line
      BY <1>1, <2>2, <2>3 DEF Line, OnTheWay, Doing
    <2>7. Ordered(Line, g) /\ Aged(Line, g) /\ \A K : ~Carries(Line, g, K)
      <3>1. Line \in Seq(Intents)
        BY TheLine DEF MirrorInv
      <3>2. Aged(Line, mb.gen)
        BY DEF MirrorInv, Lines, Aged
      <3> QED
        BY <1>0, <2>1, <3>1, <3>2, NewGeneration
    <2>8. Calls'
      <3>1. st.gen \in Nat
        BY <1>0 DEF STAs
      <3> QED
        BY <1>0, <1>1, <2>1, <2>3, <3>1 DEF MirrorInv, Calls, Doing
    <2>9. Works'
      BY <1>0, <1>1, <1>2, <1>3, <2>1, <2>2, <2>3 DEF MirrorInv, Works
    <2>10. Lines'
      BY <2>3, <2>6, <2>7 DEF Lines, Aged
    <2>11. Faithful'
      BY <2>3 DEF Faithful
    <2> QED
      BY <2>5, <2>8, <2>9, <2>10, <2>11 DEF MirrorInv
  <1>4. CASE mb.gen # wk.intent.gen
    <2>1. wk' \in Workers /\ wk'.pc = "closing" /\ wk'.gen = wk.gen /\ wk'.intent = wk.intent
      <3>1. wk' = [wk EXCEPT !.pc = "closing"]
        BY <1>4 DEF MarkFailed
      <3> QED
        BY <1>0, <3>1 DEF Workers, PCs
    <2>2. mb' = mb
      BY <1>4 DEF MarkFailed
    <2>3. past' = past
      <3>1. past.missed \in BOOLEAN
        BY <1>0 DEF Ghosts
      <3>2. past' = [past EXCEPT !.missed = past.missed]
        BY <1>4, <3>1 DEF MarkFailed
      <3> QED
        BY <1>0, <3>2 DEF Ghosts
    <2>4. MirrorTypeOK'
      BY <1>0, <1>1, <2>1, <2>2, <2>3 DEF MirrorTypeOK
    <2>5. Line' = Line
      BY <1>1, <2>1, <2>2 DEF Line, OnTheWay, Doing
    <2>6. Works'
      BY <1>0, <1>1, <1>2, <1>4, <2>1, <2>2, <2>5 DEF MirrorInv, Works
    <2> QED
      BY <1>0, <1>1, <1>2, <1>4, <2>1, <2>2, <2>3, <2>4, <2>5, <2>6, WorkerKeeps
  <1> QED
    BY <1>3, <1>4

LEMMA MarkFailedBoundKeeps ==
  ASSUME MirrorInv, MarkFailedBound
  PROVE  MirrorInv'
  <1>0. /\ st \in STAs /\ mb \in Mailboxes /\ wk \in Workers /\ ses \in Sessions /\ past \in Ghosts
        /\ env \in [ops : Nat, faults : Nat]
        /\ mb.gen \in Nat /\ mb.gen >= 1 /\ mb.bound \in Nat /\ mb.bound <= mb.gen /\ wk.gen \in Nat
             /\ wk.gen <= mb.gen
        /\ wk.intent \in Held /\ wk.intent.gen \in Nat /\ wk.mismatch \in BOOLEAN
    BY WorkerTypes
  <1>1. wk.pc = "failed_bound" /\ st' = st /\ env' = env /\ ses' = ses /\ past' = past
    BY DEF MarkFailedBound, WorkerStep
  <1>2. wk.gen = wk.intent.gen /\ wk.gen < mb.gen
    BY <1>1 DEF MirrorInv, Works
  <1>3. wk' \in Workers /\ wk'.pc = "closing" /\ wk'.gen = wk.gen /\ wk'.intent = wk.intent
    BY <1>0 DEF MarkFailedBound, WorkerStep, Workers, PCs
  <1>4. PICK b \in Nat : b = Max({mb.bound, wk.intent.gen + 1}) /\ b <= mb.gen
    <2>1. wk.intent.gen + 1 \in Nat /\ wk.intent.gen + 1 <= mb.gen
      BY <1>0, <1>2
    <2> QED
      BY <1>0, <2>1, MaxOfTwo
  <1>5. mb' \in Mailboxes /\ mb'.gen = mb.gen /\ mb'.phase = mb.phase /\ mb'.bound = b
          /\ mb'.queue = mb.queue
        /\ mb'.dropped = mb.dropped
    <2>1. mb' = [mb EXCEPT !.bound = b]
      BY <1>4 DEF MarkFailedBound
    <2> QED
      BY <1>0, <2>1 DEF Mailboxes
  <1>6. MirrorTypeOK'
    BY <1>0, <1>1, <1>3, <1>5 DEF MirrorTypeOK
  <1>7. Line' = Line
    BY <1>1, <1>3, <1>5 DEF Line, OnTheWay, Doing
  <1>8. Works'
    BY <1>0, <1>1, <1>2, <1>3, <1>5, <1>7 DEF MirrorInv, Works
  <1> QED
    BY <1>0, <1>1, <1>2, <1>3, <1>4, <1>5, <1>6, <1>7, <1>8, WorkerKeeps

LEMMA CloseKeeps ==
  ASSUME MirrorInv, Close
  PROVE  MirrorInv'
  <1>0. /\ st \in STAs /\ mb \in Mailboxes /\ wk \in Workers /\ ses \in Sessions /\ past \in Ghosts
        /\ env \in [ops : Nat, faults : Nat]
        /\ mb.gen \in Nat /\ mb.gen >= 1 /\ mb.bound \in Nat /\ mb.bound <= mb.gen /\ wk.gen \in Nat
             /\ wk.gen <= mb.gen
        /\ wk.intent \in Held /\ wk.intent.gen \in Nat /\ wk.mismatch \in BOOLEAN
    BY WorkerTypes
  <1>1. wk.pc = "closing" /\ st' = st /\ env' = env /\ mb' = mb /\ past' = past /\ ses' = Closed
    BY DEF Close, WorkerStep
  <1>2. wk' \in Workers /\ wk'.pc = "top" /\ wk'.gen = 0
    <2>1. PICK none \in Held : none = NoIntent
      <3>1. PICK e \in Seq(Nat) : e = <<>>
        BY EmptySeq
      <3>2. [gen |-> 0, kind |-> "none", text |-> e] \in Held
        BY DEF Held
      <3>3. NoIntent = [gen |-> 0, kind |-> "none", text |-> e]
        BY <3>1, Zenon DEF NoIntent
      <3> QED
        BY <3>2, <3>3
    <2>2. wk' = [wk EXCEPT !.pc = "top", !.gen = 0, !.intent = none]
      BY <2>1 DEF Close, WorkerStep
    <2> QED
      BY <1>0, <2>2 DEF Workers, PCs
  <1>3. MirrorTypeOK'
    BY <1>0, <1>1, <1>2, ClosedSession DEF MirrorTypeOK
  <1>4. Line' = Line
    BY <1>1, <1>2 DEF Line, OnTheWay, Doing
  <1>5. Works'
    BY <1>0, <1>1, <1>2, <1>4, ClosedSession DEF MirrorInv, Works
  <1>6. CASE wk.gen # mb.gen
    BY <1>0, <1>1, <1>2, <1>3, <1>4, <1>5, <1>6, WorkerKeeps
  <1>7. CASE wk.gen = mb.gen
    <2>1. mb.phase = "terminal" /\ ~Carries(Line, mb.gen, {"reseed", "delta", "commit"})
      BY <1>1, <1>7 DEF MirrorInv, Works
    <2>2. ~Carries(Line, mb.gen, {"reseed"}) /\ ~Carries(Line, mb.gen, {"delta", "commit"})
      BY <2>1 DEF Carries
    <2>3. Calls'
      BY <1>1 DEF MirrorInv, Calls, Doing
    <2>4. Lines'
      BY <1>1, <1>4, <2>1, <2>2 DEF MirrorInv, Lines, Doing, Fed
    <2>5. Faithful'
      BY <1>0, <1>1, <1>2, <1>4, <2>2 DEF Faithful
    <2> QED
      BY <1>3, <1>5, <2>3, <2>4, <2>5 DEF MirrorInv
  <1> QED
    BY <1>6, <1>7

LEMMA SyncKeeps ==
  ASSUME MirrorInv, Sync
  PROVE  MirrorInv'
  <1>0. /\ st \in STAs /\ mb \in Mailboxes /\ wk \in Workers /\ ses \in Sessions /\ past \in Ghosts
        /\ env \in [ops : Nat, faults : Nat]
        /\ mb.gen \in Nat /\ mb.gen >= 1 /\ mb.bound \in Nat /\ mb.bound <= mb.gen /\ wk.gen \in Nat
             /\ wk.gen <= mb.gen
        /\ wk.intent \in Held /\ wk.intent.gen \in Nat /\ wk.mismatch \in BOOLEAN
    BY WorkerTypes
  <1>1. wk.pc = "sync" /\ st' = st /\ env' = env /\ ses' = ses /\ past' = past
    BY DEF Sync, WorkerStep
  <1>2. wk' \in Workers /\ wk'.pc = "top" /\ wk'.gen = wk.gen
    <2>1. PICK none \in Held : none = NoIntent
      <3>1. PICK e \in Seq(Nat) : e = <<>>
        BY EmptySeq
      <3>2. [gen |-> 0, kind |-> "none", text |-> e] \in Held
        BY DEF Held
      <3>3. NoIntent = [gen |-> 0, kind |-> "none", text |-> e]
        BY <3>1, Zenon DEF NoIntent
      <3> QED
        BY <3>2, <3>3
    <2>2. wk' = [wk EXCEPT !.pc = "top", !.intent = none]
      BY <2>1 DEF Sync, WorkerStep
    <2> QED
      BY <1>0, <2>2 DEF Workers, PCs
  <1>3. mb' \in Mailboxes /\ mb'.gen = mb.gen /\ mb'.bound = mb.bound /\ mb'.queue = mb.queue
          /\ mb'.dropped = mb.dropped
        /\ (mb'.phase = mb.phase \/ (mb.phase = "reseed_queued" /\ mb'.phase = "synced"))
    <2>1. mb.phase \in Phases
      BY <1>0 DEF Mailboxes
    <2>2. PICK p \in Phases : mb' = [mb EXCEPT !.phase = p]
            /\ (p = mb.phase \/ (mb.phase = "reseed_queued" /\ p = "synced"))
      <3>1. CASE mb.gen = wk.intent.gen /\ mb.phase = "reseed_queued"
        BY <3>1 DEF Sync, Phases
      <3>2. CASE ~(mb.gen = wk.intent.gen /\ mb.phase = "reseed_queued")
        <4>1. mb' = mb
          BY <3>2 DEF Sync
        <4>2. mb' = [mb EXCEPT !.phase = mb.phase]
          BY <1>0, <4>1 DEF Mailboxes
        <4> QED
          BY <2>1, <4>2
      <3> QED
        BY <3>1, <3>2
    <2> QED
      BY <1>0, <2>2 DEF Mailboxes
  <1>4. mb'.phase = mb.phase \/ {mb.phase, mb'.phase} \subseteq Fed
    BY <1>3 DEF Fed
  <1>5. MirrorTypeOK'
    BY <1>0, <1>1, <1>2, <1>3 DEF MirrorTypeOK
  <1>6. Line' = Line
    BY <1>1, <1>2, <1>3 DEF Line, OnTheWay, Doing
  <1>7. Works'
    BY <1>0, <1>1, <1>2, <1>3, <1>6 DEF MirrorInv, Works
  <1> QED
    BY <1>0, <1>1, <1>2, <1>3, <1>4, <1>5, <1>6, <1>7, WorkerKeeps

LEMMA CrashKeeps ==
  ASSUME MirrorInv, Crash
  PROVE  MirrorInv'
  <1>0. /\ st \in STAs /\ mb \in Mailboxes /\ wk \in Workers /\ ses \in Sessions /\ past \in Ghosts
        /\ env \in [ops : Nat, faults : Nat]
        /\ mb.gen \in Nat /\ mb.gen >= 1 /\ mb.bound \in Nat /\ mb.bound <= mb.gen /\ wk.gen \in Nat
             /\ wk.gen <= mb.gen
        /\ wk.intent \in Held /\ wk.intent.gen \in Nat /\ wk.mismatch \in BOOLEAN
    BY WorkerTypes
  <1>1. st' = st /\ mb' = mb /\ wk' = wk /\ past' = past
    BY DEF Crash
  <1>2. ses' \in Sessions /\ ses'.open = ses.open /\ ses'.text = ses.text /\ ~ses'.alive
    BY <1>0 DEF Crash, Sessions
  <1>3. env' \in [ops : Nat, faults : Nat]
    BY <1>0 DEF Crash
  <1>4. MirrorTypeOK'
    BY <1>0, <1>1, <1>2, <1>3 DEF MirrorTypeOK
  <1>5. Line' = Line
    BY <1>1 DEF Line, OnTheWay, Doing
  <1>6. Works'
    BY <1>1, <1>2, <1>5 DEF MirrorInv, Works
  <1> QED
    BY <1>0, <1>1, <1>2, <1>4, <1>5, <1>6, WorkerKeeps

-----------------------------------------------------------------------------
-----------------------------------------------------------------------------
(* The invariant, and what follows from it.                                *)
LEMMA MirrorInitInvariant ==
  MirrorInit => MirrorInv
  <1> SUFFICES ASSUME MirrorInit PROVE MirrorInv
    OBVIOUS
  <1>1. PICK none \in Seq(Nat), q \in Seq(Intents), u \in Todos, held \in Held :
           none = <<>> /\ q = <<>> /\ u = <<>> /\ First(u) = "nothing" /\ held = NoIntent
    <2>1. PICK e \in Seq(Nat) : e = <<>>
      BY EmptySeq
    <2>2. [gen |-> 0, kind |-> "none", text |-> e] \in Held
      BY DEF Held
    <2>3. NoIntent = [gen |-> 0, kind |-> "none", text |-> e]
      BY <2>1, Zenon DEF NoIntent
    <2>4. <<>> \in Seq(Intents)
      BY EmptySeq
    <2> QED
      BY <2>1, <2>2, <2>3, <2>4, Firsts
  <1>2. st = [todo |-> u, composing |-> FALSE, reading |-> none, key |-> 0, cursor |-> FALSE,
        intent |-> held, gen |-> 0]
    BY <1>1, Zenon DEF MirrorInit
  <1>3. mb = [gen |-> 1, phase |-> "dirty", bound |-> 0, queue |-> q, dropped |-> FALSE]
    BY <1>1, Zenon DEF MirrorInit
  <1>4. PICK pc \in {"top", "exit"} : wk = [pc |-> pc, gen |-> 0, intent |-> held, mismatch |-> FALSE]
    BY <1>1, Zenon DEF MirrorInit
  <1>5. ses = Closed /\ env = [ops |-> 0, faults |-> 0] /\ past = [last |-> none, missed |-> FALSE]
    BY <1>1, Zenon DEF MirrorInit
  <1>6. st \in STAs /\ st.todo = u /\ st.gen = 0 /\ st.composing = FALSE
    BY <1>2 DEF STAs
  <1>7. mb \in Mailboxes /\ mb.gen = 1 /\ mb.phase = "dirty" /\ mb.bound = 0 /\ mb.queue = q
          /\ mb.dropped = FALSE
    BY <1>3 DEF Mailboxes, Phases
  <1>8. wk \in Workers /\ wk.pc \in {"top", "exit"} /\ wk.gen = 0
    BY <1>4 DEF Workers, PCs
  <1>9. past \in Ghosts
    BY <1>5 DEF Ghosts
  <1>10. env \in [ops : Nat, faults : Nat]
    BY <1>5
  <1>11. MirrorTypeOK
    BY <1>5, <1>6, <1>7, <1>8, <1>9, <1>10, ClosedSession DEF MirrorTypeOK
  <1>12. Doing = "nothing"
    BY <1>1, <1>6 DEF Doing
  <1>13. Calls
    BY <1>1, <1>6, <1>7, <1>12 DEF Calls
  <1>14. Line = <<>>
    <2>1. OnTheWay = <<>> \o <<>>
      BY <1>1, <1>7, <1>8 DEF OnTheWay
    <2>2. Line = (<<>> \o <<>>) \o <<>>
      BY <1>12, <2>1 DEF Line
    <2> QED
      BY <2>2, NewCalls
  <1>15. Works
    BY <1>5, <1>7, <1>8, ClosedSession DEF Works
  <1>16. Lines
    <2>1. \A K : ~Carries(<<>>, 1, K)
      BY CarriesNothing
    <2>2. DOMAIN Line = {}
      BY <1>14
    <2> QED
      BY <1>7, <1>14, <2>1, <2>2 DEF Lines, Ordered
  <1>17. Faithful
    BY <1>7 DEF Faithful
  <1> QED
    BY <1>11, <1>13, <1>15, <1>16, <1>17 DEF MirrorInv

LEMMA MirrorStepInvariant ==
  MirrorInv /\ [MirrorNext]_mirrorVars => MirrorInv'
  <1> SUFFICES ASSUME MirrorInv, [MirrorNext]_mirrorVars PROVE MirrorInv'
    OBVIOUS
  <1>1. CASE STA
    BY <1>1, Operations
  <1>2. CASE Accesses
    BY <1>2, AdvanceKeeps, BoundKeeps, SendCloseKeeps, TakeKeyKeeps, ReseedKeeps, DeltaKeeps, CommitKeeps,
       SendKeeps, DropSenderKeeps DEF Accesses
  <1>3. CASE InputWorker
    BY <1>3, TurnKeeps, ReceiveKeeps, TakeIntentKeeps, ApplyKeeps, ApplyFailsKeeps, MarkFailedKeeps,
       MarkFailedBoundKeeps, CloseKeeps, SyncKeeps DEF InputWorker
  <1>4. CASE Crash
    BY <1>4, CrashKeeps
  <1>5. CASE UNCHANGED mirrorVars
    <2>1. st' = st /\ mb' = mb /\ wk' = wk /\ ses' = ses /\ env' = env /\ past' = past
      BY <1>5 DEF mirrorVars
    <2>2. MirrorTypeOK'
      BY <2>1 DEF MirrorInv, MirrorTypeOK
    <2>3. Line' = Line
      BY <2>1 DEF Line, OnTheWay, Doing
    <2>4. Works'
      BY <2>1, <2>3 DEF MirrorInv, Works
    <2>5. mb.bound <= mb.gen
      BY DEF MirrorInv, Calls
    <2> QED
      BY <2>1, <2>2, <2>3, <2>4, <2>5, WorkerKeeps
  <1> QED
    BY <1>1, <1>2, <1>3, <1>4, <1>5 DEF MirrorNext

(* At every step of either thread, of begin_composition, try_reseed,       *)
(* try_delta, try_commit_and_close and request_close on the STA and of     *)
(* run_worker and mark_worker_failed on the worker, the word, the line of  *)
(* intents and the session fit together as MirrorInv says.                 *)
THEOREM MirrorInvariant == MirrorSpec => []MirrorInv
  BY MirrorInitInvariant, MirrorStepInvariant, PTL DEF MirrorSpec

(* Every variable of the mirror keeps its type; in particular a call of    *)
(* the STA never has other accesses left than those its handler makes.     *)
THEOREM MirrorTypeCorrect == MirrorSpec => []MirrorTypeOK
  <1>1. MirrorInv => MirrorTypeOK
    BY DEF MirrorInv
  <1> QED
    BY <1>1, MirrorInvariant, PTL

(* Between two calls the line is what is on the way.                       *)
LEMMA InvariantMirrors == MirrorInv => MirrorIsFaithful
  <1> SUFFICES ASSUME MirrorInv, Told, ~past.missed PROVE Mirrored = Intended
    BY DEF MirrorIsFaithful
  <1>1. Doing = "nothing" /\ st.todo = <<>>
    BY DEF Told, Doing, First
  <1>2. Line = OnTheWay
    BY <1>1, TheLine DEF MirrorInv
  <1>3. Carries(Line, mb.gen, {"reseed"}) \/ (wk.gen = mb.gen /\ wk.pc # "failed")
    BY <1>2 DEF Told, Carries, Reseeds
  <1>4. mb.phase # "dirty"
    BY DEF Told
  <1>5. Replayed(mb.gen, IF wk.gen = mb.gen THEN ses.text ELSE <<>>, Line) = Target
    BY <1>1, <1>3, <1>4 DEF MirrorInv, Faithful
  <1>6. Target = Intended
    BY <1>1 DEF Target, Intended
  <1> QED
    BY <1>2, <1>5, <1>6 DEF Mirrored

(* Once the input worker has done what is on the way to it, its engine     *)
(* session holds the reading of the composition, or what was committed,    *)
(* character for character: an intent that is dropped, overtaken by a new  *)
(* generation or applied late never leaves the engine another text.        *)
THEOREM MirrorIsFaithfulAlways == MirrorSpec => []MirrorIsFaithful
  BY MirrorInvariant, InvariantMirrors, PTL

=============================================================================
