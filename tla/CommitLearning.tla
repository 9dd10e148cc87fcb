--------------------------- MODULE CommitLearning ---------------------------
(***************************************************************************)
(* What commit learning promises, whatever happens to processes, pipes and *)
(* settings in between.  A confirmed text is learned at most once; the     *)
(* client is told one verdict at most; "learned" is told only of what was  *)
(* learned, and what is told "refused" never becomes learned afterwards.   *)
(* A verdict "unknown" (timed out, expired, engine gone) promises nothing. *)
(***************************************************************************)
EXTENDS Integers

CONSTANT CommitIds
VARIABLES
  written,   \* the commits whose text is confirmed
  times,     \* how often each one was accepted by the learners
  verdict    \* what the client was told of each one

vars == <<written, times, verdict>>

Init ==
  /\ written = {}
  /\ times = [i \in CommitIds |-> 0]
  /\ verdict = [i \in CommitIds |-> "none"]

Write(i) ==
  /\ i \notin written
  /\ written' = written \cup {i}
  /\ UNCHANGED <<times, verdict>>

(* The client may hear of it at once, later or never.                      *)
Learn(i) ==
  /\ i \in written /\ times[i] = 0 /\ verdict[i] # "refused"
  /\ times' = [times EXCEPT ![i] = 1]
  /\ \/ verdict[i] = "none" /\ verdict' = [verdict EXCEPT ![i] = "learned"]
     \/ UNCHANGED verdict
  /\ UNCHANGED written

Tell(i, v) ==
  /\ i \in written /\ verdict[i] = "none"
  /\ v = "learned" => times[i] = 1
  /\ v = "refused" => times[i] = 0
  /\ verdict' = [verdict EXCEPT ![i] = v]
  /\ UNCHANGED <<written, times>>

(* A receipt the full outbox refuses is confirmed and told at once.        *)
WriteAndTell(i) ==
  /\ i \notin written
  /\ written' = written \cup {i}
  /\ verdict' = [verdict EXCEPT ![i] = "unknown"]
  /\ UNCHANGED times

Next ==
  \E i \in CommitIds :
    \/ Write(i) \/ WriteAndTell(i) \/ Learn(i)
    \/ \E v \in {"learned", "refused", "unknown"} : Tell(i, v)

Spec == Init /\ [][Next]_vars
=============================================================================
