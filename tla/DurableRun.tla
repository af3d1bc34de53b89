---------------------------- MODULE DurableRun ----------------------------
(***************************************************************************)
(* What a durable coroutine promises its caller, whatever the frames,     *)
(* spans and unwinds that implement it (spec 8, invariants 1 and 2): the   *)
(* events of its program happen in program order, each once; the state    *)
(* can be saved only where the coroutine is suspended at a yield (or has   *)
(* not begun); and a new process continues from the saved point, as if     *)
(* everything after it had not happened.                                   *)
(***************************************************************************)
EXTENDS Sequences, SequencesExt

CONSTANT Trace   \* the events of the program run as ordinary code

VARIABLES
  alog,    \* the events that have happened in this lineage
  ackpt    \* the events that had happened when the state was saved

avars == <<alog, ackpt>>

(* The coroutine is where a save is meaningful: before its first event or  *)
(* right after it yielded.                                                 *)
AtSuspension == alog = <<>> \/ Last(alog).ev = "yield"

Init ==
  /\ alog = <<>>
  /\ ackpt = <<>>

(* The program runs on: one or more of its next events happen.             *)
Progress ==
  /\ \E n \in Len(alog) + 1..Len(Trace) : alog' = SubSeq(Trace, 1, n)
  /\ UNCHANGED ackpt

(* The caller saves the coroutine.                                         *)
Checkpoint ==
  /\ AtSuspension
  /\ ackpt' = alog
  /\ UNCHANGED alog

(* A new process resumes from the saved state.                             *)
Rollback ==
  /\ alog' = ackpt
  /\ UNCHANGED ackpt

Next == Progress \/ Checkpoint \/ Rollback

Spec == Init /\ [][Next]_avars

=============================================================================
