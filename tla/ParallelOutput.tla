---------------------------- MODULE ParallelOutput -----------------------------
(***************************************************************************)
(* ParallelOutput (src/src/pigzpp/decompress.cpp): what inflate restores   *)
(* is copied into one buffer, from which one thread writes it and another  *)
(* one computes its check value. An atomic variable for each thread hands  *)
(* the buffer over and back. The operations start(), push() and finish()   *)
(* are called by Decompress, which says when.                              *)
(*                                                                         *)
(* A block is named by its position in the input, and a check value by the *)
(* interval [from, to) of blocks it covers.                                *)
(***************************************************************************)
EXTENDS Integers, Sequences

VARIABLES
  outCopy,    \* out_copy, the block in the buffer
  outLen,     \* out_len: 1 with a block in the buffer, 0 at the end
  writeState, \* write_state
  checkState, \* check_state
  outCheck,   \* out_check
  outTot,     \* out_tot
  started,    \* started
  writer,     \* write thread: where it is
  checker,    \* check thread: where it is
  sink        \* what has been written

outputVars == <<outCopy, outLen, writeState, checkState, outCheck, outTot, started,
                writer, checker, sink>>

Empty == [from |-> 0, to |-> 0]
Garbled == [from |-> 1, to |-> 0]

\* check() of one more block.
Check(c, b) ==
  IF c = Empty THEN [from |-> b, to |-> b + 1]
  ELSE IF c.to = b THEN [c EXCEPT !.to = b + 1] ELSE Garbled

NoOutput ==
  /\ outCopy = 0 /\ outLen = 0 /\ writeState = 0 /\ checkState = 0
  /\ outCheck = Empty /\ outTot = 0 /\ started = FALSE
  /\ writer = "unborn" /\ checker = "unborn"

-------------------------------------------------------------------------------
(* The calls. *)

Start ==
  /\ outCheck' = Empty /\ outTot' = 0
  /\ writeState' = 0 /\ checkState' = 0
  /\ writer' = "idle" /\ checker' = "idle"
  /\ started' = TRUE
  /\ UNCHANGED <<outCopy, outLen, sink>>

\* Mutants of PushWait: only one of the threads is waited for.
PushWaitCheck == checkState = 0
PushWaitWrite == writeState = 0

\* Both threads have given the buffer back.
PushWait == checkState = 0 /\ writeState = 0

\* The block is copied and handed to the write thread.
PushCopy(b) ==
  /\ PushWait
  /\ outLen' = 1 /\ outCopy' = b /\ outTot' = outTot + 1
  /\ writeState' = 1
  /\ UNCHANGED <<checkState, outCheck, started, writer, checker, sink>>

\* The sentinel, a push of nothing.
PushEnd ==
  /\ PushWait
  /\ outLen' = 0
  /\ writeState' = 1
  /\ UNCHANGED <<outCopy, checkState, outCheck, outTot, started, writer, checker, sink>>

\* The buffer is handed to the check thread, too.
PushCheck ==
  /\ checkState' = 1
  /\ UNCHANGED <<outCopy, outLen, writeState, outCheck, outTot, started, writer, checker, sink>>

BothExited == writer = "exited" /\ checker = "exited"

\* The end of finish().
Join ==
  /\ BothExited
  /\ started' = FALSE
  /\ UNCHANGED <<outCopy, outLen, writeState, checkState, outCheck, outTot, writer, checker, sink>>

-------------------------------------------------------------------------------
(* The threads. *)

\* The length is read, and the block written unless it is only tested.
WriteBlock(testing) ==
  /\ writer = "idle" /\ writeState = 1
  /\ writer' = IF outLen = 0 THEN "leaving" ELSE "wrote"
  /\ sink' = IF outLen > 0 /\ ~testing THEN Append(sink, outCopy) ELSE sink
  /\ UNCHANGED <<outCopy, outLen, writeState, checkState, outCheck, outTot, started, checker>>

\* writen() fails and the exception leaves the thread function: std::terminate.
WriteFailure(testing) ==
  /\ writer = "idle" /\ writeState = 1 /\ outLen > 0 /\ ~testing
  /\ writer' = "aborted"
  /\ UNCHANGED <<outCopy, outLen, writeState, checkState, outCheck, outTot, started, checker, sink>>

WriteReturn ==
  /\ writer \in {"wrote", "leaving"}
  /\ writeState' = 0
  /\ writer' = IF writer = "wrote" THEN "idle" ELSE "exited"
  /\ UNCHANGED <<outCopy, outLen, checkState, outCheck, outTot, started, checker, sink>>

CheckBlock ==
  /\ checker = "idle" /\ checkState = 1
  /\ checker' = IF outLen = 0 THEN "leaving" ELSE "checked"
  /\ outCheck' = IF outLen > 0 THEN Check(outCheck, outCopy) ELSE outCheck
  /\ UNCHANGED <<outCopy, outLen, writeState, checkState, outTot, started, writer, sink>>

CheckReturn ==
  /\ checker \in {"checked", "leaving"}
  /\ checkState' = 0
  /\ checker' = IF checker = "checked" THEN "idle" ELSE "exited"
  /\ UNCHANGED <<outCopy, outLen, writeState, outCheck, outTot, started, writer, sink>>

Checker == CheckBlock \/ CheckReturn

-------------------------------------------------------------------------------

OutputTypeOK ==
  /\ outCopy \in Nat /\ outLen \in {0, 1} /\ writeState \in {0, 1} /\ checkState \in {0, 1}
  /\ outCheck \in [from : Nat, to : Nat] /\ outTot \in Nat /\ started \in BOOLEAN
  /\ writer \in {"unborn", "idle", "wrote", "leaving", "exited", "aborted"}
  /\ checker \in {"unborn", "idle", "checked", "leaving", "exited"}
  /\ sink \in Seq(Nat)
===============================================================================
