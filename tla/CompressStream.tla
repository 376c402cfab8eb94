---------------------------- MODULE CompressStream ----------------------------
(***************************************************************************)
(* What the compressor promises its caller: a header, then compressed      *)
(* blocks that together hold the input [0, Total) exactly once and in      *)
(* order, each primed with nothing but input that precedes it, the last    *)
(* one and only the last one ending the DEFLATE stream, then a trailer     *)
(* with the length and the check value of the whole input.                 *)
(*                                                                         *)
(* Positions in the input are natural numbers, and a check value is the    *)
(* interval of the input it was computed from.                             *)
(***************************************************************************)
EXTENDS Integers, Sequences

CONSTANT Total   \* length of the input

VARIABLE sink    \* what has been written, one item per write

Header == [kind |-> "header"]

\* Input [from, to) compressed after the window was primed with the input
\* [dictFrom, dictTo), which is empty when there is no dictionary.
Deflated(from, to, dictFrom, dictTo, last) ==
  [kind |-> "block", from |-> from, to |-> to,
   dictFrom |-> dictFrom, dictTo |-> dictTo, last |-> last]

Trailer(len, check) == [kind |-> "trailer", len |-> len, check |-> check]

Interval(from, to) == [from |-> from, to |-> to]

\* How much of the input a reader of the sink can restore so far.
Restored == IF sink[Len(sink)].kind = "block" THEN sink[Len(sink)].to ELSE 0

\* A reader of the sink expects another block.
Unfinished == /\ sink # <<>>
              /\ \/ sink[Len(sink)].kind = "header"
                 \/ sink[Len(sink)].kind = "block" /\ ~sink[Len(sink)].last

Begin == sink = <<>> /\ sink' = <<Header>>

\* A block is never empty, except the one that stands for an empty input.
AddBlock ==
  /\ Unfinished
  /\ \E to \in Restored .. Total, dictFrom \in 0 .. Restored :
       /\ to = Restored => Total = 0
       /\ sink' = Append(sink, Deflated(Restored, to, dictFrom, Restored, to = Total))

End ==
  /\ sink # <<>> /\ sink[Len(sink)].kind = "block" /\ sink[Len(sink)].last
  /\ sink' = Append(sink, Trailer(Total, Interval(0, Total)))

Init == sink = <<>>

Next == Begin \/ AddBlock \/ End

Spec == Init /\ [][Next]_sink
===============================================================================
