----------------------------- MODULE InflateStream -----------------------------
(***************************************************************************)
(* What the decompressor promises its caller: of a file it writes the      *)
(* contents of the members it consists of, each piece once and in order,   *)
(* and accepts the file if every member is intact and rejects it if not.   *)
(*                                                                         *)
(* A file is a sequence of units: the header of a member ("gzip", "zlib",  *)
(* "zip" or "zipbad" for a zip entry whose sums, right or wrong, are in    *)
(* its header, "zipd" for one whose sums follow the data), a piece of      *)
(* DEFLATE data ("data"), the end of the DEFLATE data ("end"), the sums    *)
(* that follow it ("sum" if they are those of the data, "bad" if not), and *)
(* anything else ("junk").                                                 *)
(***************************************************************************)
EXTENDS Integers, Sequences

CONSTANT Faults    \* which of "read" and "write" may fail

VARIABLES
  file,      \* the input
  discard,   \* whether what is restored is thrown away
  sink,      \* what has been written: the positions of the pieces in the file
  verdict,   \* "none", "accepted" or "rejected"
  failed     \* whether a call to read the input or to write has failed

svars == <<file, discard, sink, verdict, failed>>

Heads == {"gzip", "zlib", "zip", "zipbad", "zipd"}
Units == Heads \cup {"data", "end", "sum", "bad", "junk"}

\* Where a reader of the format is: before the header ("head"), in the data of
\* a member ("data"), before the sums ("sums"), after a gzip member, where
\* another one may follow ("member"), at the end of what there is to restore,
\* where anything may follow ("complete"), or behind something that does not
\* belong there ("broken").
Follows(at, form, u) ==
  CASE at = "head"   -> IF u \in Heads THEN "data" ELSE "broken"
    [] at = "data"   -> IF u = "data" THEN "data"
                        ELSE IF u # "end" THEN "broken"
                        ELSE IF form = "zip" THEN "complete"
                        ELSE IF form = "zipbad" THEN "broken" ELSE "sums"
    [] at = "sums"   -> IF u # "sum" THEN "broken"
                        ELSE IF form = "gzip" THEN "member" ELSE "complete"
    [] at = "member" -> IF u = "gzip" THEN "data" ELSE "complete"
    [] OTHER         -> at

After[n \in 0 .. Len(file)] ==
  IF n = 0 THEN [at |-> "head", form |-> "none"]
  ELSE LET s == After[n - 1]
           u == file[n]
       IN [at   |-> Follows(s.at, s.form, u),
           form |-> IF s.at = "head" /\ u \in Heads THEN u ELSE s.form]

\* The pieces of the file that are to be restored.
Content == {n \in 1 .. Len(file) : file[n] = "data" /\ After[n - 1].at = "data"}

Intact == After[Len(file)].at \in {"member", "complete"}

\* What follows a gzip member is the header of a member of another format.
ForeignFollows == \E n \in 1 .. Len(file) : After[n - 1].at = "member" /\ file[n] \in Heads \ {"gzip"}

Missing == {n \in Content : \A i \in 1 .. Len(sink) : sink[i] # n}

Write ==
  /\ verdict = "none" /\ ~discard
  /\ \E n \in Missing : /\ \A m \in Missing : n <= m
                        /\ sink' = Append(sink, n)
  /\ UNCHANGED <<file, discard, verdict, failed>>

Fail ==
  /\ verdict = "none" /\ Faults # {}
  /\ failed' = TRUE
  /\ UNCHANGED <<file, discard, sink, verdict>>

Accept ==
  /\ verdict = "none" /\ Intact
  /\ discard \/ Missing = {}
  /\ verdict' = "accepted"
  /\ UNCHANGED <<file, discard, sink, failed>>

Reject ==
  /\ verdict = "none"
  /\ ~Intact \/ failed
  /\ verdict' = "rejected"
  /\ UNCHANGED <<file, discard, sink, failed>>

Init ==
  /\ file \in Seq(Units) /\ discard \in BOOLEAN
  /\ sink = <<>> /\ verdict = "none" /\ failed = FALSE

Next == Write \/ Fail \/ Accept \/ Reject

Spec == Init /\ [][Next]_svars
===============================================================================
