------------------------------ MODULE Decompress -------------------------------
(***************************************************************************)
(* Decompressor::infchk (src/src/pigzpp/decompress.cpp): the main thread   *)
(* parses headers, feeds what the reader has loaded to inflate, passes on  *)
(* what inflate restores, and verifies the sums behind each member.        *)
(*                                                                         *)
(* The input is a sequence of units, as in InflateStream: a header, a      *)
(* piece of DEFLATE data from which inflate restores a block, the end of   *)
(* the DEFLATE data, the sums of a member, or something else. inflate is   *)
(* zlib's inflateBack or ISA-L's isal_inflate, as the build has it.        *)
(***************************************************************************)
EXTENDS InputReader, ParallelOutput

CONSTANTS
  Files,     \* the inputs considered, a set of sequences of units
  Faults     \* which of "read" and "write" may fail

VARIABLES
  mode,      \* cfg_.mode
  isal,      \* whether the build uses ISA-L
  mpc,       \* where infchk is
  thrown,    \* an exception is on its way to the caller
  failed,    \* history: a call to read the input or to write has failed
  hdr,       \* hdr, the unit with the header of the current member
  form,      \* form, the format of the first member
  zNext,     \* inflate's next_in
  zLeft,     \* inflate's avail_in
  block,     \* the block inflate has restored
  ctxCheck,  \* ctx.out_check
  ctxTot     \* ctx.out_tot

infchkVars == <<mpc, thrown, failed, hdr, form, zNext, zLeft, block, ctxCheck, ctxTot>>
given == <<file, procs, mode, isal>>
vars == <<given, readerVars, outputVars, infchkVars>>

Ended == mpc = "done" \/ loader = "aborted" \/ writer = "aborted"

\* What infchk promises.
Stream == INSTANCE InflateStream WITH
  discard <- mode # "decompress",
  verdict <- IF mpc # "done" THEN "none" ELSE IF thrown THEN "rejected" ELSE "accepted"

ASSUME FilesAssumption ==
  Files \subseteq Seq(Stream!Units) /\ Faults \subseteq {"read", "write"}

Format(head) == IF head \in {"zipbad", "zipd"} THEN "zip" ELSE head

Testing == mode # "decompress"
Parallel == procs > 1 /\ mode # "list"

Init ==
  /\ file \in Files /\ procs \in {1, 2}
  /\ mode \in {"decompress", "test", "list"} /\ isal \in BOOLEAN
  /\ OpenReader /\ NoOutput /\ sink = <<>>
  /\ mpc = "header" /\ thrown = FALSE /\ failed = FALSE /\ hdr = "none" /\ form = "none"
  /\ zNext = [buf |-> 1, off |-> 0] /\ zLeft = 0 /\ block = 0
  /\ ctxCheck = Empty /\ ctxTot = 0

-------------------------------------------------------------------------------
(* Input. *)

At(from, to) == mpc = from /\ mpc' = to

\* An exception, from a place where ParallelOutput is there to be destroyed.
Throw == mpc' = "unwind" /\ thrown' = TRUE /\ UNCHANGED failed

\* The same, from a call that fails.
Fail == mpc' = "unwind" /\ thrown' = TRUE /\ failed' = TRUE

\* The sums of a zip entry without a data descriptor are in its header.
InHeader == form = "zip" /\ hdr # "zipd"

NeedsUnit == \/ mpc \in {"header", "more"}
             \/ mpc = "sums" /\ ~InHeader
             \/ mpc = "inflate" /\ zLeft = 0

Load ==
  /\ NeedsUnit /\ inLeft = 0 /\ ~inEof
  /\ LoadStep
  /\ UNCHANGED <<given, outputVars, infchkVars>>

\* readn() fails without a read-ahead thread.
LoadError ==
  /\ "read" \in Faults /\ procs <= 1
  /\ NeedsUnit /\ inLeft = 0 /\ ~inEof /\ ~inShort
  /\ Fail
  /\ UNCHANGED <<given, readerVars, outputVars, hdr, form, zNext, zLeft, block, ctxCheck, ctxTot>>

\* The next unit, which get() answers with zeros at the end of the input.
NextUnit(u) ==
  \/ inLeft > 0 /\ u = UnitAt(inNext)
  \/ inLeft = 0 /\ inEof /\ u = "none"

ConsumeUnit ==
  /\ IF inLeft > 0 THEN Get ELSE UNCHANGED <<inLeft, inNext>>
  /\ UNCHANGED <<fdPos, buffer, inEof, inShort, inTot, inWhich, loadState, inLen, loader>>

GetHeader(u) ==
  /\ mpc = "header" /\ NextUnit(u) /\ ConsumeUnit
  /\ \/ /\ u \in Stream!Heads
        /\ hdr' = u /\ form' = Format(u)
        /\ mpc' = "start"
        /\ UNCHANGED <<thrown, failed>>
     \/ /\ u \notin Stream!Heads
        /\ Throw
        /\ UNCHANGED <<hdr, form>>
  /\ UNCHANGED <<given, outputVars, zNext, zLeft, block, ctxCheck, ctxTot>>

-------------------------------------------------------------------------------
(* A member. *)

StartMember ==
  /\ At("start", "inflate")
  /\ ctxCheck' = Empty /\ ctxTot' = 0
  /\ zLeft' = 0
  /\ IF Parallel THEN Start ELSE UNCHANGED outputVars
  /\ UNCHANGED <<given, readerVars, thrown, failed, hdr, form, zNext, block>>

\* Mutant of Fetch: the reader keeps what inflate has been given.
FetchKeep ==
  /\ mpc = "inflate" /\ zLeft = 0 /\ inLeft > 0
  /\ zNext' = inNext /\ zLeft' = inLeft
  /\ UNCHANGED <<given, readerVars, outputVars, mpc, thrown, failed, hdr, form, block, ctxCheck, ctxTot>>

\* The whole buffer is handed to inflate.
Fetch ==
  /\ mpc = "inflate" /\ zLeft = 0 /\ inLeft > 0
  /\ zNext' = inNext /\ zLeft' = inLeft
  /\ inNext' = Behind(inNext, inLeft) /\ inLeft' = 0
  /\ UNCHANGED <<given, fdPos, buffer, inEof, inShort, inTot, inWhich, loadState, inLen, loader,
                 outputVars, mpc, thrown, failed, hdr, form, block, ctxCheck, ctxTot>>

\* A block is restored.
Inflate ==
  /\ mpc = "inflate" /\ zLeft > 0 /\ UnitAt(zNext) = "data"
  /\ block' = PositionOf(zNext)
  /\ zNext' = Behind(zNext, 1) /\ zLeft' = zLeft - 1
  /\ mpc' = IF Parallel THEN "push" ELSE "output"
  /\ UNCHANGED <<given, readerVars, outputVars, thrown, failed, hdr, form, ctxCheck, ctxTot>>

\* Mutant of Restore: the length is given back as it was.
RestoreLength(n) ==
  /\ inNext' = Behind(zNext, n) /\ inLeft' = zLeft
  /\ UNCHANGED <<fdPos, buffer, inEof, inShort, inTot, inWhich, loadState, inLen, loader>>

\* What inflate leaves when it has used n units goes back to the reader.
Restore(n) ==
  /\ inNext' = Behind(zNext, n) /\ inLeft' = zLeft - n
  /\ UNCHANGED <<fdPos, buffer, inEof, inShort, inTot, inWhich, loadState, inLen, loader>>

AfterData == IF Parallel THEN "finish" ELSE "sums"

EndOfData ==
  /\ mpc = "inflate" /\ zLeft > 0 /\ UnitAt(zNext) = "end"
  /\ Restore(1)
  /\ mpc' = AfterData
  /\ UNCHANGED <<given, outputVars, thrown, failed, hdr, form, zNext, zLeft, block, ctxCheck, ctxTot>>

\* Invalid DEFLATE data: zlib's remainder is restored before the exception.
Corrupted ==
  /\ mpc = "inflate" /\ zLeft > 0 /\ UnitAt(zNext) \notin {"data", "end"}
  /\ \/ isal /\ UNCHANGED readerVars
     \/ ~isal /\ Restore(0)
  /\ Throw
  /\ UNCHANGED <<given, outputVars, hdr, form, zNext, zLeft, block, ctxCheck, ctxTot>>

\* The input ends in the DEFLATE data, on which ISA-L's loop just stops, and
\* may do so before another load(), if isal_inflate answers ISAL_END_INPUT.
Incomplete ==
  /\ mpc = "inflate" /\ zLeft = 0 /\ inLeft = 0
  /\ inEof \/ (isal /\ Consumed = Len(file))
  /\ Restore(0)
  /\ \/ isal /\ mpc' = AfterData /\ UNCHANGED <<thrown, failed>>
     \/ ~isal /\ Throw
  /\ UNCHANGED <<given, outputVars, hdr, form, zNext, zLeft, block, ctxCheck, ctxTot>>

-------------------------------------------------------------------------------
(* Output. *)

Output ==
  /\ At("output", "inflate")
  /\ sink' = IF Testing THEN sink ELSE Append(sink, block)
  /\ ctxCheck' = Check(ctxCheck, block) /\ ctxTot' = ctxTot + 1
  /\ UNCHANGED <<given, readerVars, outCopy, outLen, writeState, checkState, outCheck, outTot,
                 started, writer, checker, thrown, failed, hdr, form, zNext, zLeft, block>>

OutputError ==
  /\ "write" \in Faults /\ ~Testing
  /\ mpc = "output"
  /\ Fail
  /\ UNCHANGED <<given, readerVars, outputVars, hdr, form, zNext, zLeft, block, ctxCheck, ctxTot>>

Push ==
  /\ At("push", "pushed") /\ PushCopy(block)
  /\ UNCHANGED <<given, readerVars, thrown, failed, hdr, form, zNext, zLeft, block, ctxCheck, ctxTot>>

Pushed ==
  /\ At("pushed", "inflate") /\ PushCheck
  /\ UNCHANGED <<given, readerVars, thrown, failed, hdr, form, zNext, zLeft, block, ctxCheck, ctxTot>>

Finish ==
  /\ At("finish", "finished") /\ PushEnd
  /\ UNCHANGED <<given, readerVars, thrown, failed, hdr, form, zNext, zLeft, block, ctxCheck, ctxTot>>

Finished ==
  /\ At("finished", "join") /\ PushCheck
  /\ UNCHANGED <<given, readerVars, thrown, failed, hdr, form, zNext, zLeft, block, ctxCheck, ctxTot>>

JoinOutput ==
  /\ At("join", "sums") /\ Join
  /\ ctxCheck' = outCheck /\ ctxTot' = outTot
  /\ UNCHANGED <<given, readerVars, thrown, failed, hdr, form, zNext, zLeft, block>>

-------------------------------------------------------------------------------
(* The sums, and what follows. *)

\* The last header before the position n, and the unit after the data behind it.
LastHead(n) == CHOOSE h \in 0 .. n : /\ h = 0 \/ file[h] \in Stream!Heads
                                     /\ \A i \in h + 1 .. n : file[i] \notin Stream!Heads
EndOf(h) == CHOOSE e \in h + 1 .. Len(file) + 1 :
              /\ e = Len(file) + 1 \/ file[e] # "data"
              /\ \A i \in h + 1 .. e - 1 : file[i] = "data"

\* The check value and the length are those of all the data of the member,
\* which is what its sums state.
Matching ==
  LET h == LastHead(Consumed)
      e == EndOf(h)
  IN /\ e <= Len(file) /\ ctxTot = e - h - 1
     /\ ctxCheck = IF e = h + 1 THEN Empty ELSE [from |-> h + 1, to |-> e]

HeaderSums == IF hdr = "zip" THEN "sum" ELSE "bad"

\* The sums of a member in another format than the first are read as if they
\* were in the format of the first.
VerifySums(u) ==
  /\ mpc = "sums"
  /\ IF InHeader THEN u = HeaderSums /\ UNCHANGED readerVars ELSE NextUnit(u) /\ ConsumeUnit
  /\ \/ /\ u = "sum" /\ Matching /\ Format(hdr) = form
        /\ mpc' = IF form = "gzip" THEN "more" ELSE "close"
        /\ UNCHANGED <<thrown, failed>>
     \/ /\ ~(u = "sum" /\ Matching /\ Format(hdr) = form)
        /\ Throw
  /\ UNCHANGED <<given, outputVars, hdr, form, zNext, zLeft, block, ctxCheck, ctxTot>>

\* Any header continues, in the format of the first; anything else is left.
NextMember(u) ==
  /\ mpc = "more" /\ NextUnit(u) /\ ConsumeUnit
  /\ \/ u \in Stream!Heads /\ hdr' = u /\ mpc' = "start"
     \/ u \notin Stream!Heads /\ mpc' = "close" /\ UNCHANGED hdr
  /\ UNCHANGED <<given, outputVars, thrown, failed, form, zNext, zLeft, block, ctxCheck, ctxTot>>

\* The destructor of ParallelOutput joins its threads if they have not been.
Unwind ==
  /\ At("unwind", "close")
  /\ started => BothExited
  /\ UNCHANGED <<given, readerVars, outputVars, thrown, failed, hdr, form, zNext, zLeft, block,
                 ctxCheck, ctxTot>>

\* The destructor of the reader.
Close ==
  /\ mpc = "close"
  /\ \/ inWhich = -1 /\ mpc' = "done" /\ UNCHANGED readerVars
     \/ (CloseRequest \/ CloseJoin) /\ UNCHANGED mpc
  /\ UNCHANGED <<given, outputVars, thrown, failed, hdr, form, zNext, zLeft, block, ctxCheck, ctxTot>>

-------------------------------------------------------------------------------

Main ==
  \/ Load \/ LoadError \/ StartMember \/ Fetch \/ Inflate \/ EndOfData \/ Corrupted
  \/ Incomplete \/ Output \/ OutputError \/ Push \/ Pushed \/ Finish \/ Finished
  \/ JoinOutput \/ Unwind \/ Close
  \/ \E u \in Stream!Units \cup {"none"} : GetHeader(u) \/ VerifySums(u) \/ NextMember(u)

ReadAhead == /\ Loader \/ ("read" \in Faults /\ LoaderError)
             /\ UNCHANGED <<given, outputVars, infchkVars>>
Writer == /\ \/ WriteBlock(Testing) \/ WriteReturn
             \/ "write" \in Faults /\ WriteFailure(Testing)
          /\ UNCHANGED <<given, readerVars, infchkVars>>
CheckThread == Checker /\ UNCHANGED <<given, readerVars, infchkVars>>

Terminated == Ended /\ UNCHANGED vars

Next ==
  \/ ~Ended /\ (Main \/ ReadAhead \/ Writer \/ CheckThread)
  \/ Terminated

Spec == Init /\ [][Next]_vars

\* Every thread is scheduled: none is kept from a step it can take for ever.
Running(A) == ~Ended /\ A
Fairness == /\ WF_vars(Running(Main)) /\ WF_vars(Running(ReadAhead))
            /\ WF_vars(Running(Writer)) /\ WF_vars(Running(CheckThread))

FairSpec == Spec /\ Fairness

-------------------------------------------------------------------------------

InfchkTypeOK ==
  /\ procs \in {1, 2} /\ mode \in {"decompress", "test", "list"} /\ isal \in BOOLEAN
  /\ mpc \in {"header", "start", "inflate", "output", "push", "pushed", "finish", "finished",
              "join", "sums", "more", "unwind", "close", "done"}
  /\ thrown \in BOOLEAN /\ failed \in BOOLEAN
  /\ hdr \in Stream!Heads \cup {"none"} /\ form \in {"gzip", "zlib", "zip", "none"}
  /\ zNext \in [buf : {0, 1}, off : 0 .. Buf] /\ zLeft \in 0 .. Buf
  /\ block \in 0 .. Len(file)
  /\ ctxCheck \in [from : Nat, to : Nat] /\ ctxTot \in Nat

\* Every variable has the type its declaration gives it, the counters and
\* pointers of the reader stay within its buffers and the input.
TypeOK == ReaderTypeOK /\ OutputTypeOK /\ InfchkTypeOK

\* As long as inflate has anything left of the buffer it was given, the buffer
\* has not been refilled under it: it gets the units of the input in turn
\* (decompress.cpp:155-157, format.cpp:350-353).
InflateInTurn ==
  mpc \in {"inflate", "output", "push", "pushed"} /\ zLeft > 0 =>
    inLeft = 0 /\ PositionOf(zNext) = inTot - zLeft + 1

\* When the sums are verified, what was checked is what was written: all of
\* the data of this member, and no piece of it is still with a thread
\* (decompress.cpp:97-103, 419-423).
CheckedAsWritten ==
  mpc = "sums" /\ ~Testing =>
    ctxCheck = IF ctxTot = 0 THEN Empty
               ELSE [from |-> sink[Len(sink) - ctxTot + 1], to |-> sink[Len(sink)] + 1]

\* Whatever the threads do, what is written is the contents of the input and
\* the input is accepted if and only if it is intact.
WritesContent == Stream!Spec

\* The call comes to an end, by returning, by an exception or by terminating
\* the program.
CallEnds == <>Ended

\* No thread waits for another for ever, on any input and with any failure of reading
\* or writing, except where an exception meets the two threads of ParallelOutput
\* running, which is CallEnds' matter: the read-ahead thread always comes to be joined,
\* and neither push() nor finish() waits in vain (format.cpp:273-294, decompress.cpp:79-128).
EndsUnlessThrown == <>(Ended \/ (mpc = "unwind" /\ started))
===============================================================================
