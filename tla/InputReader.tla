------------------------------ MODULE InputReader ------------------------------
(***************************************************************************)
(* InputReader (src/src/pigzpp/format.h, format.cpp): the input of the     *)
(* decompressor, read a buffer at a time. With more than one thread a      *)
(* read-ahead thread fills one of two buffers while the other is consumed. *)
(* The operations are called by Decompress, which says when.               *)
(***************************************************************************)
EXTENDS Integers, Sequences

CONSTANT Buf    \* BUF, the size of a buffer

ASSUME BufAssumption == Buf \in Nat \ {0}

VARIABLES
  file,      \* the input
  procs,     \* procs_, the number of threads asked for
  fdPos,     \* how much of the input has been read from fd_
  buffer,    \* in_buf2_ (0) and in_buf_ (1): where in the file their content begins
  inNext,    \* in_next_: a buffer and an offset into it
  inLeft,    \* in_left_, what is left of that buffer
  inEof,     \* in_eof_
  inShort,   \* in_short_, the last read was a short one
  inTot,     \* in_tot_, how much has been loaded
  inWhich,   \* in_which_: the buffer to be filled, -1 without a read-ahead thread
  loadState, \* load_state_: 0 done, 1 read, 2 exit
  inLen,     \* in_len_, length of the last read
  loader     \* read-ahead thread: where it is

readerVars == <<fdPos, buffer, inNext, inLeft, inEof, inShort, inTot, inWhich,
                loadState, inLen, loader>>

\* The constructor and reset().
OpenReader ==
  /\ fdPos = 0 /\ buffer = [b \in {0, 1} |-> 0]
  /\ inNext = [buf |-> 1, off |-> 0] /\ inLeft = 0
  /\ inEof = FALSE /\ inShort = FALSE /\ inTot = 0
  /\ inWhich = -1 /\ loadState = 0 /\ inLen = 0 /\ loader = "unborn"

\* What a pointer into a buffer points at, by its position in the file.
PositionOf(p) == buffer[p.buf] + p.off + 1
UnitAt(p) == IF PositionOf(p) \in 1 .. Len(file) THEN file[PositionOf(p)] ELSE "junk"

Behind(p, n) == [p EXCEPT !.off = @ + n]

\* get(), for a unit that is there.
Get == inLeft' = inLeft - 1 /\ inNext' = Behind(inNext, 1)

\* How much of the input has been consumed.
Consumed == inTot - inLeft

-------------------------------------------------------------------------------
(* load(), called when the buffer is used up. *)

\* readn(): a full buffer, or what is left of the input.
Readable == IF Len(file) - fdPos < Buf THEN Len(file) - fdPos ELSE Buf

Loaded(n) ==
  /\ inLeft' = n /\ inTot' = inTot + n
  /\ inShort' = (n < Buf) /\ inEof' = (inEof \/ n = 0)

\* After a short read there is nothing to come.
LoadNothing ==
  /\ inShort
  /\ inEof' = TRUE /\ inLeft' = 0
  /\ UNCHANGED <<fdPos, buffer, inNext, inShort, inTot, inWhich, loadState, inLen, loader>>

LoadDirect ==
  /\ ~inShort /\ procs <= 1
  /\ buffer' = [buffer EXCEPT ![1] = fdPos]
  /\ fdPos' = fdPos + Readable
  /\ inNext' = [buf |-> 1, off |-> 0]
  /\ Loaded(Readable)
  /\ UNCHANGED <<inWhich, loadState, inLen, loader>>

\* The first load launches the read-ahead thread.
LoadLaunch ==
  /\ ~inShort /\ procs > 1 /\ inWhich = -1
  /\ inWhich' = 1 /\ loadState' = 1 /\ loader' = "idle"
  /\ UNCHANGED <<fdPos, buffer, inNext, inLeft, inEof, inShort, inTot, inLen>>

\* Mutant of LoadSwap: the next read goes into the buffer just taken.
LoadSame ==
  /\ ~inShort /\ procs > 1 /\ inWhich # -1 /\ loadState = 0 /\ inLen = Buf
  /\ inNext' = [buf |-> inWhich, off |-> 0]
  /\ Loaded(inLen)
  /\ loadState' = 1
  /\ UNCHANGED <<fdPos, buffer, inWhich, inLen, loader>>

\* load_wait(), then the buffer just filled is taken and the other is requested.
LoadSwap ==
  /\ ~inShort /\ procs > 1 /\ inWhich # -1 /\ loadState = 0 /\ inLen = Buf
  /\ inNext' = [buf |-> inWhich, off |-> 0]
  /\ Loaded(inLen)
  /\ inWhich' = 1 - inWhich /\ loadState' = 1
  /\ UNCHANGED <<fdPos, buffer, inLen, loader>>

\* load_wait(), then the last buffer is taken and the thread joined.
LoadLast ==
  /\ ~inShort /\ procs > 1 /\ inWhich # -1 /\ loadState = 0 /\ inLen < Buf
  /\ loader = "exited"
  /\ inNext' = [buf |-> inWhich, off |-> 0]
  /\ Loaded(inLen)
  /\ inWhich' = -1
  /\ UNCHANGED <<fdPos, buffer, loadState, inLen, loader>>

LoadStep == LoadNothing \/ LoadDirect \/ LoadLaunch \/ LoadSwap \/ LoadLast

-------------------------------------------------------------------------------
(* The read-ahead thread. *)

LoaderRead ==
  /\ loader = "idle" /\ loadState = 1
  /\ buffer' = [buffer EXCEPT ![inWhich] = fdPos]
  /\ inLen' = Readable
  /\ fdPos' = fdPos + Readable
  /\ loader' = "filled"
  /\ UNCHANGED <<inNext, inLeft, inEof, inShort, inTot, inWhich, loadState>>

\* Mutant of LoaderSignal: only an empty read ends the thread.
LoaderSignalEmpty ==
  /\ loader = "filled"
  /\ loadState' = 0
  /\ loader' = IF inLen = 0 THEN "exited" ELSE "idle"
  /\ UNCHANGED <<fdPos, buffer, inNext, inLeft, inEof, inShort, inTot, inWhich, inLen>>

\* A short read ends the thread.
LoaderSignal ==
  /\ loader = "filled"
  /\ loadState' = 0
  /\ loader' = IF inLen < Buf THEN "exited" ELSE "idle"
  /\ UNCHANGED <<fdPos, buffer, inNext, inLeft, inEof, inShort, inTot, inWhich, inLen>>

LoaderExit ==
  /\ loader = "idle" /\ loadState = 2
  /\ loader' = "exited"
  /\ UNCHANGED <<fdPos, buffer, inNext, inLeft, inEof, inShort, inTot, inWhich, loadState, inLen>>

\* readn() fails and the exception leaves the thread function: std::terminate.
LoaderError ==
  /\ loader = "idle" /\ loadState = 1
  /\ loader' = "aborted"
  /\ UNCHANGED <<fdPos, buffer, inNext, inLeft, inEof, inShort, inTot, inWhich, loadState, inLen>>

Loader == LoaderRead \/ LoaderSignal \/ LoaderExit

-------------------------------------------------------------------------------
(* The destructor. *)

CloseRequest ==
  /\ inWhich # -1 /\ loadState = 0
  /\ loadState' = 2
  /\ UNCHANGED <<fdPos, buffer, inNext, inLeft, inEof, inShort, inTot, inWhich, inLen, loader>>

CloseJoin ==
  /\ inWhich # -1 /\ loadState = 2 /\ loader = "exited"
  /\ inWhich' = -1
  /\ UNCHANGED <<fdPos, buffer, inNext, inLeft, inEof, inShort, inTot, loadState, inLen, loader>>

-------------------------------------------------------------------------------

ReaderTypeOK ==
  /\ fdPos \in 0 .. Len(file) /\ buffer \in [{0, 1} -> 0 .. Len(file)]
  /\ inNext \in [buf : {0, 1}, off : 0 .. Buf] /\ inLeft \in 0 .. Buf
  /\ inEof \in BOOLEAN /\ inShort \in BOOLEAN /\ inTot \in 0 .. Len(file)
  /\ inWhich \in {-1, 0, 1} /\ loadState \in {0, 1, 2} /\ inLen \in 0 .. Buf
  /\ loader \in {"unborn", "idle", "filled", "exited", "aborted"}

\* The read-ahead thread reads into one buffer while the other is consumed: as
\* long as there is anything left of a buffer it still begins where the reader
\* believes it to, and the next unit it gives out is the one after the last
\* (format.cpp:290, 347-353).
InTurn == inLeft > 0 => PositionOf(inNext) = Consumed + 1
===============================================================================
