--------------------------- MODULE DecompressProofs ---------------------------
(***************************************************************************)
(* What holds of Decompress for inputs of any length, any size of buffer   *)
(* and any failure: its threads never overwrite what another one still     *)
(* reads, what is verified is what was written, and what is written and    *)
(* accepted is what InflateStream says.                                    *)
(***************************************************************************)
EXTENDS Decompress, WellFoundedInduction, TLAPS

-------------------------------------------------------------------------------
(* The reader. *)

\* inflate holds a part of the reader's buffer.
Inflating == mpc \in {"inflate", "output", "push", "pushed"}

\* n units at p that are not where the read-ahead thread reads into, and end
\* where the input has been loaded to.
Holds(p, n) == p.buf # inWhich /\ PositionOf(p) = inTot - n + 1

\* Where the read-ahead thread is, between a request and the answer.
AheadInv ==
  /\ procs <= 1 => inWhich = -1
  /\ inWhich = -1 => loader \in {"unborn", "exited"}
  /\ inWhich = -1 /\ mpc \notin {"close", "done"} => fdPos = inTot
  /\ inWhich # -1 =>
       /\ loader = "idle" /\ loadState = 1 => fdPos = inTot
       /\ loader = "filled" => loadState = 1
       /\ loadState = 0 \/ loader = "filled" => buffer[inWhich] = inTot /\ fdPos = inTot + inLen

\* Who holds which part of a buffer.
BufferInv ==
  /\ inTot <= fdPos /\ inLeft <= inTot
  /\ inNext.off + inLeft <= Buf /\ zNext.off + zLeft <= Buf
  /\ inLeft > 0 => Holds(inNext, inLeft)
  /\ Inflating => zLeft <= inTot
  /\ Inflating /\ zLeft > 0 => inLeft = 0 /\ Holds(zNext, zLeft)

-------------------------------------------------------------------------------
(* The output. *)

\* How much of the input inflate has used.
Used == inTot - inLeft - zLeft

\* A check value of n blocks that end with the block b.
Covers(check, n, b) ==
  n <= b /\ check = IF n = 0 THEN Empty ELSE [from |-> b - n + 1, to |-> b + 1]

\* The blocks s end with n blocks up to the block b.
Ends(s, n, b) == n > 0 => n <= Len(s) /\ s[Len(s) - n + 1] = b - n + 1 /\ s[Len(s)] = b

EndsWith(n, b) == Testing \/ Ends(sink, n, b)

\* Without threads the length and the check value are those of what was written.
DirectInv ==
  /\ mpc = "inflate" /\ ~Parallel => Covers(ctxCheck, ctxTot, Used) /\ EndsWith(ctxTot, Used)
  /\ mpc = "output" => /\ ~Parallel /\ block = Used
                       /\ Covers(ctxCheck, ctxTot, Used - 1) /\ EndsWith(ctxTot, Used - 1)
  /\ mpc = "sums" => CheckedAsWritten

\* The block in the buffer is still to be written or to be checked.
ToWrite == IF writeState = 1 /\ writer \in {"idle", "aborted"} /\ outLen = 1 THEN 1 ELSE 0
ToCheck == IF outLen = 1 /\ (mpc = "pushed" \/ (checkState = 1 /\ checker = "idle")) THEN 1 ELSE 0

Pushing == Parallel /\ mpc \in {"inflate", "push", "pushed", "finish", "finished", "join"}

\* Between start() and the end of finish() each thread is a block behind at most.
HandOver ==
  /\ mpc \in {"push", "pushed", "finish", "finished", "join"} => Parallel
  /\ Pushing =>
       /\ Covers(outCheck, outTot - ToCheck, outCopy - ToCheck)
       /\ EndsWith(outTot - ToWrite, outCopy - ToWrite)
       /\ ToCheck <= outTot /\ ToWrite <= outTot /\ outTot <= outCopy
  /\ Pushing /\ outTot > 0 => /\ mpc \in {"inflate", "pushed"} => outCopy = Used
                              /\ mpc = "push" => outCopy = Used - 1
  /\ mpc = "push" => block = Used /\ Used > 0

\* Whose turn the buffer is.
Turns ==
  /\ mpc \in {"header", "start", "sums", "more"} => writer \in {"unborn", "exited"}
  /\ ~Parallel => writer = "unborn"
  /\ Pushing /\ mpc # "join" /\ mpc # "finished" =>
       /\ writer \in {"idle", "wrote", "aborted"} /\ (writer # "idle" => writeState = 1)
       /\ checker \in {"idle", "checked"} /\ (checker = "checked" => checkState = 1)
       /\ writeState = 1 \/ checkState = 1 => outLen = 1
  /\ mpc = "pushed" => checkState = 0 /\ checker = "idle" /\ outLen = 1
  /\ mpc = "finished" => checkState = 0 /\ checker = "idle"
  /\ mpc \in {"finished", "join"} => outLen = 0

OutputInv == DirectInv /\ HandOver /\ Turns

Reading == file \in Files /\ TypeOK /\ AheadInv /\ BufferInv

DecompressInv == Reading /\ OutputInv

-------------------------------------------------------------------------------
(* The contents. *)

\* How much of the input has been used, by inflate or by infchk.
Pos == IF Inflating THEN Used ELSE Consumed

\* What is known of the end of the input is true.
EofInv ==
  /\ inEof \/ inShort => inTot = Len(file)
  /\ inWhich # -1 /\ (loader = "filled" \/ loadState = 0) /\ inLen < Buf => fdPos = Len(file)

\* The reader of the format has seen the header of the first member, and reads
\* the one that infchk reads.
Reads(n) ==
  LET f == Stream!After[n].form
  IN f \in Stream!Heads /\ form = Format(f) /\ hdr = f

Within(n) == Reads(n) /\ Stream!After[n].at = "data"

\* The member's header is at h, and the k units behind it are data.
Run(h, k) == /\ h \in 1 .. Len(file) /\ k \in Nat /\ h + k <= Len(file)
             /\ file[h] \in Stream!Heads /\ \A i \in h + 1 .. h + k : file[i] = "data"

\* How many blocks of the member were handed over to be written.
Total == IF Pushing THEN outTot ELSE ctxTot

InMember(h, k) ==
  /\ Run(h, k) /\ Within(h + k) /\ (k > 0 => h + k \in Stream!Content)
  /\ k = IF mpc \in {"output", "push"} THEN Total + 1 ELSE Total
  /\ Pushing /\ outTot > 0 => outCopy = h + outTot
  /\ mpc = "sums" => Covers(ctxCheck, ctxTot, h + ctxTot)
  /\ \/ Pos = h + k /\ (Inflating \/ Pos = Len(file))
     \/ ~Inflating /\ Pos = h + k + 1 /\ Pos <= Len(file) /\ file[Pos] = "end"

Ending == {"finish", "finished", "join", "sums"}

\* Where infchk is in the file and where a reader of the format would be.
Grammar ==
  /\ mpc = "header" => Pos = 0
  /\ mpc = "start" => Pos \in 1 .. Len(file) /\ file[Pos] \in Stream!Heads /\ Within(Pos)
  /\ Inflating \/ mpc \in Ending => \E h, k \in 0 .. Len(file) : InMember(h, k)
  /\ mpc = "more" => /\ Pos \in 1 .. Len(file) /\ Reads(Pos) /\ form = "gzip"
                     /\ Stream!After[Pos].at = "member"

\* An exception is thrown for a reason, and the end is reached with one or with a file that is intact.
Verdicts ==
  /\ thrown => ~Stream!Intact \/ failed
  /\ thrown => mpc \in {"unwind", "close", "done"}
  /\ mpc = "unwind" => thrown
  /\ mpc \in {"close", "done"} /\ ~thrown =>
       Stream!Intact /\ (Testing \/ Stream!Missing = {}) /\ writer \in {"unborn", "exited"}

\* Of the pieces to be restored the first ones, up to the position w, have been written.
Wrote(w) == \A n \in Stream!Content : n \notin Stream!Missing <=> n <= w

\* What has been handed over.
HandedOver == IF mpc \in {"output", "push"} THEN Pos - 1 ELSE Pos

SinkInv ==
  Testing \/ /\ ToWrite = 1 => outCopy \in Stream!Content /\ Wrote(outCopy - 1)
             /\ mpc \notin {"unwind", "close", "done"} =>
                  IF ToWrite = 1
                  THEN outCopy <= HandedOver /\ \A n \in Stream!Content : n <= outCopy \/ n > HandedOver
                  ELSE Wrote(HandedOver)

ContentInv == ~Stream!ForeignFollows /\ EofInv /\ Grammar /\ Verdicts /\ SinkInv

-------------------------------------------------------------------------------
(* The reader: no step of any thread disturbs its invariant. *)

LEMMA InputLength == ASSUME file \in Files PROVE Len(file) \in Nat
  BY FilesAssumption

LEMMA ReadableBounds ==
  ASSUME Reading PROVE Readable \in 0 .. Buf /\ fdPos + Readable \in 0 .. Len(file)
  BY InputLength, BufAssumption DEF Reading, Readable, TypeOK, ReaderTypeOK

LEMMA EmptyTyped == Empty \in [from : Nat, to : Nat]
  BY DEF Empty

LEMMA ReadingInit == Init => Reading
  <1> SUFFICES ASSUME Init PROVE Reading
    OBVIOUS
  <1>0. Len(file) \in Nat /\ Buf \in Nat \ {0}
    BY InputLength, BufAssumption DEF Init
  <1>1. TypeOK
    <2>1. ReaderTypeOK
      BY <1>0 DEF Init, OpenReader, ReaderTypeOK
    <2>2. OutputTypeOK
      <3>1. <<>> \in Seq(Nat)
        OBVIOUS
      <3> QED
        BY EmptyTyped, <3>1 DEF Init, NoOutput, OutputTypeOK
    <2>3. InfchkTypeOK
      <3>1. isal \in BOOLEAN /\ thrown \in BOOLEAN /\ failed \in BOOLEAN
        BY Zenon DEF Init
      <3>2. zNext \in [buf : {0, 1}, off : 0 .. Buf] /\ zLeft \in 0 .. Buf
        BY <1>0 DEF Init
      <3>3. block \in 0 .. Len(file) /\ ctxCheck \in [from : Nat, to : Nat] /\ ctxTot \in Nat
        BY <1>0, EmptyTyped DEF Init
      <3> QED
        BY <3>1, <3>2, <3>3 DEF Init, InfchkTypeOK
    <2> QED
      BY <2>1, <2>2, <2>3 DEF TypeOK
  <1>2. AheadInv
    BY DEF Init, OpenReader, AheadInv
  <1>3. BufferInv
    BY <1>0 DEF Init, OpenReader, BufferInv, Inflating
  <1> QED
    BY <1>1, <1>2, <1>3 DEF Init, Reading

\* A step that leaves the output and the main thread alone.
LEMMA OthersTyped ==
  ASSUME TypeOK, UNCHANGED <<given, outputVars, infchkVars>>
  PROVE  OutputTypeOK' /\ InfchkTypeOK'
  BY DEF TypeOK, OutputTypeOK, InfchkTypeOK, given, outputVars, infchkVars

LEMMA LoadReading == ASSUME Reading, Load PROVE Reading'
  <1> DEFINE L == Len(file)
  <1>0. L \in Nat /\ Buf \in Nat \ {0} /\ file' = file /\ procs' = procs
    BY InputLength, BufAssumption DEF Reading, Load, given
  <1> DEFINE r == Readable
  <1>r. r \in 0 .. Buf /\ fdPos + r \in 0 .. L
    BY ReadableBounds
  <1>m. /\ mpc \notin {"output", "push", "pushed", "close", "done"} /\ (mpc = "inflate" => zLeft = 0)
        /\ inLeft = 0 /\ mpc' = mpc /\ zLeft' = zLeft /\ zNext' = zNext
    BY DEF Load, NeedsUnit, infchkVars
  <1>u. UNCHANGED <<given, outputVars, infchkVars>>
    BY DEF Load
  <1> HIDE DEF L, r
  <1>t. OutputTypeOK' /\ InfchkTypeOK'
    BY <1>u, OthersTyped DEF Reading
  <1> SUFFICES ReaderTypeOK' /\ AheadInv' /\ BufferInv'
    BY <1>0, <1>t DEF Reading, TypeOK
  <1>s. CASE LoadNothing
    <2>1. ReaderTypeOK'
      BY <1>s, <1>0, <1>r DEF LoadNothing, Reading, TypeOK, ReaderTypeOK, L
    <2>2. AheadInv' /\ BufferInv'
      BY <1>s, <1>0, <1>m DEF LoadNothing, Reading, AheadInv, BufferInv, Inflating, Holds,
         PositionOf
    <2> QED
      BY <2>1, <2>2
  <1>d. CASE LoadDirect
    <2>0. inWhich = -1 /\ fdPos = inTot
      BY <1>d, <1>0, <1>m DEF LoadDirect, Reading, AheadInv
    <2>1. ReaderTypeOK'
      BY <1>d, <1>0, <1>r, <2>0 DEF LoadDirect, Loaded, r, L, Reading, TypeOK, ReaderTypeOK
    <2>2. AheadInv'
      BY <1>d, <1>0, <1>r, <1>m, <2>0 DEF LoadDirect, Loaded, r, L, Reading, AheadInv, TypeOK, ReaderTypeOK
    <2>3. BufferInv'
      BY <1>d, <1>0, <1>r, <1>m, <2>0 DEF LoadDirect, Loaded, r, L, Reading, BufferInv, TypeOK,
         ReaderTypeOK, Inflating, Holds, PositionOf, InfchkTypeOK
    <2> QED
      BY <2>1, <2>2, <2>3
  <1>l. CASE LoadLaunch
    <2>1. ReaderTypeOK'
      BY <1>l, <1>0, <1>r DEF LoadLaunch, L, Reading, TypeOK, ReaderTypeOK
    <2>2. AheadInv'
      BY <1>l, <1>0, <1>m DEF LoadLaunch, Reading, AheadInv, TypeOK, ReaderTypeOK
    <2>3. BufferInv'
      BY <1>l, <1>0, <1>m DEF LoadLaunch, Reading, BufferInv, Inflating
    <2> QED
      BY <2>1, <2>2, <2>3
  <1>w. CASE LoadSwap
    <2>0. inWhich \in {0, 1} /\ fdPos = inTot + inLen /\ buffer[inWhich] = inTot
      BY <1>w, <1>0 DEF LoadSwap, Reading, AheadInv, TypeOK, ReaderTypeOK
    <2>1. ReaderTypeOK'
      BY <1>w, <1>0, <1>r, <2>0 DEF LoadSwap, Loaded, L, Reading, TypeOK, ReaderTypeOK
    <2>2. AheadInv'
      BY <1>w, <1>0, <1>m, <2>0 DEF LoadSwap, Loaded, Reading, AheadInv, TypeOK, ReaderTypeOK
    <2>3. BufferInv'
      BY <1>w, <1>0, <1>m, <2>0 DEF LoadSwap, Loaded, Reading, BufferInv, TypeOK,
         ReaderTypeOK, Inflating, Holds, PositionOf, InfchkTypeOK
    <2> QED
      BY <2>1, <2>2, <2>3
  <1>e. CASE LoadLast
    <2>0. inWhich \in {0, 1} /\ fdPos = inTot + inLen /\ buffer[inWhich] = inTot
      BY <1>e, <1>0 DEF LoadLast, Reading, AheadInv, TypeOK, ReaderTypeOK
    <2>1. ReaderTypeOK'
      BY <1>e, <1>0, <1>r, <2>0 DEF LoadLast, Loaded, L, Reading, TypeOK, ReaderTypeOK
    <2>2. AheadInv'
      BY <1>e, <1>0, <1>m, <2>0 DEF LoadLast, Loaded, Reading, AheadInv, TypeOK, ReaderTypeOK
    <2>3. BufferInv'
      BY <1>e, <1>0, <1>m, <2>0 DEF LoadLast, Loaded, Reading, BufferInv, TypeOK,
         ReaderTypeOK, Inflating, Holds, PositionOf, InfchkTypeOK
    <2> QED
      BY <2>1, <2>2, <2>3
  <1> QED
    BY <1>s, <1>d, <1>l, <1>w, <1>e DEF Load, LoadStep

\* A step that leaves the reader alone, and takes up inflating nothing.
LEMMA ReaderStays ==
  ASSUME Reading, UNCHANGED <<given, readerVars, zNext, zLeft>>, Inflating' => Inflating,
         mpc \in {"close", "done"} => mpc' \in {"close", "done"}
  PROVE  file' \in Files /\ ReaderTypeOK' /\ AheadInv' /\ BufferInv'
  <1>1. file' \in Files /\ ReaderTypeOK'
    BY DEF Reading, TypeOK, ReaderTypeOK, given, readerVars
  <1>2. AheadInv'
    BY DEF Reading, AheadInv, given, readerVars
  <1>3. BufferInv'
    BY DEF Reading, BufferInv, Holds, PositionOf, given, readerVars
  <1> QED
    BY <1>1, <1>2, <1>3

\* A unit is consumed while inflate has nothing.
LEMMA ConsumeReading ==
  ASSUME Reading, ConsumeUnit, UNCHANGED <<given, zNext, zLeft>>, ~Inflating, ~Inflating',
         mpc \in {"close", "done"} => mpc' \in {"close", "done"}
  PROVE  file' \in Files /\ ReaderTypeOK' /\ AheadInv' /\ BufferInv'
  <1>0. /\ file' = file /\ procs' = procs /\ Len(file) \in Nat /\ Buf \in Nat \ {0}
        /\ UNCHANGED <<fdPos, buffer, inEof, inShort, inTot, inWhich, loadState, inLen, loader>>
    BY InputLength, BufAssumption DEF Reading, ConsumeUnit, given
  <1>1. CASE inLeft > 0
    <2>0. /\ inLeft' = inLeft - 1 /\ inNext' = [inNext EXCEPT !.off = @ + 1]
          /\ inNext \in [buf : {0, 1}, off : 0 .. Buf] /\ inLeft \in 0 .. Buf
          /\ inNext.off + inLeft <= Buf
      BY <1>1 DEF ConsumeUnit, Get, Behind, Reading, TypeOK, ReaderTypeOK, BufferInv
    <2>1. inNext' \in [buf : {0, 1}, off : 0 .. Buf] /\ inLeft' \in 0 .. Buf
      BY <1>0, <1>1, <2>0
    <2>2. ReaderTypeOK'
      BY <1>0, <2>1 DEF Reading, TypeOK, ReaderTypeOK
    <2>3. AheadInv'
      BY <1>0 DEF Reading, AheadInv
    <2>4. BufferInv'
      <3>1. /\ inNext'.buf = inNext.buf /\ inNext'.off = inNext.off + 1
            /\ inTot' = inTot /\ inWhich' = inWhich /\ buffer' = buffer /\ fdPos' = fdPos
        BY <1>0, <2>0
      <3>2. /\ inTot \in Nat /\ inTot <= fdPos /\ inLeft <= inTot
            /\ zNext'.off + zLeft' <= Buf /\ Holds(inNext, inLeft)
            /\ buffer[inNext.buf] \in Nat
        BY <1>0, <1>1, <2>0 DEF Reading, BufferInv, TypeOK, ReaderTypeOK
      <3>3. Holds(inNext, inLeft)'
        BY <2>0, <3>1, <3>2 DEF Holds, PositionOf
      <3> QED
        BY <2>0, <3>1, <3>2, <3>3 DEF BufferInv
    <2> QED
      BY <1>0, <2>2, <2>3, <2>4 DEF Reading
  <1>2. CASE ~(inLeft > 0)
    <2>0. UNCHANGED readerVars
      BY <1>0, <1>2 DEF ConsumeUnit, readerVars
    <2> QED
      BY <2>0, ReaderStays
  <1> QED
    BY <1>1, <1>2

\* What is left of the buffer inflate holds goes back to the reader.
LEMMA RestoreReading ==
  ASSUME Reading, UNCHANGED <<given, zNext, zLeft>>, Inflating, ~Inflating',
         zLeft = 0 => inLeft = 0,
         mpc \in {"close", "done"} => mpc' \in {"close", "done"},
         NEW n \in {0, 1}, n <= zLeft, Restore(n)
  PROVE  file' \in Files /\ ReaderTypeOK' /\ AheadInv' /\ BufferInv'
  <1>0. /\ file' = file /\ procs' = procs /\ Len(file) \in Nat /\ Buf \in Nat \ {0}
        /\ UNCHANGED <<fdPos, buffer, inEof, inShort, inTot, inWhich, loadState, inLen, loader>>
    BY InputLength, BufAssumption DEF Reading, Restore, given
  <1>1. /\ inLeft' = zLeft - n /\ inNext' = [zNext EXCEPT !.off = @ + n]
        /\ zNext \in [buf : {0, 1}, off : 0 .. Buf] /\ zLeft \in 0 .. Buf
        /\ zNext.off + zLeft <= Buf /\ zLeft <= inTot
    BY DEF Restore, Behind, Reading, TypeOK, InfchkTypeOK, BufferInv
  <1>2. inNext' \in [buf : {0, 1}, off : 0 .. Buf] /\ inLeft' \in 0 .. Buf
    BY <1>0, <1>1
  <1>3. ReaderTypeOK'
    BY <1>0, <1>2 DEF Reading, TypeOK, ReaderTypeOK
  <1>4. AheadInv'
    BY <1>0 DEF Reading, AheadInv
  <1>5. BufferInv'
    <2>1. /\ inNext'.buf = zNext.buf /\ inNext'.off = zNext.off + n
          /\ inTot' = inTot /\ inWhich' = inWhich /\ buffer' = buffer /\ fdPos' = fdPos
      BY <1>0, <1>1
    <2>2. /\ inTot \in Nat /\ inTot <= fdPos /\ zNext'.off + zLeft' <= Buf
          /\ buffer[zNext.buf] \in Nat
      BY <1>0, <1>1 DEF Reading, BufferInv, TypeOK, ReaderTypeOK
    <2>3. ASSUME inLeft' > 0 PROVE Holds(inNext, inLeft)'
      <3>1. Holds(zNext, zLeft)
        BY <1>1, <2>3 DEF Reading, BufferInv
      <3> QED
        BY <1>1, <2>1, <2>2, <3>1 DEF Holds, PositionOf
    <2> QED
      BY <1>1, <2>1, <2>2, <2>3 DEF BufferInv
  <1> QED
    BY <1>0, <1>3, <1>4, <1>5 DEF Reading

LEMMA FetchReading ==
  ASSUME Reading, Fetch PROVE file' \in Files /\ ReaderTypeOK' /\ AheadInv' /\ BufferInv'
  <1>0. /\ file' = file /\ procs' = procs /\ Len(file) \in Nat /\ Buf \in Nat \ {0}
        /\ UNCHANGED <<fdPos, buffer, inEof, inShort, inTot, inWhich, loadState, inLen, loader>>
        /\ mpc = "inflate" /\ mpc' = mpc /\ zNext' = inNext /\ zLeft' = inLeft /\ inLeft' = 0
        /\ inLeft > 0 /\ inNext' = [inNext EXCEPT !.off = @ + inLeft]
    BY InputLength, BufAssumption DEF Reading, Fetch, Behind, given
  <1>1. /\ inNext \in [buf : {0, 1}, off : 0 .. Buf] /\ inLeft \in 0 .. Buf
        /\ inNext.off + inLeft <= Buf /\ Holds(inNext, inLeft) /\ inTot <= fdPos /\ inLeft <= inTot
        /\ inTot \in Nat /\ buffer[inNext.buf] \in Nat
    BY <1>0 DEF Reading, TypeOK, ReaderTypeOK, BufferInv
  <1>2. /\ inNext' \in [buf : {0, 1}, off : 0 .. Buf]
        /\ inNext'.buf = inNext.buf /\ inNext'.off = inNext.off + inLeft
    BY <1>0, <1>1
  <1>3. ReaderTypeOK'
    BY <1>0, <1>2 DEF Reading, TypeOK, ReaderTypeOK
  <1>4. AheadInv'
    BY <1>0 DEF Reading, AheadInv
  <1>5. Holds(zNext, zLeft)'
    BY <1>0, <1>1 DEF Holds, PositionOf
  <1>6. BufferInv'
    BY <1>0, <1>1, <1>2, <1>5 DEF BufferInv
  <1> QED
    BY <1>0, <1>3, <1>4, <1>6 DEF Reading

\* The block restored is the first that inflate has not used.
LEMMA InflateReading ==
  ASSUME Reading, Inflate
  PROVE  /\ file' \in Files /\ ReaderTypeOK' /\ AheadInv' /\ BufferInv'
         /\ zNext' \in [buf : {0, 1}, off : 0 .. Buf] /\ zLeft' \in 0 .. Buf
         /\ block' = Used + 1 /\ block' \in 1 .. Len(file) /\ Used' = Used + 1
  <1>0. /\ UNCHANGED <<given, readerVars>> /\ file' = file
        /\ Len(file) \in Nat /\ Buf \in Nat \ {0}
        /\ mpc = "inflate" /\ mpc' \in {"push", "output"} /\ zLeft > 0
        /\ zNext' = [zNext EXCEPT !.off = @ + 1] /\ zLeft' = zLeft - 1
        /\ block' = PositionOf(zNext)
    BY InputLength, BufAssumption DEF Reading, Inflate, Behind, given
  <1>1. /\ zNext \in [buf : {0, 1}, off : 0 .. Buf] /\ zLeft \in 0 .. Buf
        /\ zNext.off + zLeft <= Buf /\ Holds(zNext, zLeft) /\ inTot <= fdPos /\ zLeft <= inTot
        /\ inTot \in 0 .. Len(file) /\ buffer[zNext.buf] \in Nat /\ inLeft = 0
    BY <1>0 DEF Reading, TypeOK, ReaderTypeOK, InfchkTypeOK, BufferInv, Inflating
  <1>2. /\ zNext' \in [buf : {0, 1}, off : 0 .. Buf] /\ zLeft' \in 0 .. Buf
        /\ zNext'.buf = zNext.buf /\ zNext'.off = zNext.off + 1
    BY <1>0, <1>1
  <1>3. file' \in Files /\ ReaderTypeOK'
    BY <1>0 DEF Reading, TypeOK, ReaderTypeOK, readerVars
  <1>4. AheadInv'
    BY <1>0 DEF Reading, AheadInv, readerVars, given
  <1>5. UNCHANGED <<inTot, inWhich, buffer, fdPos, inLeft, inNext>>
    BY <1>0 DEF readerVars
  <1>6. Holds(zNext, zLeft)'
    <2>1. zNext.buf # inWhich /\ buffer[zNext.buf] + zNext.off + 1 = inTot - zLeft + 1
      BY <1>1 DEF Holds, PositionOf
    <2>2. zLeft' = zLeft - 1 /\ inTot' = inTot /\ inWhich' = inWhich /\ buffer' = buffer
      BY <1>0, <1>5
    <2>3. buffer[zNext.buf] + (zNext.off + 1) + 1 = inTot - (zLeft - 1) + 1
      BY <1>1, <2>1
    <2> QED
      BY <1>2, <2>1, <2>2, <2>3 DEF Holds, PositionOf
  <1>7. BufferInv'
    BY <1>0, <1>1, <1>2, <1>5, <1>6 DEF BufferInv, Reading
  <1>8. block' = Used + 1 /\ block' \in 1 .. Len(file) /\ Used' = Used + 1
    BY <1>0, <1>1, <1>5 DEF Used, Holds
  <1> QED
    BY <1>2, <1>3, <1>4, <1>7, <1>8

-------------------------------------------------------------------------------
(* The types of the rest. *)

LEMMA CheckTyped ==
  ASSUME NEW c \in [from : Nat, to : Nat], NEW b \in Nat
  PROVE  Check(c, b) \in [from : Nat, to : Nat]
  BY DEF Check, Empty, Garbled

LEMMA OutputStays ==
  ASSUME TypeOK, UNCHANGED outputVars PROVE OutputTypeOK'
  BY DEF TypeOK, OutputTypeOK, outputVars

LEMMA OutputSteps ==
  ASSUME TypeOK
  PROVE  /\ Start => OutputTypeOK'
         /\ \A b \in Nat : PushCopy(b) => OutputTypeOK'
         /\ PushEnd \/ PushCheck \/ Join => OutputTypeOK'
         /\ \A t \in BOOLEAN : WriteBlock(t) \/ WriteFailure(t) => OutputTypeOK'
         /\ WriteReturn \/ Checker => OutputTypeOK'
  <1> USE DEF TypeOK, OutputTypeOK
  <1>1. Start => OutputTypeOK'
    BY EmptyTyped DEF Start
  <1>2. \A b \in Nat : PushCopy(b) => OutputTypeOK'
    BY DEF PushCopy
  <1>3. PushEnd \/ PushCheck \/ Join => OutputTypeOK'
    BY DEF PushEnd, PushCheck, Join
  <1>4. ASSUME NEW t \in BOOLEAN, WriteBlock(t) \/ WriteFailure(t) PROVE OutputTypeOK'
    <2>1. sink \in Seq(Nat) /\ Append(sink, outCopy) \in Seq(Nat)
      OBVIOUS
    <2>2. sink' = sink \/ sink' = Append(sink, outCopy)
      BY <1>4 DEF WriteBlock, WriteFailure
    <2> QED
      BY <1>4, <2>1, <2>2 DEF WriteBlock, WriteFailure
  <1>5. WriteReturn => OutputTypeOK'
    BY DEF WriteReturn
  <1>6. ASSUME Checker PROVE OutputTypeOK'
    <2>1. outCheck' \in [from : Nat, to : Nat]
      BY ZenonT(60), <1>6, CheckTyped DEF Checker, CheckBlock, CheckReturn
    <2> QED
      BY <1>6, <2>1 DEF Checker, CheckBlock, CheckReturn
  <1> QED
    BY <1>1, <1>2, <1>3, <1>4, <1>5, <1>6

\* The main thread's own variables, where it only goes on from one place to another.
LEMMA InfchkStays ==
  ASSUME Reading, UNCHANGED given, UNCHANGED <<zNext, zLeft, block, ctxCheck, ctxTot>>,
         mpc' \in {"header", "start", "inflate", "output", "push", "pushed", "finish", "finished",
                   "join", "sums", "more", "unwind", "close", "done"},
         thrown' \in BOOLEAN /\ failed' \in BOOLEAN, hdr' \in Stream!Heads \cup {"none"},
         form' \in {"gzip", "zlib", "zip", "none"}
  PROVE  InfchkTypeOK'
  BY DEF Reading, TypeOK, InfchkTypeOK, given

LEMMA MainReading == ASSUME Reading, Main PROVE Reading'
  <1>0. /\ Len(file) \in Nat /\ Buf \in Nat \ {0} /\ TypeOK
        /\ OutputTypeOK /\ InfchkTypeOK /\ thrown \in BOOLEAN /\ failed \in BOOLEAN
        /\ hdr \in Stream!Heads \cup {"none"} /\ form \in {"gzip", "zlib", "zip", "none"}
    BY InputLength, BufAssumption DEF Reading, TypeOK, InfchkTypeOK
  <1>q. ASSUME file' \in Files, ReaderTypeOK', AheadInv', BufferInv', OutputTypeOK', InfchkTypeOK'
        PROVE  Reading'
    BY <1>q DEF Reading, TypeOK
  <1>1. CASE Load
    BY <1>1, LoadReading
  <1>2. CASE LoadError
    <2>1. OutputTypeOK' /\ InfchkTypeOK'
      BY <1>0, <1>2, OutputStays, InfchkStays DEF LoadError, Fail
    <2> QED
      BY <1>2, <1>q, <2>1, ReaderStays DEF LoadError, Fail, Inflating, NeedsUnit
  <1>3. CASE StartMember
    <2>1. OutputTypeOK'
      BY <1>0, <1>3, OutputStays, OutputSteps DEF StartMember
    <2>2. InfchkTypeOK'
      BY <1>0, <1>3, EmptyTyped DEF StartMember, At, InfchkTypeOK, given
    <2>3. file' \in Files /\ ReaderTypeOK'
      BY <1>0, <1>3 DEF StartMember, Reading, TypeOK, ReaderTypeOK, given, readerVars
    <2>4. AheadInv'
      BY <1>3 DEF StartMember, At, Reading, AheadInv, given, readerVars
    <2>5. BufferInv'
      BY <1>0, <1>3 DEF StartMember, At, Reading, BufferInv, Holds, PositionOf, InfchkTypeOK,
         ReaderTypeOK, TypeOK, given, readerVars
    <2> QED
      BY <1>q, <2>1, <2>2, <2>3, <2>4, <2>5
  <1>4. CASE Fetch
    <2>1. OutputTypeOK'
      BY <1>0, <1>4, OutputStays DEF Fetch
    <2>2. InfchkTypeOK'
      BY <1>0, <1>4 DEF Fetch, InfchkTypeOK, Reading, TypeOK, ReaderTypeOK, given
    <2> QED
      BY <1>4, <1>q, <2>1, <2>2, FetchReading
  <1>5. CASE Inflate
    <2>1. OutputTypeOK'
      BY <1>0, <1>5, OutputStays DEF Inflate
    <2>2. InfchkTypeOK'
      BY <1>0, <1>5, InflateReading DEF Inflate, InfchkTypeOK, given
    <2> QED
      BY <1>5, <1>q, <2>1, <2>2, InflateReading
  <1>6. CASE EndOfData
    <2>1. OutputTypeOK' /\ InfchkTypeOK'
      BY <1>0, <1>6, OutputStays, InfchkStays DEF EndOfData, AfterData
    <2>2. /\ zLeft >= 1 /\ UNCHANGED <<given, zNext, zLeft>> /\ Inflating /\ ~Inflating'
          /\ mpc \notin {"close", "done"} /\ Restore(1)
      BY <1>0, <1>6 DEF EndOfData, AfterData, Inflating, InfchkTypeOK
    <2> QED
      BY <1>q, <2>1, <2>2, RestoreReading
  <1>7. CASE Corrupted
    <2>1. OutputTypeOK' /\ InfchkTypeOK'
      BY <1>0, <1>7, OutputStays, InfchkStays DEF Corrupted, Throw
    <2>2. /\ zLeft > 0 /\ zLeft >= 0 /\ UNCHANGED <<given, zNext, zLeft>> /\ Inflating /\ ~Inflating'
          /\ mpc \notin {"close", "done"} /\ (UNCHANGED readerVars \/ Restore(0))
      BY <1>0, <1>7 DEF Corrupted, Throw, Inflating, InfchkTypeOK
    <2> QED
      BY <1>q, <2>1, <2>2, RestoreReading, ReaderStays
  <1>8. CASE Incomplete
    <2>1. OutputTypeOK' /\ InfchkTypeOK'
      BY <1>0, <1>8, OutputStays, InfchkStays DEF Incomplete, AfterData, Throw
    <2>2. /\ zLeft >= 0 /\ inLeft = 0 /\ UNCHANGED <<given, zNext, zLeft>> /\ Inflating /\ ~Inflating'
          /\ mpc \notin {"close", "done"} /\ Restore(0)
      BY <1>0, <1>8 DEF Incomplete, AfterData, Throw, Inflating, InfchkTypeOK
    <2> QED
      BY <1>q, <2>1, <2>2, RestoreReading
  <1>9. CASE Output
    <2>1. block \in Nat /\ ctxTot \in Nat /\ ctxCheck \in [from : Nat, to : Nat]
      BY <1>0 DEF InfchkTypeOK
    <2>2. Append(sink, block) \in Seq(Nat)
      BY <1>0, <2>1 DEF OutputTypeOK
    <2>3. sink' \in Seq(Nat) /\ Check(ctxCheck, block) \in [from : Nat, to : Nat]
      BY <1>0, <1>9, <2>1, <2>2, CheckTyped DEF Output, OutputTypeOK
    <2>4. OutputTypeOK'
      BY <1>0, <1>9, <2>3 DEF Output, OutputTypeOK
    <2>5. InfchkTypeOK'
      BY <1>0, <1>9, <2>1, <2>3 DEF Output, At, InfchkTypeOK, given
    <2> QED
      BY <1>9, <1>q, <2>4, <2>5, ReaderStays DEF Output, At, Inflating
  <1>10. CASE OutputError
    <2>1. OutputTypeOK' /\ InfchkTypeOK'
      BY <1>0, <1>10, OutputStays, InfchkStays DEF OutputError, Fail
    <2> QED
      BY <1>10, <1>q, <2>1, ReaderStays DEF OutputError, Fail, Inflating
  <1>11. CASE Push
    <2>1. block \in Nat
      BY <1>0 DEF InfchkTypeOK
    <2>2. OutputTypeOK' /\ InfchkTypeOK'
      BY <1>0, <1>11, <2>1, OutputSteps, InfchkStays DEF Push, At
    <2> QED
      BY <1>11, <1>q, <2>2, ReaderStays DEF Push, At, Inflating
  <1>12. CASE Pushed
    <2>1. OutputTypeOK' /\ InfchkTypeOK'
      BY <1>0, <1>12, OutputSteps, InfchkStays DEF Pushed, At
    <2> QED
      BY <1>12, <1>q, <2>1, ReaderStays DEF Pushed, At, Inflating
  <1>13. CASE Finish
    <2>1. OutputTypeOK' /\ InfchkTypeOK'
      BY <1>0, <1>13, OutputSteps, InfchkStays DEF Finish, At
    <2> QED
      BY <1>13, <1>q, <2>1, ReaderStays DEF Finish, At, Inflating
  <1>14. CASE Finished
    <2>1. OutputTypeOK' /\ InfchkTypeOK'
      BY <1>0, <1>14, OutputSteps, InfchkStays DEF Finished, At
    <2> QED
      BY <1>14, <1>q, <2>1, ReaderStays DEF Finished, At, Inflating
  <1>15. CASE JoinOutput
    <2>1. OutputTypeOK'
      BY <1>0, <1>15, OutputSteps DEF JoinOutput
    <2>2. InfchkTypeOK'
      BY <1>0, <1>15 DEF JoinOutput, At, InfchkTypeOK, OutputTypeOK, given
    <2> QED
      BY <1>15, <1>q, <2>1, <2>2, ReaderStays DEF JoinOutput, At, Inflating
  <1>16. CASE Unwind
    <2>1. OutputTypeOK' /\ InfchkTypeOK'
      BY <1>0, <1>16, OutputStays, InfchkStays DEF Unwind, At
    <2> QED
      BY <1>16, <1>q, <2>1, ReaderStays DEF Unwind, At, Inflating
  <1>17. CASE Close
    <2>1. OutputTypeOK' /\ InfchkTypeOK'
      BY <1>0, <1>17, OutputStays, InfchkStays DEF Close
    <2>2. CASE UNCHANGED readerVars
      BY <1>17, <2>2, <1>q, <2>1, ReaderStays DEF Close, Inflating
    <2>3. CASE CloseRequest /\ UNCHANGED mpc
      <3>1. file' \in Files /\ ReaderTypeOK'
        BY <1>0, <1>17, <2>3 DEF Close, CloseRequest, Reading, TypeOK, ReaderTypeOK, given
      <3>2. AheadInv'
        BY <1>0, <1>17, <2>3 DEF Close, CloseRequest, Reading, AheadInv, given
      <3>3. BufferInv'
        BY <1>0, <1>17, <2>3 DEF Close, CloseRequest, Reading, BufferInv, Inflating, Holds, PositionOf, given
      <3> QED
        BY <1>q, <2>1, <3>1, <3>2, <3>3
    <2>4. CASE CloseJoin /\ UNCHANGED mpc
      <3>1. file' \in Files /\ ReaderTypeOK'
        BY <1>0, <1>17, <2>4 DEF Close, CloseJoin, Reading, TypeOK, ReaderTypeOK, given
      <3>2. AheadInv'
        BY <1>0, <1>17, <2>4 DEF Close, CloseJoin, Reading, AheadInv, given
      <3>3. BufferInv'
        BY <1>0, <1>17, <2>4 DEF Close, CloseJoin, Reading, BufferInv, Inflating, Holds, PositionOf,
           TypeOK, ReaderTypeOK, given
      <3> QED
        BY <1>q, <2>1, <3>1, <3>2, <3>3
    <2> QED
      BY <1>17, <2>2, <2>3, <2>4 DEF Close
  <1>18. ASSUME NEW u \in Stream!Units \cup {"none"}, GetHeader(u) PROVE Reading'
    <2>1. hdr' \in Stream!Heads \cup {"none"} /\ form' \in {"gzip", "zlib", "zip", "none"}
          /\ thrown' \in BOOLEAN /\ failed' \in BOOLEAN /\ mpc' \in {"start", "unwind"}
      BY <1>0, <1>18 DEF GetHeader, Throw, Format, Stream!Heads
    <2>2. OutputTypeOK' /\ InfchkTypeOK'
      BY <1>0, <1>18, <2>1, OutputStays, InfchkStays DEF GetHeader
    <2> QED
      BY <1>18, <1>q, <2>1, <2>2, ConsumeReading DEF GetHeader, Inflating
  <1>19. ASSUME NEW u \in Stream!Units \cup {"none"}, VerifySums(u) PROVE Reading'
    <2>1. thrown' \in BOOLEAN /\ failed' \in BOOLEAN /\ mpc' \in {"more", "close", "unwind"} /\ mpc = "sums"
          /\ (ConsumeUnit \/ UNCHANGED readerVars)
          /\ UNCHANGED <<given, outputVars, hdr, form, zNext, zLeft, block, ctxCheck, ctxTot>>
      BY <1>0, <1>19 DEF VerifySums, Throw
    <2>2. OutputTypeOK' /\ InfchkTypeOK'
      BY <1>0, <2>1, OutputStays, InfchkStays
    <2> QED
      BY <1>q, <2>1, <2>2, ConsumeReading, ReaderStays DEF Inflating
  <1>20. ASSUME NEW u \in Stream!Units \cup {"none"}, NextMember(u) PROVE Reading'
    <2>1. hdr' \in Stream!Heads \cup {"none"} /\ mpc' \in {"start", "close"}
      BY <1>0, <1>20 DEF NextMember
    <2>2. OutputTypeOK' /\ InfchkTypeOK'
      BY <1>0, <1>20, <2>1, OutputStays, InfchkStays DEF NextMember
    <2> QED
      BY <1>20, <1>q, <2>1, <2>2, ConsumeReading DEF NextMember, Inflating
  <1> QED
    BY <1>1, <1>2, <1>3, <1>4, <1>5, <1>6, <1>7, <1>8, <1>9, <1>10, <1>11, <1>12, <1>13, <1>14,
       <1>15, <1>16, <1>17, <1>18, <1>19, <1>20 DEF Main

\* The read-ahead thread writes only into the buffer that nobody holds.
LEMMA AheadReading == ASSUME Reading, ReadAhead PROVE Reading'
  <1>0. /\ Len(file) \in Nat /\ Buf \in Nat \ {0} /\ file' = file /\ procs' = procs
        /\ mpc' = mpc /\ zNext' = zNext /\ zLeft' = zLeft
    BY InputLength, BufAssumption DEF Reading, ReadAhead, given, infchkVars
  <1>1. OutputTypeOK' /\ InfchkTypeOK'
    BY OthersTyped DEF ReadAhead, Reading
  <1> SUFFICES ReaderTypeOK' /\ AheadInv' /\ BufferInv'
    BY <1>0, <1>1 DEF Reading, TypeOK
  <1>2. CASE LoaderRead
    <2> DEFINE r == Readable
    <2>1. r \in 0 .. Buf /\ fdPos + r \in 0 .. Len(file)
      BY ReadableBounds
    <2>2. /\ inWhich \in {0, 1} /\ fdPos = inTot /\ buffer' = [buffer EXCEPT ![inWhich] = fdPos]
          /\ inLen' = r /\ fdPos' = fdPos + r /\ loader' = "filled" /\ loadState = 1
          /\ UNCHANGED <<inNext, inLeft, inEof, inShort, inTot, inWhich, loadState>>
      BY <1>2 DEF LoaderRead, Reading, AheadInv, TypeOK, ReaderTypeOK
    <2> HIDE DEF r
    <2>3. ReaderTypeOK'
      BY <1>0, <2>1, <2>2 DEF Reading, TypeOK, ReaderTypeOK
    <2>4. AheadInv'
      BY <1>0, <2>1, <2>2 DEF Reading, AheadInv, TypeOK, ReaderTypeOK
    <2>5. \A p, n : Holds(p, n) /\ p.buf \in {0, 1} => Holds(p, n)'
      BY <2>2 DEF Holds, PositionOf, Reading, TypeOK, ReaderTypeOK
    <2>6. inNext.buf \in {0, 1} /\ zNext.buf \in {0, 1}
      BY DEF Reading, TypeOK, ReaderTypeOK, InfchkTypeOK
    <2>7. inTot <= fdPos'
      BY <2>1, <2>2 DEF Reading, TypeOK, ReaderTypeOK
    <2>8. BufferInv'
      BY <1>0, <2>2, <2>5, <2>6, <2>7 DEF Reading, BufferInv, Inflating
    <2> QED
      BY <2>3, <2>4, <2>8
  <1>3. CASE LoaderSignal \/ LoaderExit \/ LoaderError
    <2>1. ReaderTypeOK'
      BY <1>0, <1>3 DEF LoaderSignal, LoaderExit, LoaderError, Reading, TypeOK, ReaderTypeOK
    <2>2. AheadInv'
      BY <1>0, <1>3 DEF LoaderSignal, LoaderExit, LoaderError, Reading, AheadInv
    <2>3. BufferInv'
      BY <1>0, <1>3 DEF LoaderSignal, LoaderExit, LoaderError, Reading, BufferInv, Inflating, Holds,
         PositionOf
    <2> QED
      BY <2>1, <2>2, <2>3
  <1> QED
    BY <1>2, <1>3 DEF ReadAhead, Loader

LEMMA ThreadReading == ASSUME Reading, Writer \/ CheckThread PROVE Reading'
  <1>1. UNCHANGED <<given, readerVars, infchkVars>>
    BY DEF Writer, CheckThread
  <1>2. OutputTypeOK'
    BY OutputSteps DEF Writer, CheckThread, Testing, Reading
  <1>3. InfchkTypeOK'
    BY <1>1 DEF Reading, TypeOK, InfchkTypeOK, given, infchkVars
  <1> QED
    BY <1>1, <1>2, <1>3, ReaderStays DEF Reading, TypeOK, Inflating, infchkVars

LEMMA ReadingStep == ASSUME Reading, [Next]_vars PROVE Reading'
  <1>1. CASE UNCHANGED vars
    <2>1. OutputTypeOK' /\ InfchkTypeOK'
      BY <1>1, OthersTyped DEF Reading, vars
    <2> QED
      BY <1>1, <2>1, ReaderStays DEF Reading, TypeOK, Inflating, vars, infchkVars
  <1> QED
    BY <1>1, MainReading, AheadReading, ThreadReading DEF Next, Terminated

THEOREM ReadingAlways == Spec => []Reading
  BY ReadingInit, ReadingStep, PTL DEF Spec

\* Whatever the input, the size of a buffer and the failures, every variable keeps its
\* type: no pointer leaves its buffer, and no more is taken from the input than there is.
THEOREM DecompressTypeCorrect == Spec => []TypeOK
  BY ReadingAlways, PTL DEF Reading

\* The read-ahead thread never touches the buffer that is being consumed.
THEOREM ReaderInTurn == Spec => []InTurn
  <1>1. Reading => InTurn
    BY DEF Reading, BufferInv, Holds, InTurn, Consumed
  <1> QED
    BY <1>1, ReadingAlways, PTL

\* Nor the buffer that inflate has been given.
THEOREM InflateGetsInTurn == Spec => []InflateInTurn
  <1>1. Reading => InflateInTurn
    BY DEF Reading, BufferInv, Inflating, Holds, InflateInTurn
  <1> QED
    BY <1>1, ReadingAlways, PTL

-------------------------------------------------------------------------------
(* The output: what is checked is what is written. *)

LEMMA CoversMore ==
  ASSUME NEW c, NEW n \in Nat, NEW b \in Nat, Covers(c, n, b)
  PROVE  Covers(Check(c, b + 1), n + 1, b + 1)
  <1>1. CASE n = 0
    BY <1>1 DEF Covers, Check, Empty
  <1>2. CASE n > 0
    <2>1. n <= b /\ c = [from |-> b - n + 1, to |-> b + 1]
      BY <1>2 DEF Covers
    <2>2. c # Empty /\ c.to = b + 1
      BY <1>2, <2>1 DEF Empty
    <2>3. Check(c, b + 1) = [from |-> b - n + 1, to |-> b + 2]
      BY <2>1, <2>2 DEF Check
    <2> QED
      BY <1>2, <2>1, <2>3 DEF Covers
  <1> QED
    BY <1>1, <1>2

LEMMA EndsMore ==
  ASSUME NEW s \in Seq(Nat), NEW n \in Nat, NEW b \in Nat, Ends(s, n, b)
  PROVE  Ends(Append(s, b + 1), n + 1, b + 1)
  <1> DEFINE t == Append(s, b + 1)
  <1>1. Len(s) \in Nat /\ Len(t) = Len(s) + 1 /\ t[Len(s) + 1] = b + 1
        /\ \A i \in 1 .. Len(s) : t[i] = s[i]
    OBVIOUS
  <1> HIDE DEF t
  <1>2. Ends(t, n + 1, b + 1)
    BY <1>1 DEF Ends
  <1> QED
    BY <1>2 DEF t

LEMMA UsedNat == ASSUME Reading, Inflating PROVE Used \in Nat
  BY DEF Reading, TypeOK, ReaderTypeOK, InfchkTypeOK, BufferInv, Used

\* A step that changes nothing the output depends on.
LEMMA OutputInvStays ==
  ASSUME OutputInv, UNCHANGED <<given, outputVars, mpc, ctxCheck, ctxTot, block>>,
         Inflating => Used' = Used
  PROVE  OutputInv'
  <1> USE DEF given, outputVars
  <1>1. Testing' = Testing /\ Parallel' = Parallel /\ Pushing' = Pushing
        /\ ToWrite' = ToWrite /\ ToCheck' = ToCheck
    BY DEF Testing, Parallel, Pushing, ToWrite, ToCheck
  <1>2. DirectInv'
    BY <1>1 DEF OutputInv, DirectInv, Inflating, Covers, EndsWith, CheckedAsWritten
  <1>3. HandOver'
    BY <1>1 DEF OutputInv, HandOver, Inflating, Covers, EndsWith
  <1>4. Turns'
    BY <1>1 DEF OutputInv, Turns
  <1> QED
    BY <1>2, <1>3, <1>4 DEF OutputInv

\* A step that leaves the member or goes on to the next one.
LEMMA OutputInvLeaves ==
  ASSUME OutputInv, UNCHANGED <<given, outputVars>>,
         \/ mpc' \in {"unwind", "close", "done"}
         \/ mpc' \in {"start", "more"} /\ mpc \in {"header", "sums", "more"}
  PROVE  OutputInv'
  BY DEF OutputInv, DirectInv, HandOver, Turns, Pushing, Parallel, given, outputVars

LEMMA OutputInvInit == Init => OutputInv
  BY DEF Init, NoOutput, OutputInv, DirectInv, HandOver, Turns, Pushing, Parallel

LEMMA StartOutput == ASSUME Reading, OutputInv, StartMember PROVE OutputInv'
  <1>0. /\ mpc = "start" /\ mpc' = "inflate" /\ ctxCheck' = Empty /\ ctxTot' = 0 /\ zLeft' = 0
        /\ UNCHANGED <<given, inTot, inLeft, sink>> /\ Parallel' = Parallel
        /\ inTot \in Nat /\ inLeft \in Nat /\ inLeft <= inTot /\ outCopy \in Nat
    BY DEF StartMember, At, Parallel, given, readerVars, Start, outputVars, Reading, TypeOK,
       ReaderTypeOK, OutputTypeOK, BufferInv
  <1>1. Covers(Empty, 0, Used') /\ \A b : EndsWith(0, b)'
    BY <1>0 DEF Covers, Used, EndsWith, Ends
  <1>2. DirectInv'
    BY <1>0, <1>1 DEF DirectInv, Covers, EndsWith, Ends
  <1>3. CASE Parallel
    <2>0. /\ outCheck' = Empty /\ outTot' = 0 /\ writeState' = 0 /\ checkState' = 0
          /\ writer' = "idle" /\ checker' = "idle" /\ outCopy' = outCopy
      BY <1>3 DEF StartMember, Start
    <2>1. ToWrite' = 0 /\ ToCheck' = 0
      BY <1>0, <2>0 DEF ToWrite, ToCheck
    <2>2. Covers(outCheck, outTot - ToCheck, outCopy - ToCheck)'
      BY <1>0, <2>0, <2>1 DEF Covers
    <2>3. EndsWith(outTot - ToWrite, outCopy - ToWrite)'
      BY <2>0, <2>1 DEF EndsWith, Ends
    <2>4. HandOver'
      BY <1>0, <1>3, <2>0, <2>1, <2>2, <2>3 DEF HandOver
    <2>5. Turns'
      BY <1>0, <1>3, <2>0 DEF Turns
    <2> QED
      BY <1>2, <2>4, <2>5 DEF OutputInv
  <1>4. CASE ~Parallel
    <2>1. writer' = "unborn"
      BY <1>4 DEF StartMember, outputVars, OutputInv, Turns
    <2> QED
      BY <1>0, <1>2, <1>4, <2>1 DEF OutputInv, HandOver, Turns, Pushing
  <1> QED
    BY <1>3, <1>4

LEMMA InflateOutput == ASSUME Reading, OutputInv, Inflate PROVE OutputInv'
  <1>0. /\ UNCHANGED <<given, outputVars, ctxCheck, ctxTot>> /\ mpc = "inflate"
        /\ mpc' = IF Parallel THEN "push" ELSE "output"
        /\ block' = Used + 1 /\ Used' = Used + 1 /\ Used \in Nat
    BY InflateReading, UsedNat DEF Inflate, Inflating
  <1>1. UNCHANGED <<mode, procs, outCopy, outLen, writeState, checkState, outCheck, outTot, writer,
                    checker, sink>>
    BY <1>0 DEF given, outputVars
  <1>2. Parallel' = Parallel /\ Testing' = Testing
    BY <1>1 DEF Parallel, Testing
  <1>3. CASE Parallel
    <2>1. mpc' = "push" /\ Pushing /\ Pushing' /\ ToWrite' = ToWrite /\ ToCheck' = ToCheck
      BY <1>0, <1>1, <1>2, <1>3 DEF Pushing, ToWrite, ToCheck
    <2>2. DirectInv'
      BY <1>2, <1>3, <2>1 DEF DirectInv
    <2>3. HandOver'
      BY <1>0, <1>1, <1>2, <1>3, <2>1 DEF OutputInv, HandOver, Covers, EndsWith
    <2>4. Turns'
      BY <1>0, <1>1, <1>2, <1>3, <2>1 DEF OutputInv, Turns
    <2> QED
      BY <2>2, <2>3, <2>4 DEF OutputInv
  <1>4. CASE ~Parallel
    <2>1. mpc' = "output" /\ ~Pushing' /\ Used' - 1 = Used
      BY <1>0, <1>2, <1>4 DEF Pushing
    <2>2. DirectInv'
      BY <1>0, <1>1, <1>2, <1>4, <2>1 DEF OutputInv, DirectInv, Covers, EndsWith
    <2> QED
      BY <1>1, <1>2, <1>4, <2>1, <2>2 DEF OutputInv, HandOver, Turns
  <1> QED
    BY <1>3, <1>4

\* The end of the data, where the threads are told so or the sums are verified.
LEMMA EndOutput ==
  ASSUME Reading, OutputInv, mpc = "inflate", mpc' = AfterData,
         UNCHANGED <<given, outputVars, ctxCheck, ctxTot>>
  PROVE  OutputInv'
  <1>1. UNCHANGED <<mode, procs, outCopy, outLen, writeState, checkState, outCheck, outTot, writer,
                    checker, sink>>
    BY DEF given, outputVars
  <1>2. Parallel' = Parallel /\ Testing' = Testing
    BY <1>1 DEF Parallel, Testing
  <1>3. CASE Parallel
    <2>1. mpc' = "finish" /\ Pushing /\ Pushing' /\ ToWrite' = ToWrite /\ ToCheck' = ToCheck
      BY <1>1, <1>2, <1>3 DEF AfterData, Pushing, ToWrite, ToCheck
    <2>2. DirectInv'
      BY <1>2, <1>3, <2>1 DEF DirectInv
    <2>3. HandOver'
      BY <1>1, <1>2, <1>3, <2>1 DEF OutputInv, HandOver, Covers, EndsWith
    <2>4. Turns'
      BY <1>1, <1>2, <1>3, <2>1 DEF OutputInv, Turns
    <2> QED
      BY <2>2, <2>3, <2>4 DEF OutputInv
  <1>4. CASE ~Parallel
    <2>1. mpc' = "sums" /\ ~Pushing'
      BY <1>2, <1>4 DEF AfterData, Pushing
    <2>2. Covers(ctxCheck, ctxTot, Used) /\ EndsWith(ctxTot, Used) /\ Used \in Nat /\ ctxTot \in Nat
      BY <1>4, UsedNat DEF OutputInv, DirectInv, Inflating, Reading, TypeOK, InfchkTypeOK
    <2>3. CheckedAsWritten'
      BY <1>1, <2>1, <2>2 DEF CheckedAsWritten, Covers, EndsWith, Ends, Testing
    <2>4. DirectInv'
      BY <2>1, <2>3 DEF DirectInv
    <2> QED
      BY <1>1, <1>2, <1>4, <2>1, <2>4 DEF OutputInv, HandOver, Turns
  <1> QED
    BY <1>3, <1>4

LEMMA DirectOutput == ASSUME Reading, OutputInv, Output PROVE OutputInv'
  <1>0. /\ mpc = "output" /\ mpc' = "inflate" /\ ~Parallel /\ block = Used
        /\ Covers(ctxCheck, ctxTot, Used - 1) /\ EndsWith(ctxTot, Used - 1)
        /\ ctxCheck' = Check(ctxCheck, block) /\ ctxTot' = ctxTot + 1
        /\ sink' = IF Testing THEN sink ELSE Append(sink, block)
        /\ UNCHANGED <<given, readerVars, zLeft, writer, checker>>
        /\ ctxTot \in Nat /\ sink \in Seq(Nat)
    BY DEF Output, At, OutputInv, DirectInv, Reading, TypeOK, InfchkTypeOK, OutputTypeOK
  <1>1. Used' = Used /\ Used \in Nat /\ Used - 1 \in Nat
    BY <1>0, UsedNat DEF Inflating, Used, readerVars, Covers
  <1>2. Parallel' = Parallel /\ Testing' = Testing
    BY <1>0 DEF Parallel, Testing, given
  <1>3. Covers(Check(ctxCheck, block), ctxTot + 1, Used)
    <2>1. Covers(Check(ctxCheck, (Used - 1) + 1), ctxTot + 1, (Used - 1) + 1)
      BY <1>0, <1>1, CoversMore
    <2>2. (Used - 1) + 1 = Used
      BY <1>1
    <2> QED
      BY <1>0, <2>1, <2>2
  <1>4. Testing \/ Ends(sink', ctxTot + 1, Used)
    <2>1. ASSUME ~Testing PROVE Ends(Append(sink, (Used - 1) + 1), ctxTot + 1, (Used - 1) + 1)
      BY <1>0, <1>1, <2>1, EndsMore DEF EndsWith
    <2>2. (Used - 1) + 1 = Used
      BY <1>1
    <2> QED
      BY <1>0, <2>1, <2>2
  <1>5. DirectInv'
    BY <1>0, <1>1, <1>2, <1>3, <1>4 DEF DirectInv, Covers, EndsWith
  <1> QED
    BY <1>0, <1>2, <1>5 DEF OutputInv, HandOver, Turns, Pushing

\* push(), as far as the copy: both threads have let go of the buffer.
LEMMA PushOutput == ASSUME Reading, OutputInv, Push PROVE OutputInv'
  <1>0. /\ mpc = "push" /\ mpc' = "pushed" /\ checkState = 0 /\ writeState = 0
        /\ outLen' = 1 /\ outCopy' = block /\ outTot' = outTot + 1 /\ writeState' = 1
        /\ UNCHANGED <<given, checkState, outCheck, writer, checker, sink, inTot, inLeft, zLeft, block>>
        /\ outTot \in Nat /\ outCopy \in Nat
    BY DEF Push, At, PushCopy, PushWait, Reading, TypeOK, OutputTypeOK, readerVars
  <1>1. /\ Parallel /\ Pushing /\ block = Used /\ Used > 0 /\ outTot <= outCopy
        /\ outTot > 0 => outCopy = Used - 1
        /\ writer = "idle" /\ checker = "idle" /\ ToWrite = 0 /\ ToCheck = 0
    BY <1>0 DEF OutputInv, HandOver, Turns, Pushing, ToWrite, ToCheck
  <1>2. Used \in Nat /\ Used' = Used
    BY <1>0, UsedNat DEF Inflating, Used
  <1>3. Covers(outCheck, outTot, outCopy) /\ EndsWith(outTot, outCopy)
    <2>1. outTot - 0 = outTot /\ outCopy - 0 = outCopy
      BY <1>0
    <2> QED
      BY <1>1, <2>1 DEF OutputInv, HandOver
  <1>4. Parallel' /\ Testing' = Testing
    BY <1>0, <1>1 DEF Parallel, Testing, given
  <1>5. ToWrite' = 1 /\ ToCheck' = 1
    BY <1>0, <1>1 DEF ToWrite, ToCheck
  <1>6. Covers(outCheck, outTot, Used - 1) /\ EndsWith(outTot, Used - 1)
    BY <1>0, <1>1, <1>2, <1>3 DEF Covers, EndsWith, Ends
  <1>7. outTot' - 1 = outTot /\ outCopy' - 1 = Used - 1
    BY <1>0, <1>1
  <1>8. Covers(outCheck, outTot - ToCheck, outCopy - ToCheck)'
    BY <1>0, <1>5, <1>6, <1>7 DEF Covers
  <1>9. EndsWith(outTot - ToWrite, outCopy - ToWrite)'
    BY <1>0, <1>4, <1>5, <1>6, <1>7 DEF EndsWith
  <1>10. HandOver'
    BY <1>0, <1>1, <1>2, <1>4, <1>5, <1>8, <1>9 DEF HandOver
  <1>11. DirectInv' /\ Turns'
    BY <1>0, <1>1, <1>4 DEF DirectInv, Turns
  <1> QED
    BY <1>10, <1>11 DEF OutputInv

LEMMA PushedOutput == ASSUME Reading, OutputInv, Pushed \/ Finished PROVE OutputInv'
  <1>0. /\ mpc \in {"pushed", "finished"} /\ mpc' = IF mpc = "pushed" THEN "inflate" ELSE "join"
        /\ checkState' = 1 /\ checkState = 0 /\ checker = "idle" /\ outLen = IF mpc = "pushed" THEN 1 ELSE 0
        /\ UNCHANGED <<given, outCopy, outLen, writeState, outCheck, outTot, writer, checker, sink,
                       inTot, inLeft, zLeft>>
        /\ outTot \in Nat /\ outCopy \in Nat
    BY DEF Pushed, Finished, At, PushCheck, Reading, TypeOK, OutputTypeOK, readerVars, OutputInv, Turns
  <1>1. Parallel /\ Parallel' /\ Pushing /\ Pushing' /\ Testing' = Testing /\ Used' = Used
    BY <1>0 DEF OutputInv, HandOver, Pushing, Parallel, Testing, given, Used
  <1>2. ToWrite' = ToWrite /\ ToCheck' = ToCheck
    BY <1>0 DEF ToWrite, ToCheck
  <1>3. HandOver'
    BY <1>0, <1>1, <1>2 DEF OutputInv, HandOver, Covers, EndsWith
  <1>4. DirectInv' /\ Turns'
    BY <1>0, <1>1 DEF OutputInv, DirectInv, Turns
  <1> QED
    BY <1>3, <1>4 DEF OutputInv

LEMMA FinishOutput == ASSUME Reading, OutputInv, Finish PROVE OutputInv'
  <1>0. /\ mpc = "finish" /\ mpc' = "finished" /\ checkState = 0 /\ writeState = 0
        /\ outLen' = 0 /\ writeState' = 1
        /\ UNCHANGED <<given, outCopy, outTot, checkState, outCheck, writer, checker, sink>>
    BY DEF Finish, At, PushEnd, PushWait
  <1>1. Parallel /\ Parallel' /\ Pushing /\ Testing' = Testing
    BY <1>0 DEF OutputInv, HandOver, Pushing, Parallel, Testing, given
  <1>2. ToWrite = 0 /\ ToCheck = 0 /\ ToWrite' = 0 /\ ToCheck' = 0 /\ checker = "idle"
    BY <1>0, <1>1 DEF ToWrite, ToCheck, OutputInv, Turns
  <1>3. HandOver'
    BY <1>0, <1>1, <1>2 DEF OutputInv, HandOver, Covers, EndsWith
  <1>4. DirectInv' /\ Turns'
    BY <1>0, <1>1, <1>2 DEF OutputInv, DirectInv, Turns
  <1> QED
    BY <1>3, <1>4 DEF OutputInv

LEMMA JoinedOutput == ASSUME Reading, OutputInv, JoinOutput PROVE OutputInv'
  <1>0. /\ mpc = "join" /\ mpc' = "sums" /\ ctxCheck' = outCheck /\ ctxTot' = outTot
        /\ writer = "exited" /\ UNCHANGED <<given, writer, sink>>
        /\ outTot \in Nat /\ outCopy \in Nat
    BY DEF JoinOutput, At, Join, BothExited, Reading, TypeOK, OutputTypeOK
  <1>1. Parallel /\ Pushing /\ ToWrite = 0 /\ ToCheck = 0
    BY <1>0 DEF OutputInv, HandOver, Turns, Pushing, ToWrite, ToCheck
  <1>2. Covers(outCheck, outTot, outCopy) /\ EndsWith(outTot, outCopy)
    <2>1. outTot - 0 = outTot /\ outCopy - 0 = outCopy
      BY <1>0
    <2> QED
      BY <1>1, <2>1 DEF OutputInv, HandOver
  <1>3. Parallel' /\ Testing' = Testing
    BY <1>0, <1>1 DEF Parallel, Testing, given
  <1>4. CheckedAsWritten'
    BY <1>0, <1>2, <1>3 DEF CheckedAsWritten, Covers, EndsWith, Ends, Testing
  <1> QED
    BY <1>0, <1>3, <1>4 DEF OutputInv, DirectInv, HandOver, Turns, Pushing

\* The threads of ParallelOutput run between start() and the end of finish(), or the
\* member has been left.
LEMMA ThreadsRun ==
  ASSUME TypeOK, Turns, writer \notin {"unborn", "exited"}
  PROVE  Parallel /\ (Pushing \/ mpc \in {"output", "unwind", "close", "done"})
  BY DEF Turns, Pushing, TypeOK, InfchkTypeOK

LEMMA WriterOutput == ASSUME Reading, OutputInv, Writer PROVE OutputInv'
  <1>0. /\ UNCHANGED <<given, outCopy, outLen, checkState, outCheck, outTot, checker, mpc, ctxCheck,
                       ctxTot, block, inTot, inLeft, zLeft>>
        /\ outTot \in Nat /\ outCopy \in Nat /\ outLen \in {0, 1} /\ sink \in Seq(Nat)
        /\ writer \notin {"unborn", "exited"} /\ writer' # "unborn"
    BY DEF Writer, WriteBlock, WriteFailure, WriteReturn, readerVars, infchkVars, Reading, TypeOK,
       OutputTypeOK
  <1>1. Parallel /\ Parallel' /\ (Pushing \/ mpc \in {"output", "unwind", "close", "done"})
        /\ mpc # "output" /\ Pushing' = Pushing /\ Testing' = Testing /\ Used' = Used
        /\ ToCheck' = ToCheck
    BY <1>0, ThreadsRun DEF OutputInv, DirectInv, Reading, Parallel, Pushing, Testing, Used, ToCheck, given
  <1>2. CASE ~Pushing
    <2>1. mpc' \in {"unwind", "close", "done"}
      BY <1>0, <1>1, <1>2
    <2> QED
      BY <1>0, <1>1, <1>2, <2>1 DEF OutputInv, DirectInv, HandOver, Turns
  <1>3. CASE Pushing
    <2>1. DirectInv'
      BY <1>0, <1>1, <1>3 DEF DirectInv, Pushing
    <2>2. /\ Covers(outCheck, outTot - ToCheck, outCopy - ToCheck)
          /\ EndsWith(outTot - ToWrite, outCopy - ToWrite)
          /\ ToCheck <= outTot /\ ToWrite <= outTot /\ outTot <= outCopy
      BY <1>3 DEF OutputInv, HandOver
    <2>3. ASSUME EndsWith(outTot - ToWrite, outCopy - ToWrite)', ToWrite' <= outTot PROVE HandOver'
      BY <1>0, <1>1, <1>3, <2>2, <2>3 DEF OutputInv, HandOver, Covers
    <2>4. CASE WriteBlock(Testing) /\ outLen = 1
      <3>1. /\ ToWrite = 1 /\ ToWrite' = 0 /\ writer' = "wrote" /\ writeState' = 1
            /\ sink' = IF Testing THEN sink ELSE Append(sink, outCopy)
        BY <1>0, <2>4 DEF WriteBlock, ToWrite
      <3>2. outTot - 1 \in Nat /\ outCopy - 1 \in Nat /\ (outTot - 1) + 1 = outTot /\ (outCopy - 1) + 1 = outCopy
            /\ outTot - 0 = outTot /\ outCopy - 0 = outCopy
        BY <1>0, <2>2, <3>1
      <3>3. ASSUME ~Testing PROVE Ends(Append(sink, (outCopy - 1) + 1), (outTot - 1) + 1, (outCopy - 1) + 1)
        BY <1>0, <2>2, <3>1, <3>2, <3>3, EndsMore DEF EndsWith
      <3>4. Testing \/ Ends(sink', outTot, outCopy)
        BY <3>1, <3>2, <3>3
      <3>5. HandOver'
        BY <1>0, <1>1, <2>3, <3>1, <3>2, <3>4 DEF EndsWith
      <3>6. Turns'
        BY <1>0, <1>1, <1>3, <2>4, <3>1 DEF OutputInv, Turns, Pushing
      <3> QED
        BY <2>1, <3>5, <3>6 DEF OutputInv
    <2>5. CASE WriteBlock(Testing) /\ outLen = 0
      <3>1. /\ ToWrite = 0 /\ ToWrite' = 0 /\ writer' = "leaving" /\ writeState' = 1 /\ writeState = 1
            /\ sink' = sink
        BY <1>0, <2>5 DEF WriteBlock, ToWrite
      <3>2. HandOver'
        BY <1>0, <1>1, <2>2, <2>3, <3>1 DEF EndsWith
      <3>3. mpc \in {"finished", "join"}
        BY <1>3, <2>5, <3>1 DEF OutputInv, Turns, Pushing
      <3>4. Turns'
        BY <1>0, <1>1, <3>1, <3>3 DEF OutputInv, Turns
      <3> QED
        BY <2>1, <3>2, <3>4 DEF OutputInv
    <2>6. CASE WriteFailure(Testing)
      <3>1. /\ ToWrite' = ToWrite /\ writer' = "aborted" /\ writeState' = 1 /\ sink' = sink
        BY <1>0, <2>6 DEF WriteFailure, ToWrite
      <3>2. HandOver'
        BY <1>0, <1>1, <2>2, <2>3, <3>1 DEF EndsWith
      <3>3. Turns'
        BY <1>0, <1>1, <1>3, <2>6, <3>1 DEF OutputInv, Turns, Pushing, WriteFailure
      <3> QED
        BY <2>1, <3>2, <3>3 DEF OutputInv
    <2>7. CASE WriteReturn
      <3>1. /\ ToWrite = 0 /\ ToWrite' = 0 /\ writeState' = 0 /\ sink' = sink
            /\ writer' = IF writer = "wrote" THEN "idle" ELSE "exited"
        BY <2>7 DEF WriteReturn, ToWrite
      <3>2. HandOver'
        BY <1>0, <1>1, <2>2, <2>3, <3>1 DEF EndsWith
      <3>3. Turns'
        BY <1>0, <1>1, <1>3, <2>7, <3>1 DEF OutputInv, Turns, Pushing, WriteReturn
      <3> QED
        BY <2>1, <3>2, <3>3 DEF OutputInv
    <2> QED
      BY <1>0, <2>4, <2>5, <2>6, <2>7 DEF Writer
  <1> QED
    BY <1>2, <1>3

LEMMA CheckerOutput == ASSUME Reading, OutputInv, CheckThread PROVE OutputInv'
  <1>0. /\ UNCHANGED <<given, outCopy, outLen, writeState, outTot, writer, sink, mpc, ctxCheck,
                       ctxTot, block, inTot, inLeft, zLeft>>
        /\ outTot \in Nat /\ outCopy \in Nat /\ outLen \in {0, 1}
    BY DEF CheckThread, Checker, CheckBlock, CheckReturn, readerVars, infchkVars, Reading, TypeOK,
       OutputTypeOK
  <1>1. Parallel' = Parallel /\ Pushing' = Pushing /\ Testing' = Testing /\ Used' = Used
        /\ ToWrite' = ToWrite
    BY <1>0 DEF Parallel, Pushing, Testing, Used, ToWrite, given
  <1>2. DirectInv'
    BY <1>0, <1>1 DEF OutputInv, DirectInv, Covers, EndsWith, CheckedAsWritten
  <1>3. CASE ~Pushing
    <2>1. mpc \notin {"pushed", "finished", "join"}
      BY <1>3 DEF OutputInv, HandOver, Pushing
    <2> QED
      BY <1>0, <1>1, <1>2, <1>3, <2>1 DEF OutputInv, HandOver, Turns
  <1>4. CASE Pushing
    <2>2. /\ Covers(outCheck, outTot - ToCheck, outCopy - ToCheck)
          /\ EndsWith(outTot - ToWrite, outCopy - ToWrite)
          /\ ToCheck <= outTot /\ ToWrite <= outTot /\ outTot <= outCopy
      BY <1>4 DEF OutputInv, HandOver
    <2>3. ASSUME Covers(outCheck, outTot - ToCheck, outCopy - ToCheck)', ToCheck' <= outTot PROVE HandOver'
      BY <1>0, <1>1, <1>4, <2>2, <2>3 DEF OutputInv, HandOver, EndsWith
    <2>4. CASE CheckBlock /\ outLen = 1
      <3>1. /\ ToCheck = 1 /\ ToCheck' = 0 /\ checker' = "checked" /\ checkState' = 1
            /\ outCheck' = Check(outCheck, outCopy) /\ mpc # "pushed"
        BY <1>0, <2>4 DEF CheckBlock, ToCheck, OutputInv, Turns
      <3>2. outTot - 1 \in Nat /\ outCopy - 1 \in Nat /\ (outTot - 1) + 1 = outTot /\ (outCopy - 1) + 1 = outCopy
            /\ outTot - 0 = outTot /\ outCopy - 0 = outCopy
        BY <1>0, <2>2, <3>1
      <3>3. Covers(Check(outCheck, (outCopy - 1) + 1), (outTot - 1) + 1, (outCopy - 1) + 1)
        BY <2>2, <3>1, <3>2, CoversMore
      <3>4. Covers(outCheck, outTot - ToCheck, outCopy - ToCheck)'
        BY <1>0, <3>1, <3>2, <3>3 DEF Covers
      <3>5. HandOver'
        BY <1>0, <2>3, <3>1, <3>4
      <3>6. Turns'
        BY <1>0, <1>1, <1>4, <2>4, <3>1 DEF OutputInv, Turns, Pushing, CheckBlock
      <3> QED
        BY <1>2, <3>5, <3>6 DEF OutputInv
    <2>5. CASE CheckBlock /\ outLen = 0
      <3>1. /\ ToCheck = 0 /\ ToCheck' = 0 /\ outCheck' = outCheck
            /\ checkState = 1 /\ checkState' = 1 /\ checker' = "leaving"
        BY <1>0, <2>5 DEF CheckBlock, ToCheck
      <3>2. HandOver'
        BY <1>0, <2>2, <2>3, <3>1 DEF Covers
      <3>3. mpc = "join"
        BY <1>4, <2>5, <3>1 DEF OutputInv, Turns, Pushing
      <3>4. Turns'
        BY <1>0, <1>1, <3>1, <3>3 DEF OutputInv, Turns
      <3> QED
        BY <1>2, <3>2, <3>4 DEF OutputInv
    <2>6. CASE CheckReturn
      <3>1. /\ mpc # "pushed" /\ checkState' = 0 /\ outCheck' = outCheck
            /\ checker' = IF checker = "checked" THEN "idle" ELSE "exited"
        BY <2>6 DEF CheckReturn, OutputInv, Turns
      <3>2. ToCheck = 0 /\ ToCheck' = 0
        BY <1>0, <2>6, <3>1 DEF CheckReturn, ToCheck
      <3>3. HandOver'
        BY <1>0, <2>2, <2>3, <3>1, <3>2 DEF Covers
      <3>4. mpc # "finished" /\ (mpc = "join" \/ checker' = "idle")
        BY <1>4, <2>6, <3>1 DEF CheckReturn, OutputInv, Turns, Pushing
      <3>5. writer' = writer /\ writeState' = writeState /\ outLen' = outLen /\ mpc' = mpc
        BY <1>0
      <3>6. Turns'
        BY <1>1, <3>1, <3>4, <3>5 DEF OutputInv, Turns
      <3> QED
        BY <1>2, <3>3, <3>6 DEF OutputInv
    <2> QED
      BY <1>0, <2>4, <2>5, <2>6 DEF CheckThread, Checker
  <1> QED
    BY <1>3, <1>4

LEMMA OutputStep == ASSUME Reading, OutputInv, [Next]_vars PROVE OutputInv'
  <1>1. CASE Load
    <2>1. Inflating => Used' = Used
      <3>1. CASE LoadNothing \/ LoadLaunch
        BY <1>1, <3>1 DEF Load, LoadNothing, LoadLaunch, Used, infchkVars
      <3>2. CASE LoadDirect
        <4>1. Readable \in Nat /\ inTot \in Nat /\ inLeft = 0 /\ zLeft' = zLeft
              /\ inTot' = inTot + Readable /\ inLeft' = Readable
          BY <1>1, <3>2, ReadableBounds DEF Load, LoadDirect, Loaded, Reading, TypeOK, ReaderTypeOK, infchkVars
        <4>2. PICK r \in Nat : r = Readable
          BY <4>1
        <4> QED
          BY <4>1, <4>2 DEF Used, Reading, TypeOK, InfchkTypeOK
      <3>3. CASE LoadSwap \/ LoadLast
        <4>1. inLen \in Nat /\ inTot \in Nat /\ inLeft = 0 /\ zLeft' = zLeft
              /\ inTot' = inTot + inLen /\ inLeft' = inLen /\ zLeft \in Nat
          BY <1>1, <3>3 DEF Load, LoadSwap, LoadLast, Loaded, Reading, TypeOK, ReaderTypeOK,
             InfchkTypeOK, infchkVars
        <4> QED
          BY <4>1 DEF Used
      <3> QED
        BY <1>1, <3>1, <3>2, <3>3 DEF Load, LoadStep
    <2> QED
      BY <1>1, <2>1, OutputInvStays DEF Load, infchkVars
  <1>2. CASE Fetch
    <2>1. Used' = Used
      BY <1>2 DEF Fetch, Used, Reading, TypeOK, ReaderTypeOK, InfchkTypeOK
    <2> QED
      BY <1>2, <2>1, OutputInvStays DEF Fetch
  <1>3. CASE EndOfData
    BY <1>3, EndOutput DEF EndOfData
  <1>4. CASE Incomplete
    <2>1. CASE mpc' = AfterData
      BY <1>4, <2>1, EndOutput DEF Incomplete
    <2>2. CASE mpc' = "unwind"
      BY <1>4, <2>2, OutputInvLeaves DEF Incomplete
    <2> QED
      BY <1>4, <2>1, <2>2 DEF Incomplete, Throw
  <1>5. CASE LoadError \/ Corrupted \/ OutputError \/ Unwind
    BY <1>5, OutputInvLeaves DEF LoadError, Corrupted, OutputError, Unwind, At, Throw, Fail
  <1>6. CASE Close
    BY <1>6, OutputInvLeaves DEF Close
  <1>7. ASSUME NEW u, GetHeader(u) \/ VerifySums(u) \/ NextMember(u) PROVE OutputInv'
    BY <1>7, OutputInvLeaves DEF GetHeader, VerifySums, NextMember, Throw
  <1>8. CASE ReadAhead
    <2>1. Used' = Used
      BY <1>8 DEF ReadAhead, Loader, LoaderRead, LoaderSignal, LoaderExit, LoaderError, Used, infchkVars
    <2> QED
      BY <1>8, <2>1, OutputInvStays DEF ReadAhead, infchkVars
  <1>9. CASE UNCHANGED vars
    BY <1>9, OutputInvStays DEF vars, readerVars, infchkVars, Used
  <1> QED
    BY <1>1, <1>2, <1>3, <1>4, <1>5, <1>6, <1>7, <1>8, <1>9, StartOutput, InflateOutput,
       DirectOutput, PushOutput, PushedOutput, FinishOutput, JoinedOutput, WriterOutput,
       CheckerOutput DEF Next, Main, Terminated

THEOREM DecompressInvariant == Spec => []DecompressInv
  <1>1. Init => DecompressInv
    BY ReadingInit, OutputInvInit DEF DecompressInv
  <1>2. DecompressInv /\ [Next]_vars => DecompressInv'
    BY ReadingStep, OutputStep DEF DecompressInv
  <1> QED
    BY <1>1, <1>2, PTL DEF Spec

\* However far the write and the check thread are behind, what is compared with the sums
\* of a member is the check value and the length of exactly what was written of it.
THEOREM ChecksWhatIsWritten == Spec => []CheckedAsWritten
  <1>1. DecompressInv => CheckedAsWritten
    BY DEF DecompressInv, OutputInv, DirectInv, CheckedAsWritten
  <1> QED
    BY <1>1, DecompressInvariant, PTL

-------------------------------------------------------------------------------
(* The reader of the format. *)

\* A set of natural numbers that is not empty has a least element.
LEMMA LeastNat ==
  ASSUME NEW T \in SUBSET Nat, T # {}
  PROVE  \E n \in T : \A m \in T : n <= m
  <1>1. IsWellFoundedOn(OpToRel(<, Nat), Nat)
    BY NatLessThanWellFounded
  <1>2. PICK n \in T : \A m \in Nat : <<m, n>> \in OpToRel(<, Nat) => m \notin T
    BY <1>1, WFMin
  <1>3. \A m \in T : ~(m < n)
    BY <1>2 DEF OpToRel
  <1> QED
    BY <1>3

Opening == [at |-> "head", form |-> "none"]

\* What the reader of the format makes of a unit.
Takes(s, u) == [at   |-> Stream!Follows(s.at, s.form, u),
                form |-> IF s.at = "head" /\ u \in Stream!Heads THEN u ELSE s.form]

\* The states f of that reader before and behind the first n units.
Readings(f, n) == f = [i \in 0 .. n |-> IF i = 0 THEN Opening ELSE Takes(f[i - 1], file[i])]

LEMMA ReadingsExist == ASSUME file \in Files PROVE \E f : Readings(f, Len(file))
  <1>0. Len(file) \in Nat
    BY InputLength
  <1> DEFINE T == {n \in 0 .. Len(file) : ~ \E f : Readings(f, n)}
  <1>1. 0 \notin T
    <2>1. Readings([i \in 0 .. 0 |-> Opening], 0)
      BY DEF Readings
    <2> QED
      BY <2>1
  <1>2. ASSUME NEW n \in 1 .. Len(file), n - 1 \notin T PROVE n \notin T
    <2>1. PICK f : Readings(f, n - 1)
      BY <1>0, <1>2
    <2> DEFINE g == [i \in 0 .. n |-> IF i = n THEN Takes(f[n - 1], file[n]) ELSE f[i]]
    <2>2. \A i \in 0 .. n - 1 : f[i] = IF i = 0 THEN Opening ELSE Takes(f[i - 1], file[i])
      BY <2>1, <1>0 DEF Readings
    <2>3. \A i \in 0 .. n : g[i] = IF i = 0 THEN Opening ELSE Takes(g[i - 1], file[i])
      <3> SUFFICES ASSUME NEW i \in 0 .. n
                   PROVE  g[i] = IF i = 0 THEN Opening ELSE Takes(g[i - 1], file[i])
        OBVIOUS
      <3>1. CASE i = n
        BY <3>1, <1>0
      <3>2. CASE i # n
        <4>1. i \in 0 .. n - 1 /\ (i # 0 => i - 1 \in 0 .. n - 1)
          BY <3>2, <1>0
        <4>2. g[i] = f[i] /\ (i # 0 => g[i - 1] = f[i - 1])
          BY <4>1, <1>0
        <4> HIDE DEF g
        <4> QED
          BY <4>1, <4>2, <2>2
      <3> QED
        BY <3>1, <3>2
    <2>4. Readings(g, n)
      <3>1. g = [i \in 0 .. n |-> g[i]]
        OBVIOUS
      <3> HIDE DEF g
      <3> QED
        BY <3>1, <2>3 DEF Readings
    <2> QED
      BY <2>4
  <1>3. T = {}
    <2> SUFFICES ASSUME T # {} PROVE FALSE
      OBVIOUS
    <2>1. T \in SUBSET Nat /\ T \subseteq 0 .. Len(file)
      OBVIOUS
    <2> HIDE DEF T
    <2>2. PICK n \in T : \A m \in T : n <= m
      BY <2>1, LeastNat
    <2>3. n \in 1 .. Len(file) /\ n - 1 \notin T
      BY <1>0, <1>1, <2>1, <2>2
    <2> QED
      BY <1>2, <2>2, <2>3
  <1> QED
    BY <1>0, <1>3

\* After is such a function.
LEMMA AfterReads ==
  ASSUME file \in Files
  PROVE  /\ Stream!After[0] = Opening
         /\ \A n \in 1 .. Len(file) : Stream!After[n] = Takes(Stream!After[n - 1], file[n])
  <1>0. Len(file) \in Nat
    BY InputLength
  <1> DEFINE Step(f) == [n \in 0 .. Len(file) |->
                           IF n = 0 THEN [at |-> "head", form |-> "none"]
                           ELSE LET s == f[n - 1]
                                    u == file[n]
                                IN [at   |-> Stream!Follows(s.at, s.form, u),
                                    form |-> IF s.at = "head" /\ u \in Stream!Heads THEN u ELSE s.form]]
  <1>1. PICK f : Readings(f, Len(file))
    BY ReadingsExist
  <1>2. f = Step(f)
    BY <1>1 DEF Readings, Takes, Opening
  <1>3. Stream!After = CHOOSE g : g = Step(g)
    BY DEF Stream!After
  <1>4. Stream!After = Step(Stream!After)
    BY <1>2, <1>3
  <1> DEFINE g == Stream!After
  <1>5. g = Step(g)
    BY <1>4
  <1> HIDE DEF g
  <1>6. \A n \in 0 .. Len(file) : g[n] = IF n = 0 THEN Opening ELSE Takes(g[n - 1], file[n])
    BY <1>5 DEF Takes, Opening
  <1> QED
    BY <1>0, <1>6 DEF g

\* At some places the reader stays.
LEMMA Stuck ==
  ASSUME file \in Files, NEW D \in {{"complete"}, {"broken"}},
         NEW m \in 0 .. Len(file), Stream!After[m].at \in D, NEW n \in m .. Len(file)
  PROVE  Stream!After[n].at \in D
  <1>0. Len(file) \in Nat
    BY InputLength
  <1> DEFINE T == {i \in m .. Len(file) : Stream!After[i].at \notin D}
  <1>1. ASSUME NEW i \in m .. Len(file), i > m, i - 1 \notin T PROVE i \notin T
    <2>1. i - 1 \in m .. Len(file) /\ i \in 1 .. Len(file) /\ Stream!After[i - 1].at \in D
      BY <1>0, <1>1
    <2>2. Stream!After[i].at = Stream!Follows(Stream!After[i - 1].at, Stream!After[i - 1].form, file[i])
      <3>1. Stream!After[i] = Takes(Stream!After[i - 1], file[i])
        BY <2>1, AfterReads
      <3> QED
        BY <3>1 DEF Takes
    <2>3. \A at \in D : \A f, u : Stream!Follows(at, f, u) \in D
      BY DEF Stream!Follows
    <2> QED
      BY <2>1, <2>2, <2>3
  <1>2. T = {}
    <2> SUFFICES ASSUME T # {} PROVE FALSE
      OBVIOUS
    <2>1. T \in SUBSET Nat /\ T \subseteq m .. Len(file) /\ m \notin T
      BY <1>0
    <2> HIDE DEF T
    <2>2. PICK i \in T : \A j \in T : i <= j
      BY <2>1, LeastNat
    <2>3. i \in m .. Len(file) /\ i > m /\ i - 1 \notin T
      BY <1>0, <2>1, <2>2
    <2> QED
      BY <1>1, <2>2, <2>3
  <1> QED
    BY <1>2

\* Behind something that does not belong there no file is intact.
LEMMA NeverIntact ==
  ASSUME file \in Files, NEW n \in 0 .. Len(file), Stream!After[n].at = "broken"
  PROVE  ~Stream!Intact
  <1>1. Stream!After[Len(file)].at = "broken"
    BY InputLength, Stuck
  <1> QED
    BY <1>1 DEF Stream!Intact

\* Behind the end of what there is to restore there is nothing to restore.
LEMMA WholeContent ==
  ASSUME file \in Files, NEW n \in 0 .. Len(file),
         \/ Stream!After[n].at = "complete"
         \/ Stream!After[n].at = "member" /\ n = Len(file)
  PROVE  Stream!Intact /\ \A i \in Stream!Content : i <= n
  <1>0. Len(file) \in Nat
    BY InputLength
  <1>1. CASE Stream!After[n].at = "complete"
    <2>1. \A i \in n .. Len(file) : Stream!After[i].at = "complete"
      BY <1>1, Stuck
    <2>2. ASSUME NEW i \in Stream!Content, i > n PROVE FALSE
      <3>1. i \in 1 .. Len(file) /\ Stream!After[i - 1].at = "data"
        BY <2>2 DEF Stream!Content
      <3> QED
        BY <1>0, <2>1, <2>2, <3>1
    <2>3. \A i \in Stream!Content : i <= n
      BY <1>0, <2>2 DEF Stream!Content
    <2> QED
      BY <1>0, <2>1, <2>3 DEF Stream!Intact
  <1>2. CASE n = Len(file)
    BY <1>0, <1>2 DEF Stream!Intact, Stream!Content
  <1> QED
    BY <1>1, <1>2

-------------------------------------------------------------------------------
(* The sums of a member. *)

LEMMA LastHeadIs ==
  ASSUME file \in Files, NEW h \in 1 .. Len(file), NEW n \in h .. Len(file),
         file[h] \in Stream!Heads, \A i \in h + 1 .. n : file[i] \notin Stream!Heads
  PROVE  LastHead(n) = h
  <1>0. Len(file) \in Nat
    BY InputLength
  <1> DEFINE P(x) == /\ x = 0 \/ file[x] \in Stream!Heads
                     /\ \A i \in x + 1 .. n : file[i] \notin Stream!Heads
  <1>1. h \in 0 .. n /\ P(h)
    BY <1>0
  <1>2. ASSUME NEW x \in 0 .. n, P(x) PROVE x = h
    <2>1. ~(x < h)
      <3>1. x < h => h \in x + 1 .. n
        BY <1>0
      <3> QED
        BY <3>1, <1>2
    <2>2. ~(h < x)
      <3>1. h < x => x \in h + 1 .. n /\ x # 0
        BY <1>0
      <3> QED
        BY <3>1, <1>2
    <2> QED
      BY <1>0, <2>1, <2>2
  <1>3. LastHead(n) = CHOOSE x \in 0 .. n : P(x)
    BY DEF LastHead
  <1> HIDE DEF P
  <1> QED
    BY <1>1, <1>2, <1>3

LEMMA EndOfIs ==
  ASSUME file \in Files, NEW h \in 1 .. Len(file), NEW e \in h + 1 .. Len(file) + 1,
         e = Len(file) + 1 \/ file[e] # "data", \A i \in h + 1 .. e - 1 : file[i] = "data"
  PROVE  EndOf(h) = e
  <1>0. Len(file) \in Nat
    BY InputLength
  <1> DEFINE P(x) == /\ x = Len(file) + 1 \/ file[x] # "data"
                     /\ \A i \in h + 1 .. x - 1 : file[i] = "data"
  <1>1. P(e)
    OBVIOUS
  <1>2. ASSUME NEW x \in h + 1 .. Len(file) + 1, P(x) PROVE x = e
    <2>1. ~(x < e)
      <3>1. x < e => x \in h + 1 .. e - 1 /\ x # Len(file) + 1
        BY <1>0
      <3> QED
        BY <3>1, <1>2
    <2>2. ~(e < x)
      <3>1. e < x => e \in h + 1 .. x - 1 /\ e # Len(file) + 1
        BY <1>0
      <3> QED
        BY <3>1, <1>2
    <2> QED
      BY <1>0, <2>1, <2>2
  <1>3. EndOf(h) = CHOOSE x \in h + 1 .. Len(file) + 1 : P(x)
    BY DEF EndOf
  <1> HIDE DEF P
  <1> QED
    BY <1>1, <1>2, <1>3

\* The sums of a member that is whole match what was restored of it.
LEMMA WholeMatches ==
  ASSUME file \in Files, NEW h, NEW k, Run(h, k), Consumed = h + k + 1, Consumed <= Len(file),
         file[Consumed] = "end", ctxTot = k, Covers(ctxCheck, ctxTot, h + ctxTot)
  PROVE  Matching
  <1>0. Len(file) \in Nat /\ h \in 1 .. Len(file) /\ k \in Nat
    BY InputLength DEF Run
  <1>1. \A i \in h + 1 .. h + k + 1 : file[i] \notin Stream!Heads
    <2>1. \A i \in h + 1 .. h + k + 1 : i \in h + 1 .. h + k \/ i = h + k + 1
      BY <1>0
    <2> QED
      BY <2>1 DEF Run, Stream!Heads
  <1>2. LastHead(h + k + 1) = h
    BY <1>0, <1>1, LastHeadIs DEF Run
  <1>3. EndOf(h) = h + k + 1
    <2>1. (h + k + 1) - 1 = h + k /\ h + k + 1 \in h + 1 .. Len(file) + 1
      BY <1>0
    <2> QED
      BY <1>0, <2>1, EndOfIs DEF Run
  <1>4. (h + k + 1) - h - 1 = k /\ (h + k) - k + 1 = h + 1 /\ (h + k + 1 = h + 1 <=> k = 0)
        /\ h + k + 1 = (h + k) + 1
    BY <1>0
  <1> DEFINE e == h + k + 1
  <1>5. ctxCheck = IF e = h + 1 THEN Empty ELSE [from |-> h + 1, to |-> e]
    BY <1>4 DEF Covers
  <1> HIDE DEF e
  <1>6. LastHead(Consumed) = h /\ EndOf(h) = e /\ e <= Len(file) /\ ctxTot = e - h - 1
    BY <1>2, <1>3, <1>4 DEF e
  <1> QED
    BY <1>5, <1>6 DEF Matching

\* Nothing is accepted where the input ends in the data.
LEMMA CutMatchesNot ==
  ASSUME file \in Files, NEW h, NEW k, Run(h, k), h + k = Len(file), Consumed = Len(file)
  PROVE  ~Matching
  <1>0. Len(file) \in Nat /\ h \in 1 .. Len(file) /\ k \in Nat
    BY InputLength DEF Run
  <1>1. LastHead(Consumed) = h
    BY <1>0, LastHeadIs DEF Run, Stream!Heads
  <1>2. EndOf(h) = Len(file) + 1
    <2>1. (Len(file) + 1) - 1 = h + k /\ Len(file) + 1 \in h + 1 .. Len(file) + 1
      BY <1>0
    <2> QED
      BY <1>0, <2>1, EndOfIs DEF Run
  <1>3. ~(Len(file) + 1 <= Len(file))
    BY <1>0
  <1> QED
    BY <1>1, <1>2, <1>3 DEF Matching

-------------------------------------------------------------------------------
(* The end of the input. *)

LEMMA EofInit == Init => EofInv
  BY DEF Init, OpenReader, EofInv

LEMMA EofLoad == ASSUME Reading, EofInv, Load PROVE EofInv'
  <1>0. Len(file) \in Nat /\ Buf \in Nat \ {0} /\ file' = file /\ mpc \notin {"close", "done"}
        /\ fdPos \in 0 .. Len(file) /\ inTot \in Nat /\ inLen \in 0 .. Buf
        /\ inEof \in BOOLEAN /\ ~inEof
    BY InputLength, BufAssumption DEF Reading, TypeOK, ReaderTypeOK, Load, given, NeedsUnit
  <1>1. CASE LoadNothing
    BY <1>0, <1>1 DEF LoadNothing, EofInv
  <1>2. CASE LoadDirect
    <2>1. inWhich = -1 /\ fdPos = inTot /\ inWhich' = inWhich /\ inTot' = inTot + Readable
          /\ inShort' = (Readable < Buf) /\ inEof' = (inEof \/ Readable = 0)
      BY <1>0, <1>2 DEF LoadDirect, Loaded, Reading, AheadInv
    <2>2. Readable < Buf => Readable = Len(file) - fdPos
      BY <1>0 DEF Readable
    <2>3. inEof' \/ inShort' => Readable < Buf
      BY <1>0, <2>1
    <2>4. Readable < Buf => inTot' = Len(file)
      BY <1>0, <2>1, <2>2
    <2> QED
      BY <1>0, <2>1, <2>3, <2>4 DEF EofInv
  <1>3. CASE LoadLaunch
    BY <1>0, <1>3 DEF LoadLaunch, EofInv
  <1>4. CASE LoadSwap \/ LoadLast
    <2>1. /\ inWhich # -1 /\ loadState = 0 /\ fdPos = inTot + inLen /\ fdPos' = fdPos
          /\ inTot' = inTot + inLen /\ inLen' = inLen
          /\ inShort' = (inLen < Buf) /\ inEof' = (inEof \/ inLen = 0)
      BY <1>4 DEF LoadSwap, LoadLast, Loaded, Reading, AheadInv
    <2>2. inLen < Buf => fdPos = Len(file)
      BY <2>1 DEF EofInv
    <2>3. inEof' \/ inShort' => inTot' = Len(file)
      BY <1>0, <2>1, <2>2
    <2>4. inLen' < Buf => fdPos' = Len(file')
      BY <1>0, <2>1, <2>2
    <2> QED
      BY <1>0, <2>3, <2>4 DEF EofInv
  <1> QED
    BY <1>1, <1>2, <1>3, <1>4 DEF Load, LoadStep

LEMMA EofStays ==
  ASSUME EofInv, UNCHANGED <<file, fdPos, inEof, inShort, inTot, inWhich, loadState, inLen, loader>>
  PROVE  EofInv'
  BY DEF EofInv

LEMMA EofStep == ASSUME Reading, EofInv, [Next]_vars PROVE EofInv'
  <1>1. CASE Load
    BY <1>1, EofLoad
  <1>2. CASE ReadAhead
    <2>0. Len(file) \in Nat /\ Buf \in Nat \ {0} /\ file' = file /\ fdPos \in 0 .. Len(file)
      BY <1>2, InputLength, BufAssumption DEF Reading, TypeOK, ReaderTypeOK, ReadAhead, given
    <2>1. CASE LoaderRead
      <3>1. Readable < Buf => fdPos + Readable = Len(file)
        BY <2>0 DEF Readable
      <3> QED
        BY <2>0, <2>1, <3>1 DEF LoaderRead, EofInv
    <2>2. CASE LoaderSignal
      BY <2>0, <2>2 DEF LoaderSignal, EofInv
    <2>3. CASE LoaderExit \/ LoaderError
      BY <2>0, <2>3 DEF LoaderExit, LoaderError, EofInv
    <2> QED
      BY <1>2, <2>1, <2>2, <2>3 DEF ReadAhead, Loader
  <1>3. CASE Close
    BY <1>3 DEF Close, CloseRequest, CloseJoin, EofInv, given, readerVars
  <1>4. CASE LoadError \/ StartMember \/ Fetch \/ Inflate \/ EndOfData \/ Corrupted \/ Incomplete
    BY <1>4, EofStays DEF LoadError, StartMember, Fetch, Inflate, EndOfData, Corrupted, Incomplete,
       Restore, given, readerVars
  <1>5. CASE Output \/ OutputError \/ Push \/ Pushed \/ Finish \/ Finished \/ JoinOutput \/ Unwind
    BY <1>5, EofStays DEF Output, OutputError, Push, Pushed, Finish, Finished, JoinOutput, Unwind,
       given, readerVars
  <1>6. ASSUME NEW u, GetHeader(u) \/ VerifySums(u) \/ NextMember(u) PROVE EofInv'
    BY <1>6, EofStays DEF GetHeader, VerifySums, NextMember, ConsumeUnit, given, readerVars
  <1>7. CASE Writer \/ CheckThread \/ UNCHANGED vars
    BY <1>7, EofStays DEF Writer, CheckThread, vars, given, readerVars
  <1> QED
    BY <1>1, <1>2, <1>3, <1>4, <1>5, <1>6, <1>7 DEF Next, Main, Terminated

-------------------------------------------------------------------------------
(* Where infchk is. *)

LEMMA StreamSame ==
  ASSUME file' = file
  PROVE  /\ Stream!After' = Stream!After /\ Stream!Content' = Stream!Content
         /\ Stream!Intact' <=> Stream!Intact
         /\ Stream!ForeignFollows' <=> Stream!ForeignFollows
  BY DEF Stream!After, Stream!Content, Stream!Intact, Stream!ForeignFollows

LEMMA PosTyped ==
  ASSUME Reading
  PROVE  /\ Pos \in 0 .. Len(file) /\ Len(file) \in Nat
         /\ inTot \in Nat /\ inLeft \in Nat /\ zLeft \in Nat
  BY InputLength DEF Reading, TypeOK, ReaderTypeOK, InfchkTypeOK, BufferInv, Pos, Used, Consumed

LEMMA LoadPos == ASSUME Reading, Load PROVE Pos' = Pos
  <1>0. /\ Inflating' = Inflating /\ zLeft' = zLeft /\ inLeft = 0
        /\ inTot \in Nat /\ zLeft \in Nat
    BY PosTyped DEF Load, infchkVars, Inflating
  <1>1. \E n \in Nat : inTot' = inTot + n /\ inLeft' = n
    <2>1. CASE LoadNothing \/ LoadLaunch
      BY <1>0, <2>1 DEF LoadNothing, LoadLaunch
    <2>2. CASE LoadDirect
      <3>1. Readable \in Nat
        BY ReadableBounds, BufAssumption
      <3> QED
        BY <2>2, <3>1 DEF LoadDirect, Loaded
    <2>3. CASE LoadSwap \/ LoadLast
      <3>1. inLen \in Nat
        BY BufAssumption DEF Reading, TypeOK, ReaderTypeOK
      <3> QED
        BY <2>3, <3>1 DEF LoadSwap, LoadLast, Loaded
    <2> QED
      BY <2>1, <2>2, <2>3 DEF Load, LoadStep
  <1>2. PICK n \in Nat : inTot' = inTot + n /\ inLeft' = n
    BY <1>1
  <1> QED
    BY <1>0, <1>2 DEF Pos, Used, Consumed

\* The next unit is the one behind what was used, and there is none at the end only.
LEMMA NextIs ==
  ASSUME Reading, EofInv, NEW u, NextUnit(u), ConsumeUnit, ~Inflating, ~Inflating'
  PROVE  \/ Pos + 1 <= Len(file) /\ u = file[Pos + 1] /\ Pos' = Pos + 1
         \/ Pos = Len(file) /\ u = "none" /\ Pos' = Pos
  <1>0. Pos = inTot - inLeft /\ Pos' = inTot' - inLeft' /\ inTot' = inTot
        /\ Pos \in 0 .. Len(file) /\ Len(file) \in Nat /\ inTot \in 0 .. Len(file) /\ inLeft \in Nat
    BY PosTyped DEF Pos, Consumed, ConsumeUnit, Reading, TypeOK, ReaderTypeOK
  <1>1. CASE inLeft > 0
    <2>1. PositionOf(inNext) = inTot - inLeft + 1 /\ inLeft' = inLeft - 1 /\ u = UnitAt(inNext)
      BY <1>1 DEF Reading, BufferInv, Holds, ConsumeUnit, Get, NextUnit
    <2>2. PositionOf(inNext) = Pos + 1 /\ Pos + 1 \in 1 .. Len(file) /\ Pos' = Pos + 1
      BY <1>0, <1>1, <2>1
    <2> QED
      BY <2>1, <2>2 DEF UnitAt
  <1>2. CASE inLeft = 0
    BY <1>0, <1>2 DEF EofInv, NextUnit, ConsumeUnit
  <1> QED
    BY <1>0, <1>1, <1>2

\* So is what inflate gets.
LEMMA InflateIs ==
  ASSUME Reading, mpc = "inflate", zLeft > 0
  PROVE  /\ inLeft = 0 /\ Pos = inTot - zLeft /\ Pos + 1 \in 1 .. Len(file)
         /\ PositionOf(zNext) = Pos + 1 /\ UnitAt(zNext) = file[Pos + 1]
  <1>1. inLeft = 0 /\ PositionOf(zNext) = inTot - zLeft + 1 /\ zLeft <= inTot
    BY DEF Reading, BufferInv, Inflating, Holds
  <1>2. Pos = inTot - zLeft /\ inTot \in 0 .. Len(file) /\ zLeft \in Nat /\ Len(file) \in Nat
    BY <1>1, PosTyped DEF Pos, Used, Inflating, Reading, TypeOK, ReaderTypeOK
  <1>3. PositionOf(zNext) = Pos + 1 /\ Pos + 1 \in 1 .. Len(file)
    BY <1>1, <1>2
  <1> QED
    BY <1>1, <1>2, <1>3 DEF UnitAt

-------------------------------------------------------------------------------
(* What has been written. *)

LEMMA ContentNat == \A n \in Stream!Content : n \in Nat /\ n \in 1 .. Len(file) /\ file[n] = "data"
  BY DEF Stream!Content

LEMMA MissingSame ==
  ASSUME file' = file, sink' = sink
  PROVE  Stream!Missing' = Stream!Missing /\ \A w : Wrote(w)' <=> Wrote(w)
  BY StreamSame DEF Stream!Missing, Wrote

\* The sink and the block that waits to be written stay, and what infchk has handed over
\* differs by nothing that is to be restored.
LEMMA SinkMoves ==
  ASSUME Reading, SinkInv,
         UNCHANGED <<file, mode, outCopy, sink>>, ToWrite' = ToWrite,
         \/ mpc' \in {"unwind", "close", "done"}
         \/ /\ mpc \notin {"unwind", "close", "done"}
            /\ HandedOver \in Int /\ HandedOver' \in Int
            /\ \A n \in Stream!Content : n <= HandedOver <=> n <= HandedOver'
  PROVE  SinkInv'
  <1>1. Testing' = Testing /\ ToWrite' = ToWrite /\ Stream!Content' = Stream!Content
        /\ \A w : Wrote(w)' <=> Wrote(w)
    BY StreamSame, MissingSame DEF Testing
  <1> SUFFICES ASSUME ~Testing PROVE SinkInv'
    BY <1>1 DEF SinkInv
  <1>2. (ToWrite = 1 => outCopy \in Stream!Content /\ Wrote(outCopy - 1))'
    <2>1. ToWrite = 1 => outCopy \in Stream!Content /\ Wrote(outCopy - 1)
      BY DEF SinkInv
    <2> QED
      BY <1>1, <2>1 DEF Wrote
  <1>3. CASE mpc' \in {"unwind", "close", "done"}
    BY <1>1, <1>2, <1>3 DEF SinkInv
  <1>4. CASE mpc \notin {"unwind", "close", "done"} /\ mpc' \notin {"unwind", "close", "done"}
    <2> DEFINE o == HandedOver
               p == HandedOver'
    <2>0. o \in Int /\ p \in Int /\ (\A n \in Stream!Content : n <= o <=> n <= p)
          /\ \A n \in Stream!Content : n \in Nat
      BY <1>4, ContentNat
    <2>1. CASE ToWrite = 1
      <3>1. outCopy \in Stream!Content /\ outCopy <= o /\ \A n \in Stream!Content : n <= outCopy \/ n > o
        BY <1>4, <2>1 DEF SinkInv
      <3> HIDE DEF o, p
      <3>2. outCopy <= p /\ \A n \in Stream!Content : n <= outCopy \/ n > p
        BY <2>0, <3>1
      <3> QED
        BY <1>1, <1>2, <2>1, <3>2 DEF SinkInv, p
    <2>2. CASE ToWrite # 1
      <3>1. Wrote(o)
        BY <1>4, <2>2 DEF SinkInv
      <3> HIDE DEF o, p
      <3>2. Wrote(p)
        BY <2>0, <3>1 DEF Wrote
      <3>3. Stream!Missing' = Stream!Missing
        BY MissingSame
      <3>4. Wrote(HandedOver)'
        BY <1>1, <3>2, <3>3 DEF Wrote, p
      <3> QED
        BY <1>1, <1>2, <2>2, <3>4 DEF SinkInv
    <2> QED
      BY <2>1, <2>2
  <1> QED
    BY <1>3, <1>4

\* A block is written that is the first one missing.
LEMMA WroteMore ==
  ASSUME NEW n \in Stream!Content, Wrote(n - 1), sink \in Seq(Nat), file' = file,
         sink' = Append(sink, n)
  PROVE  Wrote(n)' /\ n \in Stream!Missing /\ \A m \in Stream!Missing : n <= m
  <1>1. \A m \in Stream!Content : m \in Nat
    BY ContentNat
  <1>2. \A m \in Stream!Content : m \notin Stream!Missing <=> m <= n - 1
    BY DEF Wrote
  <1>3. Stream!Missing \subseteq Stream!Content
    BY DEF Stream!Missing
  <1>4. n \in Stream!Missing /\ \A m \in Stream!Missing : n <= m
    BY <1>1, <1>2, <1>3
  <1>5. \A m \in Stream!Content : m \in Stream!Missing' <=> m \in Stream!Missing /\ m # n
    <2>1. /\ Len(sink) \in Nat /\ Len(sink') = Len(sink) + 1 /\ sink'[Len(sink) + 1] = n
          /\ \A i \in 1 .. Len(sink) : sink'[i] = sink[i]
      OBVIOUS
    <2>2. ASSUME NEW m
          PROVE  (\A i \in 1 .. Len(sink') : sink'[i] # m) <=> (\A i \in 1 .. Len(sink) : sink[i] # m) /\ m # n
      <3>1. 1 .. Len(sink') = 1 .. Len(sink) \cup {Len(sink) + 1}
        BY <2>1
      <3> QED
        BY <2>1, <3>1
    <2>3. Stream!Content' = Stream!Content
      BY StreamSame
    <2> QED
      BY <2>2, <2>3 DEF Stream!Missing
  <1>6. \A m \in Stream!Content : m \notin Stream!Missing' <=> m <= n
    BY <1>1, <1>2, <1>5
  <1>7. Stream!Content' = Stream!Content
    BY StreamSame
  <1> QED
    BY <1>4, <1>6, <1>7 DEF Wrote

\* All that is to be restored has been written.
LEMMA NoneMissing ==
  ASSUME NEW n, Testing \/ Wrote(n), \A i \in Stream!Content : i <= n
  PROVE  Testing \/ Stream!Missing = {}
  BY DEF Wrote, Stream!Missing

-------------------------------------------------------------------------------
(* The steps of infchk. *)

LEMMA MemberStays ==
  ASSUME NEW h, NEW k, InMember(h, k),
         UNCHANGED <<file, procs, mode, hdr, form, outTot, outCopy, mpc, ctxCheck, ctxTot>>,
         Pos' = Pos
  PROVE  InMember(h, k)'
  <1>1. Stream!After' = Stream!After /\ Stream!Content' = Stream!Content
    BY StreamSame
  <1>2. Run(h, k)' /\ Within(h + k)' /\ (k > 0 => h + k \in Stream!Content)'
    BY <1>1 DEF InMember, Run, Within, Reads
  <1>3. Total' = Total /\ Pushing' = Pushing /\ Inflating' = Inflating
    BY DEF Total, Pushing, Parallel, Inflating
  <1> QED
    BY <1>2, <1>3 DEF InMember, Covers

LEMMA GrammarStays ==
  ASSUME Grammar, UNCHANGED <<file, procs, mode, hdr, form, outTot, outCopy, mpc, ctxCheck, ctxTot>>,
         Pos' = Pos
  PROVE  Grammar'
  <1>1. Stream!After' = Stream!After
    BY StreamSame
  <1>2. \A n : (Reads(n)' <=> Reads(n)) /\ (Within(n)' <=> Within(n))
    BY <1>1 DEF Reads, Within
  <1>3. Inflating \/ mpc \in Ending => \E h, k \in 0 .. Len(file) : InMember(h, k)'
    BY MemberStays DEF Grammar
  <1> QED
    BY <1>1, <1>2, <1>3 DEF Grammar, Inflating

\* The steps that leave infchk where it is.
LEMMA QuietStep ==
  ASSUME Reading, Grammar, Verdicts, SinkInv, Pos' = Pos,
         UNCHANGED <<file, procs, mode, hdr, form, outTot, outCopy, outLen, writeState, writer,
                     sink, mpc, thrown, failed, ctxCheck, ctxTot>>
  PROVE  Grammar' /\ Verdicts' /\ SinkInv'
  <1>1. Grammar'
    BY GrammarStays
  <1>2. Verdicts'
    BY StreamSame, MissingSame DEF Verdicts, Testing
  <1>3. SinkInv'
    BY PosTyped, SinkMoves DEF HandedOver, ToWrite
  <1> QED
    BY <1>1, <1>2, <1>3

\* The steps that throw.
LEMMA ThrowStep ==
  ASSUME Reading, SinkInv, mpc' = "unwind", thrown' = TRUE, ~Stream!Intact \/ failed',
         UNCHANGED <<file, mode, outCopy, outLen, writeState, writer, sink>>
  PROVE  Grammar' /\ Verdicts' /\ SinkInv'
  <1>1. Grammar'
    BY DEF Grammar, Inflating, Ending
  <1>2. Verdicts'
    BY StreamSame DEF Verdicts
  <1>3. SinkInv'
    BY SinkMoves DEF ToWrite
  <1> QED
    BY <1>1, <1>2, <1>3

LEMMA HeaderStep ==
  ASSUME Reading, OutputInv, ContentInv, NEW u, GetHeader(u)
  PROVE  Grammar' /\ Verdicts' /\ SinkInv'
  <1>0. /\ mpc = "header" /\ Pos = 0 /\ ~Inflating /\ mpc' \in {"start", "unwind"} /\ ~Inflating'
        /\ UNCHANGED <<file, mode, outCopy, outLen, writeState, writer, sink>>
    BY DEF GetHeader, Throw, ContentInv, Grammar, Inflating, given, outputVars
  <1>1. \/ 1 <= Len(file) /\ u = file[1] /\ Pos' = 1
        \/ Len(file) = 0 /\ u = "none" /\ Pos' = 0
    BY <1>0, NextIs DEF GetHeader, ContentInv
  <1>2. Len(file) \in Nat /\ file \in Files
    BY PosTyped DEF Reading
  <1>3. 1 <= Len(file) => Stream!After[1] = Takes(Opening, file[1])
    <2>1. 1 <= Len(file) => 1 \in 1 .. Len(file) /\ 1 - 1 = 0
      BY <1>2
    <2> QED
      BY <2>1, <1>2, AfterReads
  <1>4. CASE u \in Stream!Heads
    <2>1. /\ mpc' = "start" /\ hdr' = u /\ form' = Format(u) /\ thrown' = thrown
          /\ 1 \in 1 .. Len(file) /\ u = file[1] /\ Pos' = 1
      BY <1>0, <1>1, <1>2, <1>4 DEF GetHeader, Stream!Heads
    <2>2. Stream!After[1].at = "data" /\ Stream!After[1].form = u
      BY <1>3, <1>4, <2>1, <1>2 DEF Takes, Opening, Stream!Follows
    <2>3. Within(1)'
      BY <1>0, <1>4, <2>1, <2>2, StreamSame DEF Within, Reads
    <2>4. Grammar'
      BY <1>0, <1>4, <2>1, <2>3 DEF Grammar, Inflating, Ending
    <2>5. Verdicts'
      BY <1>0, <2>1 DEF ContentInv, Verdicts
    <2>6. SinkInv'
      <3>1. HandedOver = 0 /\ HandedOver' = 1
        BY <1>0, <2>1 DEF HandedOver
      <3>2. \A n \in Stream!Content : n \in Nat /\ n # 0 /\ n # 1
        BY <1>4, <2>1, ContentNat DEF Stream!Heads
      <3> QED
        BY <1>0, <3>1, <3>2, SinkMoves DEF ContentInv, ToWrite
    <2> QED
      BY <2>4, <2>5, <2>6
  <1>5. CASE u \notin Stream!Heads
    <2>1. ~Stream!Intact
      <3>1. CASE 1 <= Len(file) /\ u = file[1]
        <4>1. Stream!After[1].at = "broken"
          BY <1>3, <1>5, <3>1 DEF Takes, Opening, Stream!Follows
        <4> QED
          BY <1>2, <3>1, <4>1, NeverIntact
      <3>2. CASE Len(file) = 0
        BY <1>2, <3>2, AfterReads DEF Opening, Stream!Intact
      <3> QED
        BY <1>1, <3>1, <3>2
    <2>2. mpc' = "unwind" /\ thrown' = TRUE
      BY <1>5 DEF GetHeader, Throw
    <2> QED
      BY <1>0, <2>1, <2>2, ThrowStep DEF ContentInv
  <1> QED
    BY <1>4, <1>5

LEMMA StartStep ==
  ASSUME Reading, OutputInv, ContentInv, StartMember
  PROVE  Grammar' /\ Verdicts' /\ SinkInv'
  <1>0. /\ mpc = "start" /\ mpc' = "inflate" /\ ctxCheck' = Empty /\ ctxTot' = 0 /\ zLeft' = 0
        /\ UNCHANGED <<file, procs, mode, hdr, form, thrown, inTot, inLeft, sink>>
        /\ Parallel => outTot' = 0 /\ writeState' = 0
        /\ ~Parallel => UNCHANGED outputVars
    BY DEF StartMember, At, given, readerVars, Start, outputVars
  <1>1. Parallel' = Parallel /\ Testing' = Testing /\ Pos' = Pos /\ Pos \in 0 .. Len(file)
        /\ Len(file) \in Nat /\ inTot \in Nat /\ inLeft \in Nat
    BY <1>0, PosTyped DEF Parallel, Testing, Pos, Used, Consumed, Inflating
  <1>2. Pos \in 1 .. Len(file) /\ file[Pos] \in Stream!Heads /\ Within(Pos)
    BY <1>0 DEF ContentInv, Grammar
  <1>3. PICK h \in 0 .. Len(file) : h = Pos
    BY <1>1
  <1>4. InMember(h, 0)'
    <2>1. Pos' = h /\ h \in 1 .. Len(file) /\ file[h] \in Stream!Heads /\ Within(h) /\ h + 0 = h
      BY <1>1, <1>2, <1>3
    <2>2. Run(h, 0)' /\ Within(h + 0)'
      BY <1>0, <2>1, StreamSame DEF Run, Within, Reads, Stream!Heads
    <2>3. Total' = 0 /\ Inflating' /\ mpc' \notin {"output", "push", "sums"} /\ (Pushing' => outTot' = 0)
      BY <1>0, <1>1 DEF Total, Pushing, Inflating
    <2> QED
      BY <2>1, <2>2, <2>3 DEF InMember
  <1>5. Grammar'
    BY <1>0, <1>1, <1>3, <1>4 DEF Grammar, Inflating, Ending
  <1>6. Verdicts'
    BY <1>0 DEF ContentInv, Verdicts
  <1>7. SinkInv'
    <2>1. ToWrite = 0 /\ ToWrite' = 0
      BY <1>0, <1>1 DEF ToWrite, OutputInv, Turns, outputVars
    <2>2. HandedOver' = HandedOver
      BY <1>0, <1>1 DEF HandedOver
    <2>3. Testing \/ Wrote(HandedOver)
      BY <1>0, <2>1 DEF ContentInv, SinkInv
    <2>4. Testing' \/ Wrote(HandedOver)'
      <3>1. Stream!Content' = Stream!Content /\ Stream!Missing' = Stream!Missing
        BY <1>0, StreamSame, MissingSame
      <3> QED
        BY <1>1, <2>2, <2>3, <3>1 DEF Wrote
    <2> QED
      BY <2>1, <2>4 DEF SinkInv
  <1> QED
    BY <1>5, <1>6, <1>7

\* What infchk and the reader of the format make of data.
LEMMA WithinMore ==
  ASSUME file \in Files, NEW n \in 0 .. Len(file), n + 1 <= Len(file), Within(n), file[n + 1] = "data"
  PROVE  Within(n + 1) /\ n + 1 \in Stream!Content
  <1>1. n + 1 \in 1 .. Len(file) /\ (n + 1) - 1 = n
    BY InputLength
  <1>2. Stream!After[n + 1] = Takes(Stream!After[n], "data")
    BY <1>1, AfterReads
  <1>3. Stream!After[n].at = "data" /\ "data" \notin Stream!Heads
    BY DEF Within, Stream!Heads
  <1>4. Stream!After[n + 1].at = Stream!After[n].at /\ Stream!After[n + 1].form = Stream!After[n].form
    BY <1>2, <1>3 DEF Takes, Stream!Follows
  <1> QED
    BY <1>1, <1>3, <1>4 DEF Within, Reads, Stream!Content

LEMMA InflateStep ==
  ASSUME Reading, OutputInv, ContentInv, Inflate
  PROVE  Grammar' /\ Verdicts' /\ SinkInv'
  <1>0. /\ mpc = "inflate" /\ mpc' = (IF Parallel THEN "push" ELSE "output") /\ zLeft > 0
        /\ UnitAt(zNext) = "data" /\ zLeft' = zLeft - 1
        /\ UNCHANGED <<file, procs, mode, hdr, form, thrown, inTot, inLeft, outCopy, outLen, outTot,
                       writeState, writer, sink, ctxCheck, ctxTot>>
    BY DEF Inflate, given, readerVars, outputVars
  <1>1. /\ Pos = inTot - zLeft /\ inLeft = 0 /\ Pos + 1 \in 1 .. Len(file) /\ file[Pos + 1] = "data"
        /\ Pos \in 0 .. Len(file) /\ Len(file) \in Nat /\ inTot \in Nat /\ zLeft \in Nat
    BY <1>0, InflateIs, PosTyped
  <1>2. Inflating /\ Inflating' /\ Pos' = Pos + 1
    BY <1>0, <1>1 DEF Inflating, Pos, Used
  <1>3. PICK h, k \in 0 .. Len(file) : InMember(h, k)
    BY <1>2 DEF ContentInv, Grammar
  <1>4. Pos = h + k /\ Run(h, k) /\ Within(h + k) /\ k = Total /\ (Pushing /\ outTot > 0 => outCopy = h + outTot)
    BY <1>0, <1>2, <1>3 DEF InMember
  <1>5. Within(h + k + 1) /\ h + k + 1 \in Stream!Content
    BY <1>1, <1>4, WithinMore DEF Reading
  <1>6. InMember(h, k + 1)'
    <2>0. h + (k + 1) = h + k + 1 /\ h \in Nat /\ k \in Nat
      BY <1>3
    <2>1. Run(h, k + 1)'
      <3>1. \A i \in h + 1 .. h + (k + 1) : i \in h + 1 .. h + k \/ i = h + k + 1
        BY <2>0
      <3> QED
        BY <1>0, <1>1, <1>4, <2>0, <3>1 DEF Run, Stream!Heads
    <2>2. Within(h + (k + 1))' /\ (h + (k + 1) \in Stream!Content)'
      BY <1>0, <1>5, <2>0, StreamSame DEF Within, Reads
    <2>3. Parallel' = Parallel /\ Pushing' = Pushing /\ Total' = Total
      BY <1>0 DEF Parallel, Pushing, Total
    <2>4. mpc' \in {"output", "push"} /\ mpc' # "sums" /\ Pos' = h + (k + 1)
      BY <1>0, <1>2, <1>4, <2>0
    <2> QED
      BY <1>0, <1>2, <1>4, <2>1, <2>2, <2>3, <2>4 DEF InMember
  <1>7. k + 1 \in 0 .. Len(file)
    BY <1>1, <1>3, <1>4 DEF Run
  <1>8. Grammar'
    BY <1>0, <1>2, <1>3, <1>6, <1>7 DEF Grammar, Inflating, Ending
  <1>9. Verdicts'
    BY <1>0 DEF ContentInv, Verdicts
  <1>10. SinkInv'
    <2>1. HandedOver' = HandedOver /\ HandedOver \in Int
      BY <1>0, <1>1, <1>2 DEF HandedOver
    <2> QED
      BY <1>0, <2>1, SinkMoves DEF ContentInv, ToWrite
  <1> QED
    BY <1>8, <1>9, <1>10

\* What a member is does not depend on where infchk is in it.
LEMMA MemberPart ==
  ASSUME NEW h, NEW k, InMember(h, k), UNCHANGED <<file, hdr, form>>
  PROVE  Run(h, k)' /\ Within(h + k)' /\ (k > 0 => h + k \in Stream!Content)'
  BY StreamSame DEF InMember, Run, Within, Reads

LEMMA WithinPos ==
  ASSUME Grammar, Inflating
  PROVE  Within(Pos) /\ Stream!After[Pos].at = "data"
  <1>1. PICK h, k \in 0 .. Len(file) : InMember(h, k)
    BY DEF Grammar
  <1>2. Pos = h + k /\ Within(h + k)
    BY <1>1 DEF InMember
  <1> QED
    BY <1>2 DEF Within

\* The data end, or the input does.
LEMMA DataEnd ==
  ASSUME Reading, OutputInv, ContentInv, mpc = "inflate", mpc' = AfterData,
         UNCHANGED <<file, procs, mode, hdr, form, thrown, outCopy, outLen, outTot, writeState,
                     writer, sink, ctxCheck, ctxTot>>,
         \/ Pos + 1 <= Len(file) /\ file[Pos + 1] = "end" /\ Pos' = Pos + 1
         \/ Pos = Len(file) /\ Pos' = Pos
  PROVE  Grammar' /\ Verdicts' /\ SinkInv'
  <1>0. /\ mpc' \in {"finish", "sums"} /\ (mpc' = "sums" <=> ~Parallel) /\ Inflating /\ ~Inflating'
        /\ Parallel' = Parallel /\ Pushing' = Pushing /\ Total' = Total
        /\ Pos \in 0 .. Len(file) /\ Len(file) \in Nat
    BY PosTyped DEF AfterData, Parallel, Pushing, Total, Inflating
  <1>1. PICK h, k \in 0 .. Len(file) : InMember(h, k)
    BY <1>0 DEF ContentInv, Grammar
  <1>2. Pos = h + k /\ k = Total /\ (Pushing /\ outTot > 0 => outCopy = h + outTot)
    BY <1>0, <1>1 DEF InMember
  <1>3. mpc' = "sums" => Covers(ctxCheck, ctxTot, h + ctxTot)
    <2>1. ~Parallel => Covers(ctxCheck, ctxTot, Used) /\ Used = Pos /\ Total = ctxTot
      BY <1>0 DEF OutputInv, DirectInv, Pos, Total, Pushing
    <2> QED
      BY <1>0, <1>2, <2>1
  <1>4. Run(h, k)' /\ Within(h + k)' /\ (k > 0 => h + k \in Stream!Content)'
    BY <1>1, MemberPart
  <1>5. \/ Pos' = h + k /\ Pos' = Len(file')
        \/ Pos' = h + k + 1 /\ Pos' <= Len(file') /\ file'[Pos'] = "end"
    BY <1>0, <1>2
  <1>6. InMember(h, k)'
    BY <1>0, <1>2, <1>3, <1>4, <1>5 DEF InMember, Covers
  <1>7. Grammar'
    BY <1>0, <1>1, <1>6 DEF Grammar, Inflating, Ending
  <1>8. Verdicts'
    BY <1>0 DEF ContentInv, Verdicts
  <1>9. SinkInv'
    <2>1. HandedOver = Pos /\ HandedOver' = Pos'
      BY <1>0 DEF HandedOver
    <2>2. \A n \in Stream!Content : n <= Pos <=> n <= Pos'
      <3>1. \A n \in Stream!Content : n \in Nat /\ file[n] = "data"
        BY ContentNat
      <3>2. CASE file[Pos + 1] = "end" /\ Pos' = Pos + 1
        <4>1. \A n \in Stream!Content : n # Pos + 1
          BY <3>1, <3>2
        <4> QED
          BY <1>0, <3>1, <3>2, <4>1
      <3> QED
        BY <3>2
    <2> QED
      BY <1>0, <2>1, <2>2, SinkMoves DEF ContentInv, ToWrite
  <1> QED
    BY <1>7, <1>8, <1>9

LEMMA EndStep ==
  ASSUME Reading, OutputInv, ContentInv, EndOfData
  PROVE  Grammar' /\ Verdicts' /\ SinkInv'
  <1>1. /\ mpc = "inflate" /\ mpc' = AfterData /\ zLeft > 0 /\ UnitAt(zNext) = "end"
        /\ inLeft' = zLeft - 1 /\ inTot' = inTot
        /\ UNCHANGED <<file, procs, mode, hdr, form, thrown, outCopy, outLen, outTot, writeState,
                       writer, sink, ctxCheck, ctxTot>>
    BY DEF EndOfData, Restore, given, outputVars
  <1>2. Pos = inTot - zLeft /\ Pos + 1 <= Len(file) /\ file[Pos + 1] = "end"
    BY <1>1, InflateIs
  <1>3. Pos' = Pos + 1
    <2>1. ~Inflating'
      BY <1>1 DEF AfterData, Inflating
    <2> QED
      BY <1>1, <1>2, <2>1, PosTyped DEF Pos, Consumed
  <1> QED
    BY <1>1, <1>2, <1>3, DataEnd

LEMMA CorruptedStep ==
  ASSUME Reading, OutputInv, ContentInv, Corrupted
  PROVE  Grammar' /\ Verdicts' /\ SinkInv'
  <1>1. /\ mpc = "inflate" /\ mpc' = "unwind" /\ thrown' = TRUE /\ zLeft > 0
        /\ UnitAt(zNext) \notin {"data", "end"}
        /\ UNCHANGED <<file, mode, outCopy, outLen, writeState, writer, sink>>
    BY DEF Corrupted, Throw, given, outputVars
  <1>2. Pos + 1 \in 1 .. Len(file) /\ file[Pos + 1] \notin {"data", "end"} /\ (Pos + 1) - 1 = Pos
    BY <1>1, InflateIs, PosTyped
  <1>3. Stream!After[Pos].at = "data"
    BY <1>1, WithinPos DEF ContentInv, Inflating
  <1>4. Stream!After[Pos + 1] = Takes(Stream!After[Pos], file[Pos + 1])
    BY <1>2, AfterReads DEF Reading
  <1>5. Stream!After[Pos + 1].at = "broken"
    BY <1>2, <1>3, <1>4 DEF Takes, Stream!Follows
  <1>6. ~Stream!Intact
    <2>1. Pos + 1 \in 0 .. Len(file)
      BY <1>2
    <2> QED
      BY <1>5, <2>1, NeverIntact DEF Reading
  <1> QED
    BY <1>1, <1>6, ThrowStep DEF ContentInv

LEMMA IncompleteStep ==
  ASSUME Reading, OutputInv, ContentInv, Incomplete
  PROVE  Grammar' /\ Verdicts' /\ SinkInv'
  <1>1. /\ mpc = "inflate" /\ zLeft = 0 /\ inLeft = 0 /\ (inEof \/ Consumed = Len(file))
        /\ inLeft' = 0 /\ inTot' = inTot /\ zLeft' = 0
        /\ UNCHANGED <<file, procs, mode, hdr, form, outCopy, outLen, outTot, writeState,
                       writer, sink, ctxCheck, ctxTot>>
        /\ \/ mpc' = AfterData /\ UNCHANGED thrown
           \/ mpc' = "unwind" /\ thrown' = TRUE
    BY DEF Incomplete, Restore, Throw, given, outputVars
  <1>2. Pos = Len(file) /\ Pos' = Pos
    BY <1>1, PosTyped DEF Pos, Used, Consumed, Inflating, AfterData, ContentInv, EofInv
  <1>3. CASE mpc' = AfterData /\ UNCHANGED thrown
    BY <1>1, <1>2, <1>3, DataEnd
  <1>4. CASE mpc' = "unwind" /\ thrown' = TRUE
    <2>1. ~Stream!Intact
      BY <1>1, <1>2, WithinPos DEF ContentInv, Inflating, Stream!Intact
    <2> QED
      BY <1>1, <1>4, <2>1, ThrowStep DEF ContentInv
  <1> QED
    BY <1>1, <1>3, <1>4

-------------------------------------------------------------------------------
(* What is restored on its way to the sink. *)

LEMMA DirectStep ==
  ASSUME Reading, OutputInv, ContentInv, Output
  PROVE  /\ Grammar' /\ Verdicts' /\ SinkInv'
         /\ ~Testing => /\ block \in Stream!Missing /\ \A m \in Stream!Missing : block <= m
                        /\ sink' = Append(sink, block)
  <1>0. /\ mpc = "output" /\ mpc' = "inflate" /\ ~Parallel /\ block = Used
        /\ ctxTot' = ctxTot + 1 /\ sink' = IF Testing THEN sink ELSE Append(sink, block)
        /\ UNCHANGED <<file, procs, mode, hdr, form, thrown, inTot, inLeft, zLeft, outCopy, outLen,
                       outTot, writeState, writer>>
        /\ ctxTot \in Nat /\ sink \in Seq(Nat)
    BY DEF Output, At, OutputInv, DirectInv, Reading, TypeOK, InfchkTypeOK, OutputTypeOK, given,
       readerVars
  <1>1. Parallel' = Parallel /\ Testing' = Testing /\ Inflating /\ Inflating' /\ Pos' = Pos
        /\ block = Pos /\ Pos \in Nat /\ ~Pushing /\ ~Pushing'
    BY <1>0, PosTyped DEF Parallel, Testing, Inflating, Pos, Used, Pushing
  <1>2. PICK h, k \in 0 .. Len(file) : InMember(h, k)
    BY <1>1 DEF ContentInv, Grammar
  <1>3. Pos = h + k /\ k = ctxTot + 1 /\ Pos \in Stream!Content
    BY <1>0, <1>1, <1>2 DEF InMember, Total
  <1>4. Grammar'
    <2>1. Run(h, k)' /\ Within(h + k)' /\ (k > 0 => h + k \in Stream!Content)'
      BY <1>0, <1>2, MemberPart
    <2>2. InMember(h, k)'
      BY <1>0, <1>1, <1>3, <2>1 DEF InMember, Total
    <2> QED
      BY <1>0, <1>1, <1>2, <2>2 DEF Grammar, Ending
  <1>5. Verdicts'
    BY <1>0 DEF ContentInv, Verdicts
  <1>6. CASE Testing
    BY <1>1, <1>4, <1>5, <1>6 DEF SinkInv
  <1>7. CASE ~Testing
    <2>1. ToWrite = 0 /\ ToWrite' = 0
      BY <1>0 DEF ToWrite, OutputInv, Turns
    <2>2. Wrote(Pos - 1)
      BY <1>0, <1>7, <2>1 DEF ContentInv, SinkInv, HandedOver
    <2>3. PICK n \in Stream!Content : n = Pos
      BY <1>3
    <2>4. Wrote(n)' /\ n \in Stream!Missing /\ \A m \in Stream!Missing : n <= m
      BY <1>0, <1>1, <1>7, <2>2, <2>3, WroteMore
    <2>5. SinkInv'
      BY <1>0, <1>1, <2>1, <2>3, <2>4 DEF SinkInv, HandedOver, Wrote
    <2> QED
      BY <1>0, <1>1, <1>4, <1>5, <1>7, <2>3, <2>4, <2>5
  <1> QED
    BY <1>6, <1>7

LEMMA PushStep ==
  ASSUME Reading, OutputInv, ContentInv, Push
  PROVE  Grammar' /\ Verdicts' /\ SinkInv'
  <1>0. /\ mpc = "push" /\ mpc' = "pushed" /\ block = Used /\ Parallel
        /\ outTot' = outTot + 1 /\ outCopy' = block /\ outLen' = 1 /\ writeState' = 1
        /\ writeState = 0 /\ writer = "idle" /\ outTot \in Nat
        /\ UNCHANGED <<file, procs, mode, hdr, form, thrown, inTot, inLeft, zLeft, writer, sink>>
    <2>1. mpc = "push" /\ writeState = 0
      BY DEF Push, At, PushCopy, PushWait
    <2>2. Parallel /\ block = Used
      BY <2>1 DEF OutputInv, HandOver
    <2>3. writer = "idle"
      BY <2>1, <2>2 DEF OutputInv, Turns, Pushing
    <2> QED
      BY <2>1, <2>2, <2>3 DEF Push, At, PushCopy, Reading, TypeOK, OutputTypeOK, given, readerVars
  <1>1. Parallel' = Parallel /\ Testing' = Testing /\ Inflating /\ Inflating' /\ Pos' = Pos
        /\ block = Pos /\ Pos \in Nat /\ Pushing /\ Pushing'
    BY <1>0, PosTyped DEF Parallel, Testing, Inflating, Pos, Used, Pushing
  <1>2. PICK h, k \in 0 .. Len(file) : InMember(h, k)
    BY <1>1 DEF ContentInv, Grammar
  <1>3. Pos = h + k /\ k = outTot + 1 /\ Pos \in Stream!Content
    BY <1>0, <1>1, <1>2 DEF InMember, Total
  <1>4. Grammar'
    <2>1. Run(h, k)' /\ Within(h + k)' /\ (k > 0 => h + k \in Stream!Content)'
      BY <1>0, <1>2, MemberPart
    <2>2. InMember(h, k)'
      BY <1>0, <1>1, <1>3, <2>1 DEF InMember, Total
    <2> QED
      BY <1>0, <1>1, <1>2, <2>2 DEF Grammar, Ending
  <1>5. Verdicts'
    BY <1>0 DEF ContentInv, Verdicts
  <1>6. SinkInv'
    <2> SUFFICES ASSUME ~Testing PROVE SinkInv'
      BY <1>1 DEF SinkInv
    <2>1. ToWrite = 0 /\ ToWrite' = 1
      BY <1>0 DEF ToWrite
    <2>2. Wrote(Pos - 1)
      BY <1>0, <2>1 DEF ContentInv, SinkInv, HandedOver
    <2>3. Stream!Content' = Stream!Content /\ Wrote(Pos - 1)' /\ \A n \in Stream!Content : n \in Nat
      BY <1>0, <1>1, <2>2, StreamSame, MissingSame, ContentNat DEF Wrote
    <2>4. outCopy' = Pos /\ HandedOver' = Pos
      BY <1>0, <1>1 DEF HandedOver
    <2>5. Wrote(outCopy - 1)'
      BY <1>1, <2>3, <2>4 DEF Wrote
    <2>6. \A n \in Stream!Content : n <= Pos \/ n > Pos
      BY <1>1, <2>3
    <2> QED
      BY <1>0, <1>1, <1>3, <2>1, <2>3, <2>4, <2>5, <2>6 DEF SinkInv
  <1> QED
    BY <1>4, <1>5, <1>6

\* The steps of push() and finish() that put nothing into the buffer.
LEMMA HandStep ==
  ASSUME Reading, OutputInv, ContentInv, Pushed \/ Finish \/ Finished
  PROVE  Grammar' /\ Verdicts' /\ SinkInv'
  <1>0. /\ \/ mpc = "pushed" /\ mpc' = "inflate"
           \/ mpc \in {"finish", "finished"} /\ mpc' \in {"finished", "join"}
        /\ UNCHANGED <<file, procs, mode, hdr, form, thrown, inTot, inLeft, zLeft, outCopy, outTot,
                       writer, sink, ctxCheck, ctxTot>>
        /\ \/ UNCHANGED <<outLen, writeState>>
           \/ writeState = 0 /\ outLen' = 0
    BY DEF Pushed, Finish, Finished, At, PushCheck, PushEnd, PushWait, given, readerVars
  <1>1. Parallel' = Parallel /\ Inflating' = Inflating /\ Pos' = Pos /\ Pushing' = Pushing
        /\ Total' = Total /\ (Inflating <=> mpc = "pushed") /\ Pos \in Int
        /\ ToWrite' = ToWrite
    BY <1>0, PosTyped DEF Parallel, Inflating, Pos, Used, Consumed, Pushing, Total, ToWrite
  <1>2. PICK h, k \in 0 .. Len(file) : InMember(h, k)
    BY <1>0, <1>1 DEF ContentInv, Grammar, Ending
  <1>3. InMember(h, k)'
    <2>1. Run(h, k)' /\ Within(h + k)' /\ (k > 0 => h + k \in Stream!Content)'
      BY <1>0, <1>2, MemberPart
    <2> QED
      BY <1>0, <1>1, <1>2, <2>1 DEF InMember
  <1>4. Grammar'
    BY <1>0, <1>1, <1>2, <1>3 DEF Grammar
  <1>5. Verdicts'
    BY <1>0 DEF ContentInv, Verdicts
  <1>6. SinkInv'
    BY <1>0, <1>1, SinkMoves DEF ContentInv, HandedOver
  <1> QED
    BY <1>4, <1>5, <1>6

LEMMA JoinStep ==
  ASSUME Reading, OutputInv, ContentInv, JoinOutput
  PROVE  Grammar' /\ Verdicts' /\ SinkInv'
  <1>0. /\ mpc = "join" /\ mpc' = "sums" /\ ctxCheck' = outCheck /\ ctxTot' = outTot
        /\ UNCHANGED <<file, procs, mode, hdr, form, thrown, inTot, inLeft, outCopy, outLen,
                       writeState, writer, sink>>
        /\ writer = "exited" /\ outTot \in Nat /\ outCopy \in Nat
    BY DEF JoinOutput, At, Join, BothExited, Reading, TypeOK, OutputTypeOK, given, readerVars
  <1>1. Parallel /\ Pushing /\ ~Pushing' /\ ToCheck = 0 /\ ToWrite' = ToWrite
    BY <1>0 DEF OutputInv, HandOver, Turns, Pushing, ToCheck, ToWrite
  <1>2. ~Inflating /\ ~Inflating' /\ Pos' = Pos /\ Pos \in Int
    BY <1>0, PosTyped DEF Inflating, Pos, Consumed
  <1>3. PICK h, k \in 0 .. Len(file) : InMember(h, k)
    BY <1>0 DEF ContentInv, Grammar, Ending
  <1>4. k = outTot /\ (outTot > 0 => outCopy = h + outTot)
        /\ \/ Pos = h + k /\ Pos = Len(file)
           \/ Pos = h + k + 1 /\ Pos <= Len(file) /\ file[Pos] = "end"
    BY <1>0, <1>1, <1>2, <1>3 DEF InMember, Total
  <1>5. Covers(outCheck, outTot, h + outTot)
    <2>1. Covers(outCheck, outTot, outCopy)
      <3>1. outTot - 0 = outTot /\ outCopy - 0 = outCopy
        BY <1>0
      <3> QED
        BY <1>1, <3>1 DEF OutputInv, HandOver
    <2> QED
      BY <1>0, <1>3, <1>4, <2>1 DEF Covers
  <1>6. InMember(h, k)'
    <2>1. Run(h, k)' /\ Within(h + k)' /\ (k > 0 => h + k \in Stream!Content)'
      BY <1>0, <1>3, MemberPart
    <2> QED
      BY <1>0, <1>1, <1>2, <1>4, <1>5, <2>1 DEF InMember, Total, Covers
  <1>7. Grammar'
    BY <1>0, <1>2, <1>3, <1>6 DEF Grammar, Ending
  <1>8. Verdicts'
    BY <1>0 DEF ContentInv, Verdicts
  <1>9. SinkInv'
    BY <1>0, <1>1, <1>2, SinkMoves DEF ContentInv, HandedOver
  <1> QED
    BY <1>7, <1>8, <1>9

-------------------------------------------------------------------------------
(* The end of a member. *)

\* The end, without an exception.
LEMMA AcceptStep ==
  ASSUME Reading, OutputInv, ContentInv, mpc \in {"sums", "more"}, mpc' = "close", thrown' = thrown,
         UNCHANGED <<file, mode, outCopy, outLen, writeState, writer, sink>>,
         Stream!Intact, \A n \in Stream!Content : n <= Pos
  PROVE  Grammar' /\ Verdicts' /\ SinkInv'
  <1>1. Grammar'
    BY DEF Grammar, Inflating, Ending
  <1>2. writer \in {"unborn", "exited"} /\ ToWrite = 0
    BY DEF OutputInv, Turns, ToWrite
  <1>3. Testing \/ Wrote(Pos)
    BY <1>2 DEF ContentInv, SinkInv, HandedOver
  <1>4. Testing \/ Stream!Missing = {}
    BY <1>3, NoneMissing
  <1>5. Verdicts'
    BY <1>2, <1>4, StreamSame, MissingSame DEF Verdicts, ContentInv, Testing
  <1>6. SinkInv'
    BY SinkMoves DEF ContentInv, ToWrite
  <1> QED
    BY <1>1, <1>5, <1>6

LEMMA SumsStep ==
  ASSUME Reading, OutputInv, ContentInv, NEW u, VerifySums(u)
  PROVE  Grammar' /\ Verdicts' /\ SinkInv'
  <1> DEFINE Good == u = "sum" /\ Matching /\ Format(hdr) = form
  <1>0. /\ mpc = "sums" /\ ~Inflating /\ ~Inflating' /\ ~thrown
        /\ UNCHANGED <<file, mode, hdr, form, outCopy, outLen, writeState, writer, sink>>
        /\ \/ Good /\ mpc' = (IF form = "gzip" THEN "more" ELSE "close") /\ thrown' = thrown
           \/ ~Good /\ mpc' = "unwind" /\ thrown' = TRUE
    BY DEF VerifySums, Throw, Inflating, given, outputVars, ContentInv, Verdicts
  <1>1. Pos \in 0 .. Len(file) /\ Len(file) \in Nat /\ file \in Files /\ Consumed = Pos
    BY <1>0, PosTyped DEF Reading, Pos
  <1>2. PICK h, k \in 0 .. Len(file) : InMember(h, k)
    BY <1>0 DEF ContentInv, Grammar, Ending
  <1>3. /\ k = ctxTot /\ Run(h, k) /\ Within(h + k) /\ Covers(ctxCheck, ctxTot, h + ctxTot)
        /\ h + k \in 0 .. Len(file)
    BY <1>0, <1>1, <1>2 DEF InMember, Total, Pushing, Run
  <1>t. ~Stream!Intact /\ ~Good => Grammar' /\ Verdicts' /\ SinkInv'
    BY <1>0, ThrowStep DEF ContentInv
  <1> HIDE DEF Good
  <1>4. CASE Pos = h + k /\ Pos = Len(file)
    <2>1. ~Good
      BY <1>1, <1>3, <1>4, CutMatchesNot DEF Good
    <2>2. ~Stream!Intact
      BY <1>3, <1>4 DEF Within, Stream!Intact
    <2> QED
      BY <1>t, <2>1, <2>2
  <1>6. CASE Pos = h + k + 1 /\ Pos <= Len(file) /\ file[Pos] = "end"
    <2>1. Good <=> u = "sum"
      <3>1. Matching
        BY <1>1, <1>3, <1>6, WholeMatches
      <3>2. Format(hdr) = form
        BY <1>3 DEF Within, Reads
      <3> QED
        BY <3>1, <3>2 DEF Good
    <2>2. /\ Stream!After[h + k].at = "data" /\ Stream!After[h + k].form \in Stream!Heads
          /\ form = Format(Stream!After[h + k].form)
          /\ hdr = Stream!After[h + k].form
      BY <1>3, <1>6 DEF Within, Reads
    <2>3. Stream!After[Pos] = Takes(Stream!After[h + k], "end")
      <3>1. Pos \in 1 .. Len(file) /\ Pos - 1 = h + k
        BY <1>1, <1>2, <1>6
      <3> QED
        BY <1>1, <1>6, <3>1, AfterReads
    <2>4. /\ Stream!After[Pos].form = Stream!After[h + k].form
          /\ Stream!After[Pos].at = IF hdr = "zip" THEN "complete"
                                    ELSE IF hdr = "zipbad" THEN "broken" ELSE "sums"
      BY <2>2, <2>3 DEF Takes, Stream!Follows
    <2>5. CASE InHeader /\ hdr = "zipbad"
      <3>1. ~Good
        BY <2>1, <2>5 DEF VerifySums, HeaderSums
      <3>2. ~Stream!Intact
        BY <1>1, <2>4, <2>5, NeverIntact
      <3> QED
        BY <1>t, <3>1, <3>2
    <2>7. CASE InHeader /\ hdr # "zipbad"
      <3>1. Stream!After[Pos].at = "complete" /\ hdr = "zip"
        BY <2>2, <2>4, <2>7 DEF InHeader, Format, Stream!Heads
      <3>2. u = "sum" /\ form # "gzip"
        BY <2>7, <3>1 DEF VerifySums, InHeader, HeaderSums
      <3>3. Stream!Intact /\ \A n \in Stream!Content : n <= Pos
        BY <1>1, <3>1, WholeContent
      <3> QED
        BY <1>0, <2>1, <3>2, <3>3, AcceptStep
    <2>6. CASE ~InHeader
      <3>1. Stream!After[Pos].at = "sums" /\ (Stream!After[Pos].form = "gzip" <=> form = "gzip")
        BY <2>2, <2>4, <2>6 DEF InHeader, Format, Stream!Heads
      <3>2. NextUnit(u) /\ ConsumeUnit
        BY <2>6 DEF VerifySums
      <3>3. CASE Pos = Len(file) /\ u = "none"
        <4>1. ~Good /\ ~Stream!Intact
          BY <2>1, <3>1, <3>3 DEF Stream!Intact
        <4> QED
          BY <1>t, <4>1
      <3>4. CASE Pos + 1 <= Len(file) /\ u = file[Pos + 1] /\ Pos' = Pos + 1
        <4>1. Pos + 1 \in 1 .. Len(file) /\ (Pos + 1) - 1 = Pos /\ Pos + 1 \in 0 .. Len(file)
          BY <1>1, <3>4
        <4>2. Stream!After[Pos + 1] = Takes(Stream!After[Pos], u)
          BY <1>1, <3>4, <4>1, AfterReads
        <4>3. CASE u # "sum"
          <5>1. Stream!After[Pos + 1].at = "broken"
            BY <3>1, <4>2, <4>3 DEF Takes, Stream!Follows
          <5>2. ~Stream!Intact
            BY <1>1, <4>1, <5>1, NeverIntact
          <5> QED
            BY <1>t, <2>1, <4>3, <5>2
        <4>4. CASE u = "sum" /\ form # "gzip"
          <5>1. Stream!After[Pos + 1].at = "complete"
            BY <3>1, <4>2, <4>4 DEF Takes, Stream!Follows
          <5>2. Stream!Intact /\ \A n \in Stream!Content : n <= Pos + 1
            BY <1>1, <4>1, <5>1, WholeContent
          <5>3. \A n \in Stream!Content : n \in Nat /\ n # Pos + 1
            BY <3>4, <4>4, ContentNat
          <5>4. \A n \in Stream!Content : n <= Pos
            BY <1>1, <5>2, <5>3
          <5> QED
            BY <1>0, <2>1, <4>4, <5>2, <5>4, AcceptStep
        <4>5. CASE u = "sum" /\ form = "gzip"
          <5>0. mpc' = "more" /\ thrown' = thrown
            BY <1>0, <2>1, <4>5
          <5>1. Stream!After[Pos + 1].at = "member" /\ Stream!After[Pos + 1].form = Stream!After[Pos].form
            BY <3>1, <4>2, <4>5 DEF Takes, Stream!Follows
          <5>2. Reads(Pos + 1)
            BY <2>2, <2>4, <4>5, <5>1 DEF Reads
          <5>3. PICK n \in 1 .. Len(file) : n = Pos + 1
            BY <4>1
          <5>4. Reads(n)' /\ Stream!After[n]'.at = "member"
            BY <1>0, <5>1, <5>2, <5>3, StreamSame DEF Reads
          <5>5. Grammar'
            BY <1>0, <3>4, <4>5, <5>0, <5>3, <5>4 DEF Grammar, Ending
          <5>6. Verdicts'
            BY <1>0, <5>0 DEF ContentInv, Verdicts
          <5>7. SinkInv'
            <6>1. HandedOver = Pos /\ HandedOver' = Pos + 1
              BY <1>0, <3>4, <5>0 DEF HandedOver
            <6>2. \A i \in Stream!Content : i \in Nat /\ i # Pos + 1
              BY <3>4, <4>5, ContentNat
            <6>3. \A i \in Stream!Content : i <= Pos <=> i <= Pos + 1
              BY <1>1, <6>2
            <6> QED
              BY <1>0, <1>1, <5>0, <6>1, <6>3, SinkMoves DEF ContentInv, ToWrite
          <5> QED
            BY <5>5, <5>6, <5>7
        <4> QED
          BY <4>3, <4>4, <4>5
      <3> QED
        BY <1>0, <3>2, <3>3, <3>4, NextIs DEF ContentInv
    <2> QED
      BY <2>5, <2>6, <2>7
  <1> QED
    BY <1>0, <1>2, <1>4, <1>6 DEF InMember

LEMMA MoreStep ==
  ASSUME Reading, OutputInv, ContentInv, NEW u, NextMember(u)
  PROVE  Grammar' /\ Verdicts' /\ SinkInv'
  <1>0. /\ mpc = "more" /\ ~Inflating /\ ~Inflating' /\ ~thrown /\ thrown' = thrown
        /\ UNCHANGED <<file, mode, form, outCopy, outLen, writeState, writer, sink>>
        /\ NextUnit(u) /\ ConsumeUnit
        /\ \/ u \in Stream!Heads /\ hdr' = u /\ mpc' = "start"
           \/ u \notin Stream!Heads /\ mpc' = "close"
    BY DEF NextMember, Inflating, given, outputVars, ContentInv, Verdicts
  <1>1. Pos \in 1 .. Len(file) /\ Reads(Pos) /\ form = "gzip" /\ Stream!After[Pos].at = "member"
        /\ Len(file) \in Nat /\ file \in Files
    BY <1>0, PosTyped DEF ContentInv, Grammar, Reading
  <1>2. CASE Pos = Len(file) /\ u = "none"
    <2>1. u \notin Stream!Heads
      BY <1>2 DEF Stream!Heads
    <2>2. Stream!Intact /\ \A n \in Stream!Content : n <= Pos
      BY <1>1, <1>2, WholeContent
    <2> QED
      BY <1>0, <2>1, <2>2, AcceptStep
  <1>3. CASE Pos + 1 <= Len(file) /\ u = file[Pos + 1] /\ Pos' = Pos + 1
    <2>1. Pos + 1 \in 1 .. Len(file) /\ (Pos + 1) - 1 = Pos /\ Pos + 1 \in 0 .. Len(file)
      BY <1>1, <1>3
    <2>2. Stream!After[Pos + 1] = Takes(Stream!After[Pos], u)
      BY <1>1, <1>3, <2>1, AfterReads
    <2>3. \A n \in Stream!Content : n \in Nat /\ n # Pos + 1
      BY <1>1, <2>1, ContentNat DEF Stream!Content
    <2>4. CASE u \notin Stream!Heads
      <3>1. Stream!After[Pos + 1].at = "complete"
        <4>1. u # "gzip"
          BY <2>4 DEF Stream!Heads
        <4> QED
          BY <1>1, <2>2, <2>4, <4>1 DEF Takes, Stream!Follows
      <3>2. Stream!Intact /\ \A n \in Stream!Content : n <= Pos + 1
        BY <1>1, <2>1, <3>1, WholeContent
      <3>3. \A n \in Stream!Content : n <= Pos
        BY <1>1, <2>3, <3>2
      <3> QED
        BY <1>0, <2>4, <3>2, <3>3, AcceptStep
    <2>5. CASE u \in Stream!Heads
      <3>0. mpc' = "start" /\ hdr' = u
        BY <1>0, <2>5
      <3>2. u = "gzip"
        BY <1>1, <1>3, <2>1, <2>5 DEF ContentInv, Stream!ForeignFollows
      <3>1. Stream!After[Pos + 1].at = "data" /\ Stream!After[Pos + 1].form = Stream!After[Pos].form
        BY <1>1, <2>2, <3>2 DEF Takes, Stream!Follows
      <3>3. PICK n \in 1 .. Len(file) : n = Pos + 1
        BY <2>1
      <3>4. Within(n)'
        BY <1>0, <1>1, <3>0, <3>1, <3>2, <3>3, StreamSame DEF Within, Reads, Format
      <3>5. Grammar'
        BY <1>0, <1>3, <2>5, <3>0, <3>3, <3>4 DEF Grammar, Ending, Stream!Heads
      <3>6. Verdicts'
        BY <1>0, <3>0 DEF ContentInv, Verdicts
      <3>7. SinkInv'
        <4>1. HandedOver = Pos /\ HandedOver' = Pos + 1
          BY <1>0, <1>3, <3>0 DEF HandedOver
        <4>2. \A i \in Stream!Content : i <= Pos <=> i <= Pos + 1
          BY <1>1, <2>3
        <4> QED
          BY <1>0, <1>1, <3>0, <4>1, <4>2, SinkMoves DEF ContentInv, ToWrite
      <3> QED
        BY <3>5, <3>6, <3>7
    <2> QED
      BY <2>4, <2>5
  <1> QED
    BY <1>0, <1>2, <1>3, NextIs DEF ContentInv

-------------------------------------------------------------------------------
(* The other steps, and the threads. *)

LEMMA ReaderStep ==
  ASSUME Reading, OutputInv, ContentInv, Load \/ Fetch \/ ReadAhead \/ CheckThread \/ UNCHANGED vars
  PROVE  Grammar' /\ Verdicts' /\ SinkInv'
  <1>1. Pos' = Pos
    <2>1. CASE Load
      BY <2>1, LoadPos
    <2>2. CASE Fetch
      BY <2>2, PosTyped DEF Fetch, Pos, Used, Consumed, Inflating
    <2>3. CASE ReadAhead
      BY <2>3 DEF ReadAhead, Loader, LoaderRead, LoaderSignal, LoaderExit, LoaderError, Pos, Used,
         Consumed, Inflating, infchkVars
    <2>4. CASE CheckThread \/ UNCHANGED vars
      BY <2>4 DEF CheckThread, vars, readerVars, Pos, Used, Consumed, Inflating, infchkVars
    <2> QED
      BY <2>1, <2>2, <2>3, <2>4
  <1>2. UNCHANGED <<file, procs, mode, hdr, form, outTot, outCopy, outLen, writeState, writer,
                    sink, mpc, thrown, failed, ctxCheck, ctxTot>>
    BY DEF Load, Fetch, ReadAhead, CheckThread, Checker, CheckBlock, CheckReturn, vars, given,
       outputVars, infchkVars
  <1> QED
    BY <1>1, <1>2, QuietStep DEF ContentInv

LEMMA FailStep ==
  ASSUME Reading, OutputInv, ContentInv, LoadError \/ OutputError
  PROVE  Grammar' /\ Verdicts' /\ SinkInv'
  <1>1. /\ mpc' = "unwind" /\ thrown' = TRUE /\ failed'
        /\ UNCHANGED <<file, mode, outCopy, outLen, writeState, writer, sink>>
    BY DEF LoadError, OutputError, Fail, given, outputVars
  <1> QED
    BY <1>1, ThrowStep DEF ContentInv

LEMMA CloseStep ==
  ASSUME Reading, OutputInv, ContentInv, Unwind \/ Close
  PROVE  Grammar' /\ Verdicts' /\ SinkInv'
  <1>1. /\ mpc \in {"unwind", "close"} /\ mpc' \in {"close", "done"} /\ thrown' = thrown
        /\ UNCHANGED <<failed, file, mode, outCopy, outLen, writeState, writer, sink>>
    BY DEF Unwind, Close, At, given, outputVars
  <1>2. Grammar'
    BY <1>1 DEF Grammar, Inflating, Ending
  <1>3. Verdicts'
    BY <1>1, StreamSame, MissingSame DEF ContentInv, Verdicts, Testing
  <1>4. SinkInv'
    BY <1>1, SinkMoves DEF ContentInv, ToWrite
  <1> QED
    BY <1>2, <1>3, <1>4

LEMMA WriterStep ==
  ASSUME Reading, OutputInv, ContentInv, Writer
  PROVE  /\ Grammar' /\ Verdicts' /\ SinkInv'
         /\ \/ sink' = sink
            \/ ~Testing /\ outCopy \in Stream!Missing /\ (\A m \in Stream!Missing : outCopy <= m)
               /\ sink' = Append(sink, outCopy)
  <1>0. /\ UNCHANGED <<file, procs, mode, hdr, form, thrown, failed, outCopy, outLen, outTot, mpc, ctxCheck,
                       ctxTot, inTot, inLeft, zLeft>>
        /\ writer \notin {"unborn", "exited"} /\ sink \in Seq(Nat) /\ outLen \in {0, 1}
    BY DEF Writer, WriteBlock, WriteFailure, WriteReturn, given, readerVars, infchkVars, Reading,
       TypeOK, OutputTypeOK
  <1>1. Pos' = Pos /\ Testing' = Testing /\ HandedOver' = HandedOver /\ HandedOver \in Int
    BY <1>0, PosTyped DEF Pos, Used, Consumed, Inflating, Testing, HandedOver
  <1>2. Grammar'
    BY <1>0, <1>1, GrammarStays DEF ContentInv
  <1>3. Verdicts'
    BY <1>0, StreamSame DEF ContentInv, Verdicts
  <1>4. CASE ToWrite' = ToWrite /\ sink' = sink
    <2>1. SinkInv'
      BY <1>0, <1>1, <1>4, SinkMoves DEF ContentInv
    <2> QED
      BY <1>2, <1>3, <1>4, <2>1
  <1>5. CASE WriteBlock(Testing) /\ outLen = 1 /\ ~Testing
    <2>1. ToWrite = 1 /\ ToWrite' = 0 /\ sink' = Append(sink, outCopy)
      BY <1>0, <1>5 DEF WriteBlock, ToWrite
    <2>2. outCopy \in Stream!Content /\ Wrote(outCopy - 1)
      BY <1>5, <2>1 DEF ContentInv, SinkInv
    <2>3. PICK n \in Stream!Content : n = outCopy
      BY <2>2
    <2>4. Wrote(n)' /\ n \in Stream!Missing /\ \A m \in Stream!Missing : n <= m
      BY <1>0, <2>1, <2>2, <2>3, WroteMore
    <2>5. SinkInv'
      <3>1. CASE mpc \in {"unwind", "close", "done"}
        BY <1>0, <2>1, <3>1 DEF SinkInv
      <3>2. CASE mpc \notin {"unwind", "close", "done"}
        <4> DEFINE o == HandedOver
        <4>1. n <= o /\ \A m \in Stream!Content : m <= n \/ m > o
          BY <1>5, <2>1, <2>3, <3>2 DEF ContentInv, SinkInv
        <4>2. n \in Nat /\ o \in Int /\ \A m \in Stream!Content : m \in Nat
          BY <1>1, ContentNat
        <4> HIDE DEF o
        <4>3. \A m \in Stream!Content : m <= n <=> m <= o
          BY <4>1, <4>2
        <4>4. Stream!Content' = Stream!Content
          BY <1>0, StreamSame
        <4>5. \A m \in Stream!Content : m \notin Stream!Missing' <=> m <= o
          BY <2>4, <4>3, <4>4 DEF Wrote
        <4>6. Wrote(HandedOver)'
          BY <1>1, <4>4, <4>5 DEF Wrote, o
        <4> QED
          BY <2>1, <4>6 DEF SinkInv
      <3> QED
        BY <3>1, <3>2
    <2> QED
      BY <1>2, <1>3, <1>5, <2>1, <2>3, <2>4, <2>5
  <1>6. CASE WriteBlock(Testing) /\ Testing
    <2>1. sink' = sink /\ SinkInv'
      BY <1>1, <1>6 DEF WriteBlock, SinkInv
    <2> QED
      BY <1>2, <1>3, <2>1
  <1>7. CASE WriteBlock(Testing) /\ outLen = 0
    BY <1>0, <1>4, <1>7 DEF WriteBlock, ToWrite
  <1>8. CASE WriteFailure(Testing) \/ WriteReturn
    BY <1>0, <1>4, <1>8 DEF WriteFailure, WriteReturn, ToWrite
  <1> QED
    BY <1>0, <1>5, <1>6, <1>7, <1>8 DEF Writer

LEMMA ContentInit == Init /\ ~Stream!ForeignFollows => ContentInv
  <1> SUFFICES ASSUME Init, ~Stream!ForeignFollows PROVE ContentInv
    OBVIOUS
  <1>1. mpc = "header" /\ ~thrown /\ Pos = 0 /\ sink = <<>> /\ ToWrite = 0
    BY DEF Init, OpenReader, NoOutput, Pos, Consumed, Inflating, ToWrite
  <1>2. Grammar /\ Verdicts
    BY <1>1 DEF Grammar, Verdicts, Inflating, Ending
  <1>3. SinkInv
    <2>1. \A n \in Stream!Content : n \in Stream!Missing /\ ~(n <= 0)
      BY <1>1, ContentNat DEF Stream!Missing
    <2>2. Wrote(0)
      BY <2>1 DEF Wrote
    <2> QED
      BY <1>1, <2>2 DEF SinkInv, HandedOver
  <1> QED
    BY <1>2, <1>3, EofInit DEF ContentInv

LEMMA ContentStep == ASSUME Reading, OutputInv, ContentInv, [Next]_vars PROVE ContentInv'
  <1>1. EofInv' /\ ~Stream!ForeignFollows'
    <2>1. file' = file
      BY DEF Next, Main, Terminated, ReadAhead, Writer, CheckThread, vars, given, Load, LoadError,
         StartMember, Fetch, Inflate, EndOfData, Corrupted, Incomplete, Output, OutputError, Push,
         Pushed, Finish, Finished, JoinOutput, Unwind, Close, GetHeader, VerifySums, NextMember
    <2> QED
      BY <2>1, EofStep, StreamSame DEF ContentInv
  <1>2. ASSUME NEW u, GetHeader(u) \/ VerifySums(u) \/ NextMember(u)
        PROVE  Grammar' /\ Verdicts' /\ SinkInv'
    BY <1>2, HeaderStep, SumsStep, MoreStep
  <1>3. Grammar' /\ Verdicts' /\ SinkInv'
    BY <1>2, StartStep, InflateStep, EndStep, CorruptedStep, IncompleteStep, DirectStep,
       PushStep, HandStep, JoinStep, ReaderStep, FailStep, CloseStep, WriterStep
       DEF Next, Main, Terminated
  <1> QED
    BY <1>1, <1>3 DEF ContentInv

THEOREM ContentInvariant ==
  Spec /\ ~Stream!ForeignFollows => [](DecompressInv /\ ContentInv)
  <1>1. Init /\ ~Stream!ForeignFollows => ContentInv
    BY ContentInit
  <1>2. DecompressInv /\ ContentInv /\ [Next]_vars => ContentInv'
    BY ContentStep DEF DecompressInv
  <1> QED
    BY <1>1, <1>2, DecompressInvariant, PTL DEF Spec

\* Whatever the reader, the write and the check thread do, what is written of an input is
\* what is to be restored of it, each piece once and in order, and the call accepts the input
\* only if it is intact and everything has been written, and rejects an intact one only if a
\* call to read or to write did fail. This is for all inputs in which no member of another
\* format follows a gzip member: infchk goes on with any header (decompress.cpp:494).
THEOREM ContentWritten == Spec /\ ~Stream!ForeignFollows => WritesContent
  <1> DEFINE verdict == IF mpc # "done" THEN "none" ELSE IF thrown THEN "rejected" ELSE "accepted"
  <1>1. Init => Stream!Init
    <2>1. (mode # "decompress") \in BOOLEAN
      OBVIOUS
    <2> QED
      BY <2>1, FilesAssumption DEF Init, Stream!Init
  <1>2. DecompressInv /\ ContentInv /\ [Next]_vars
          => [Stream!Next]_<<file, mode # "decompress", sink, verdict, failed>>
    <2> SUFFICES ASSUME DecompressInv, ContentInv, [Next]_vars
                 PROVE  [Stream!Next]_<<file, mode # "decompress", sink, verdict, failed>>
      OBVIOUS
    <2>0. Reading /\ OutputInv
      BY DEF DecompressInv
    <2>1. ASSUME UNCHANGED <<file, mode, sink, failed>>, mpc # "done", mpc' # "done"
          PROVE  [Stream!Next]_<<file, mode # "decompress", sink, verdict, failed>>
      BY <2>1
    <2>2. ASSUME UNCHANGED <<file, mode, failed>>, mpc # "done", mpc' # "done", ~Testing,
                 NEW n, n \in Stream!Missing, \A m \in Stream!Missing : n <= m,
                 sink' = Append(sink, n)
          PROVE  [Stream!Next]_<<file, mode # "decompress", sink, verdict, failed>>
      BY <2>2 DEF Stream!Next, Stream!Write, Testing
    <2>3. CASE UNCHANGED vars
      BY <2>3 DEF vars, given, outputVars, infchkVars
    <2>4. CASE Output
      <3>1. UNCHANGED <<file, mode, failed>> /\ mpc = "output" /\ mpc' = "inflate" /\ (Testing => sink' = sink)
        BY <2>4 DEF Output, At, given
      <3>2. ~Testing => /\ block \in Stream!Missing /\ \A m \in Stream!Missing : block <= m
                        /\ sink' = Append(sink, block)
        BY <2>0, <2>4, DirectStep
      <3>3. CASE Testing
        BY <2>1, <3>1, <3>3
      <3>4. CASE ~Testing
        BY <2>2, <3>1, <3>2, <3>4
      <3> QED
        BY <3>3, <3>4
    <2>5. CASE Writer /\ ~Ended
      <3>1. UNCHANGED <<file, mode, failed>> /\ mpc # "done" /\ mpc' # "done"
        BY <2>5 DEF Writer, given, infchkVars, Ended
      <3>2. CASE sink' = sink
        BY <2>1, <3>1, <3>2
      <3>3. CASE ~Testing /\ outCopy \in Stream!Missing /\ (\A m \in Stream!Missing : outCopy <= m)
                 /\ sink' = Append(sink, outCopy)
        BY <2>2, <3>1, <3>3
      <3> QED
        BY <2>0, <2>5, <3>2, <3>3, WriterStep
    <2>6. CASE Close /\ ~Ended
      <3>1. UNCHANGED <<file, mode, sink, thrown, failed>> /\ mpc = "close"
        BY <2>6 DEF Close, given, outputVars
      <3>2. CASE mpc' # "done"
        BY <2>1, <3>1, <3>2
      <3>3. CASE mpc' = "done" /\ thrown
        <4>1. ~Stream!Intact \/ failed
          BY <3>3 DEF ContentInv, Verdicts
        <4> QED
          BY <3>1, <3>3, <4>1 DEF Stream!Next, Stream!Reject
      <3>4. CASE mpc' = "done" /\ ~thrown
        <4>1. Stream!Intact /\ (Testing \/ Stream!Missing = {})
          BY <3>1, <3>4 DEF ContentInv, Verdicts
        <4> QED
          BY <3>1, <3>4, <4>1 DEF Stream!Next, Stream!Accept, Testing
      <3> QED
        BY <3>2, <3>3, <3>4
    <2>f. CASE LoadError \/ OutputError
      <3>1. /\ UNCHANGED <<file, mode, sink>> /\ failed' = TRUE /\ Faults # {}
            /\ mpc # "done" /\ mpc' # "done"
        BY <2>f DEF LoadError, OutputError, Fail, NeedsUnit, given, outputVars
      <3> QED
        BY <3>1 DEF Stream!Next, Stream!Fail
    <2>7. CASE Load \/ StartMember \/ Fetch \/ Inflate \/ EndOfData \/ Corrupted
      BY <2>1, <2>7 DEF Load, StartMember, Fetch, Inflate, EndOfData, Corrupted, At, Throw,
         AfterData, NeedsUnit, Start, given, outputVars, infchkVars
    <2>8. CASE Incomplete \/ Push \/ Pushed \/ Finish \/ Finished \/ JoinOutput \/ Unwind
      BY <2>1, <2>8 DEF Incomplete, Push, Pushed, Finish, Finished, JoinOutput, Unwind, At,
         Throw, AfterData, PushCopy, PushCheck, PushEnd, Join, given, outputVars
    <2>9. ASSUME NEW u, GetHeader(u) \/ VerifySums(u) \/ NextMember(u)
          PROVE  [Stream!Next]_<<file, mode # "decompress", sink, verdict, failed>>
      BY <2>1, <2>9 DEF GetHeader, VerifySums, NextMember, Throw, given, outputVars
    <2>10. CASE (ReadAhead \/ CheckThread) /\ ~Ended
      BY <2>1, <2>10 DEF ReadAhead, CheckThread, Checker, CheckBlock, CheckReturn, Ended, given,
         outputVars, infchkVars
    <2> QED
      BY <2>3, <2>4, <2>5, <2>6, <2>f, <2>7, <2>8, <2>9, <2>10 DEF Next, Main, Terminated
  <1> HIDE DEF verdict
  <1>3. Spec /\ ~Stream!ForeignFollows => Stream!Init /\ [][Stream!Next]_<<file, mode # "decompress", sink, verdict, failed>>
    BY <1>1, <1>2, ContentInvariant, PTL DEF Spec
  <1> QED
    BY <1>3 DEF WritesContent, Stream!Spec, Stream!svars, verdict
===============================================================================
