---------------------------- MODULE SingleCompress ----------------------------
(***************************************************************************)
(* Compressor::single_compress (src/src/pigzpp/compress.cpp): one thread   *)
(* reads the input, deflates it and writes the output through a buffer,    *)
(* either with ISA-L in one stream, or with zlib in blocks whose ends may  *)
(* be put where a rolling hash hits.                                       *)
(*                                                                         *)
(* A buffer is a function from its indices to positions of the input, so   *)
(* that every copy between buffers counts, and data handed to the engine   *)
(* or to the check value is a sequence of positions.  The engine is the    *)
(* data it has been given since the last end of a block and the history    *)
(* it may refer to.                                                        *)
(***************************************************************************)
EXTENDS Integers, Sequences, SequencesExt

CONSTANTS
  Inputs,     \* lengths of the inputs
  DictSize,   \* DICT_SIZE, the reach of the DEFLATE window
  IoBuf,      \* IO_BUF, the size of a read on the ISA-L path
  MaxPiece,   \* MAXP2, the most that is handed to zlib at once
  Faults      \* which of "read" and "write" may fail

ASSUME InputsAssumption == Inputs \subseteq Nat
ASSUME SizesAssumption ==
  DictSize \in Nat \ {0} /\ IoBuf \in Nat \ {0} /\ MaxPiece \in Nat \ {0}
ASSUME FaultsAssumption == Faults \subseteq {"read", "write"}

VARIABLES
  cfg,        \* cfg_: engine, level, rsync, setdict, block, procs, form
  total,      \* length of the input of this call
  spc,        \* where the call is
  rd,         \* position of the input descriptor
  in,         \* in, or inbuf on the ISA-L path
  nextBuf,    \* next_buf
  nextIn,     \* strm.next_in, as an index into in
  got,        \* bytes at nextIn to be compressed
  more,       \* bytes in nextBuf
  start,      \* where they start
  left,       \* bytes after the end of the block found by the hash
  have,       \* bytes since the last fresh block
  pending,    \* what the engine has been given since the last end of a block
  history,    \* where the data starts that the engine may refer to
  out,        \* blocks in the output buffer
  clen,       \* length of the compressed data written, counted in blocks
  ulen,       \* length of the input read
  checkVal,   \* check value
  sink        \* what has been written to the output

bufferVars == <<in, nextBuf, nextIn, got, more, start, left>>
engineVars == <<have, pending, history>>
outputVars == <<out, clen, sink>>
countVars  == <<rd, ulen, checkVal>>
callVars   == <<cfg, total>>
singleVars == <<spc, bufferVars, engineVars, outputVars, countVars>>

Smaller(a, b) == IF a <= b THEN a ELSE b
Larger(a, b)  == IF a <= b THEN b ELSE a

\* What the compressor promises about an input of a given length.
Stream(t) == INSTANCE CompressStream WITH Total <- t, sink <- sink \o out

-------------------------------------------------------------------------------
(* Buffers, data and check values. *)

Garbage == -1

\* Buffers are allocated as the path wants them, their contents unknown.
Fresh(size) == [i \in 0 .. size - 1 |-> Garbage]

\* n bytes from the source, of which f gives the i-th, copied into b at index to.
Copy(b, to, n, f) == [i \in DOMAIN b |-> IF i \in to .. to + n - 1 THEN f[i - to] ELSE b[i]]

Slice(b, at, n) == [i \in 1 .. n |-> b[at + i - 1]]

\* What a read of the input returns, and how much.
Rest(size) == Smaller(size, total - rd)
Input(b, size) == Copy(b, 0, Rest(size), [i \in 0 .. size - 1 |-> rd + i])

Run(from, n) == [i \in 1 .. n |-> from + i - 1]

Interval(from, to) == [from |-> from, to |-> to]
BadCheck == Interval(1, 0)

\* check(): the check value of what c covers followed by d.
Checked(c, d) == IF d = Run(c.to, Len(d)) THEN Interval(c.from, c.to + Len(d)) ELSE BadCheck

\* The data d as a block; data out of order makes a block nobody can use.
Block(d, last) ==
  IF d = <<>> THEN Stream(0)!Deflated(0, 0, 0, 0, last)
  ELSE IF d = Run(d[1], Len(d))
  THEN Stream(0)!Deflated(d[1], d[1] + Len(d), Larger(history, d[1] - DictSize), d[1], last)
  ELSE [kind |-> "garbled"]

-------------------------------------------------------------------------------
(* Output. *)

\* Mutant of FlushOutput: the last write is not added to clen.
FlushUncounted ==
  /\ sink' = sink \o out /\ out' = <<>> /\ clen' = clen

\* flush_output.
FlushOutput ==
  /\ sink' = sink \o out /\ out' = <<>> /\ clen' = clen + Len(out)

\* The engine leaves blocks in the output buffer, which is written when full.
Emit(blocks) ==
  \/ /\ out' = out \o blocks /\ UNCHANGED <<sink, clen>>
  \/ /\ sink' = sink \o out \o blocks /\ out' = <<>>
     /\ clen' = clen + Len(out) + Len(blocks)

\* writen throws, from any place that writes.
WriteError ==
  /\ "write" \in Faults
  /\ spc \in {"header", "isal", "feed", "flush", "trailer"}
  /\ spc' = "threw"
  /\ UNCHANGED <<callVars, bufferVars, engineVars, outputVars, countVars>>

\* readn throws.
ReadError ==
  /\ "read" \in Faults
  /\ \/ spc \in {"isal", "first", "refill"}
     \/ spc = "data" /\ got = 0
  /\ spc' = "threw"
  /\ UNCHANGED <<callVars, bufferVars, engineVars, outputVars, countVars>>

-------------------------------------------------------------------------------

\* The variables of a call before it begins.
Idle ==
  /\ in = Fresh(0) /\ nextBuf = Fresh(0) /\ nextIn = 0 /\ got = 0 /\ more = 0 /\ start = 0
  /\ left = 0 /\ have = 0 /\ pending = <<>> /\ history = 0
  /\ out = <<>> /\ clen = 0 /\ sink = <<>>
  /\ rd = 0 /\ ulen = 0 /\ checkVal = Interval(0, 0)

\* They have these values again when the next call begins.
Restart ==
  /\ in' = Fresh(0) /\ nextBuf' = Fresh(0) /\ nextIn' = 0 /\ got' = 0 /\ more' = 0
  /\ start' = 0 /\ left' = 0 /\ have' = 0 /\ pending' = <<>> /\ history' = 0
  /\ out' = <<>> /\ clen' = 0 /\ sink' = <<>>
  /\ rd' = 0 /\ ulen' = 0 /\ checkVal' = Interval(0, 0)

At(from, to) == spc = from /\ spc' = to

UsesIsal == cfg.isal /\ cfg.level <= 9

\* put_header, and the choice of the engine.
WriteHeader ==
  /\ At("header", IF UsesIsal /\ ~cfg.rsync THEN "isal" ELSE "init")
  /\ sink' = Append(sink, Stream(0)!Header)
  /\ UNCHANGED <<callVars, bufferVars, engineVars, countVars, out, clen>>

\* One read on the ISA-L path. The stream ends with the read that comes up
\* short, which may be an empty one. In between the output may be written at
\* any time, but a block, of which there is only one, is complete at the end.
IsalRead ==
  LET n == Rest(IoBuf)
      d == Run(rd, n)
  IN /\ spc = "isal"
     /\ rd' = rd + n /\ ulen' = ulen + n
     /\ checkVal' = Checked(checkVal, d)
     /\ IF n < IoBuf
        THEN /\ Emit(<<Block(pending \o d, TRUE)>>) /\ pending' = <<>> /\ spc' = "flush"
        ELSE /\ pending' = pending \o d /\ UNCHANGED <<outputVars, spc>>
     /\ UNCHANGED <<callVars, bufferVars, have, history>>

\* deflateInit2, which does not know a level above 9, and the buffers.
InitEngine ==
  /\ At("init", IF cfg.level <= 9 THEN "first" ELSE "threw")
  /\ in' = Fresh(cfg.block) /\ nextBuf' = Fresh(cfg.block)
  /\ UNCHANGED <<callVars, nextIn, got, more, start, left, engineVars, outputVars, countVars>>

\* readn() of up to a block into the buffer b, which becomes next_buf.
ReadNext(b) ==
  /\ nextBuf' = Input(b, cfg.block)
  /\ more' = Rest(cfg.block)
  /\ start' = 0
  /\ rd' = rd + Rest(cfg.block) /\ ulen' = ulen + Rest(cfg.block)

ReadFirst ==
  /\ At("first", "data")
  /\ ReadNext(nextBuf)
  /\ UNCHANGED <<callVars, in, nextIn, got, left, engineVars, outputVars, checkVal>>

\* The next data to compress: what a hash hit has left over, or the other
\* buffer, while the one just used is filled again.
GetData ==
  /\ spc = "data"
  /\ \/ /\ got = 0
        /\ in' = nextBuf /\ nextIn' = start /\ got' = more
        /\ ReadNext(in)
     \/ /\ got > 0 /\ UNCHANGED <<in, nextBuf, nextIn, got, more, start, rd, ulen>>
  /\ IF cfg.rsync /\ got' > 0
     THEN left' = got' /\ spc' = "scan"
     ELSE left' = 0 /\ spc' = "separate"
  /\ UNCHANGED <<callVars, engineVars, outputVars, checkVal>>

\* The rolling hash hits after the k-th of the bytes left, or not at all. The
\* hash looks at each byte once, so where it hits is any choice.
ScanHit ==
  /\ At("scan", "separate")
  /\ \E k \in 1 .. left : left' = left - k /\ got' = got - (left - k)
  /\ UNCHANGED <<callVars, in, nextBuf, nextIn, more, start,
                 engineVars, outputVars, countVars>>

\* Mutant of BlockFull: the block is not looked at.
BlockNeverFull == FALSE

BlockFull == got = cfg.block

\* Without a hit the block takes in what comes next, as long as there is room.
ScanMiss ==
  /\ At("scan", IF more = 0 \/ BlockFull THEN "separate" ELSE "merge")
  /\ left' = 0
  /\ UNCHANGED <<callVars, in, nextBuf, nextIn, got, more, start,
                 engineVars, outputVars, countVars>>

\* Mutant of MovedUp: the data stays where it is in its buffer.
MovedNowhere(b) == b

\* memmove of what is left at next_in to the front of the buffer.
MovedUp(b) == Copy(b, 0, got, [i \in 0 .. got - 1 |-> b[nextIn + i]])

\* Mutant of Room: all of next_buf is taken.
RoomForAll == more

\* How much of next_buf fits.
Room == Smaller(more, cfg.block - got)

\* memmove to the front of in, and memcpy of as much of next_buf as fits.
Merge ==
  LET from == [i \in 0 .. Room - 1 |-> nextBuf[start + i]]
  IN /\ At("merge", IF more = Room THEN "refill" ELSE "scan")
     /\ nextIn' = 0
     /\ in' = Copy(MovedUp(in), got, Room, from)
     /\ left' = Room /\ got' = got + Room /\ more' = more - Room /\ start' = start + Room
     /\ UNCHANGED <<callVars, nextBuf, engineVars, outputVars, countVars>>

Refill ==
  /\ At("refill", "scan")
  /\ ReadNext(nextBuf)
  /\ UNCHANGED <<callVars, in, nextIn, got, left, engineVars, outputVars, checkVal>>

\* A full block's worth of data since the last fresh one: deflateReset.
Separate ==
  LET fresh == ~cfg.setdict /\ have + got > cfg.block
  IN /\ At("separate", "feed")
     /\ have' = IF cfg.setdict THEN 0 ELSE IF fresh THEN got ELSE have + got
     /\ history' = IF fresh THEN checkVal.to ELSE history
     /\ pending' = IF fresh THEN <<>> ELSE pending
     /\ UNCHANGED <<callVars, bufferVars, outputVars, countVars>>

\* Mutant of Forgotten: Z_FULL_FLUSH is left out.
NotForgotten(end) == history

\* Z_FULL_FLUSH after a block that the next one must not refer to.
Forgotten(end) == IF cfg.setdict THEN history ELSE end

\* Data goes to zlib in pieces no longer than it takes at once, the last one
\* of them with the end of a block or of the stream.
FeedPiece ==
  LET d == Slice(in, nextIn, MaxPiece)
  IN /\ spc = "feed" /\ got > MaxPiece
     /\ nextIn' = nextIn + MaxPiece /\ got' = got - MaxPiece
     /\ checkVal' = Checked(checkVal, d)
     /\ pending' = pending \o d
     /\ Emit(<<>>)
     /\ UNCHANGED <<callVars, in, nextBuf, more, start, left, have, history, spc, rd, ulen>>

Feed ==
  LET d    == Slice(in, nextIn, got)
      last == more = 0 /\ left = 0
  IN /\ got <= MaxPiece
     /\ At("feed", IF last THEN "flush" ELSE "data")
     /\ nextIn' = nextIn + got /\ got' = left /\ left' = 0
     /\ checkVal' = Checked(checkVal, d)
     /\ pending' = <<>>
     /\ Emit(<<Block(pending \o d, last)>>)
     /\ history' = IF last THEN history ELSE Forgotten(checkVal'.to)
     /\ UNCHANGED <<callVars, in, nextBuf, more, start, have, rd, ulen>>

Flush ==
  /\ At("flush", "trailer")
  /\ FlushOutput
  /\ UNCHANGED <<callVars, bufferVars, engineVars, countVars>>

WriteTrailer ==
  /\ At("trailer", "returned")
  /\ sink' = Append(sink, Stream(0)!Trailer(ulen, checkVal))
  /\ UNCHANGED <<callVars, bufferVars, engineVars, countVars, out, clen>>

Single ==
  \/ WriteHeader \/ IsalRead \/ InitEngine \/ ReadFirst \/ GetData
  \/ ScanHit \/ ScanMiss \/ Merge \/ Refill \/ Separate \/ FeedPiece \/ Feed \/ Flush \/ WriteTrailer
  \/ ReadError \/ WriteError
===============================================================================
