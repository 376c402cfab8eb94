------------------------------ MODULE Compressor ------------------------------
(***************************************************************************)
(* The class Compressor (src/src/pigzpp/compress.cpp), built with ISA-L:   *)
(* one object, on which compress() and compress_buffer() are called one    *)
(* after the other.  Each call fits the block size and the number of       *)
(* threads in the object's configuration to its input and takes one of     *)
(* three ways: the pipeline of parallel_compress, specified in             *)
(* ParallelCompress and one step here, single_compress, or a single        *)
(* in-memory call of zlib.                                                 *)
(***************************************************************************)
EXTENDS SingleCompress, FiniteSetsExt

CONSTANTS
  Configs,       \* configurations a Compressor is made with
  DefaultBlock,  \* DEFAULT_BLOCK_SIZE
  LargestBlock,  \* 2 MB
  BlockSizes,    \* 2 MB and its halves, down to DEFAULT_BLOCK_SIZE
  MaxChunk,      \* UINT_MAX, the most direct_compress hands to zlib at once
  MaxCalls,      \* bound on the number of calls
  MaxHashed      \* bound on the inputs whose blocks end where a hash hits

Forms == {"gzip", "zlib", "zip", "raw"}

\* The level stands for the ones that zlib and ISA-L know, or is 11 (zopfli).
ASSUME ConfigsAssumption ==
  Configs \subseteq [isal : BOOLEAN, level : {6, 11}, rsync : BOOLEAN, setdict : BOOLEAN,
                     block : Nat \ {0}, procs : Nat \ {0}, form : Forms]
\* The command line refuses a block smaller than the window (main.cpp:377, 435).
ASSUME WindowAssumption == \A c \in Configs : DictSize <= c.block
ASSUME BlocksAssumption ==
  /\ DefaultBlock \in Nat \ {0} /\ DictSize <= DefaultBlock /\ LargestBlock \in Nat
  /\ {DefaultBlock, LargestBlock \div 2, LargestBlock} \subseteq BlockSizes
  /\ BlockSizes \subseteq DefaultBlock .. LargestBlock
  /\ \A b \in BlockSizes : b = DefaultBlock \/ \E half \in BlockSizes : b = 2 * half
ASSUME ChunkAssumption == MaxChunk \in Nat \ {0}
ASSUME BoundsAssumption == MaxCalls \in Nat /\ MaxHashed \in Nat

VARIABLES
  shift,   \* shift_, as the block size it was computed for
  via,     \* where the input of this call is: "file", "pipe" or "memory"
  calls    \* number of calls so far

vars == <<callVars, singleVars, shift, via, calls>>

InSingle == spc \in {"header", "isal", "init", "first", "data", "scan", "merge", "refill",
                     "separate", "feed", "flush", "trailer"}
InDirect == spc \in {"direct", "deflated", "zlibTrailer"}
Ended == spc \in {"returned", "threw"}

-------------------------------------------------------------------------------
(* Settings. *)

\* The size of the input, which a pipe does not tell.
SizeOf(source, t) == IF source = "pipe" THEN -1 ELSE t

Adapts == UsesIsal /\ ~cfg.rsync /\ cfg.block = DefaultBlock

\* Halved from 2 MB until there are four blocks for each thread, or the
\* default is reached; 1 MB for an input of unknown or no length.
FittingBlock(size) ==
  IF size > 0
  THEN Max({b \in BlockSizes : b = DefaultBlock \/ size \div b >= 4 * cfg.procs})
  ELSE LargestBlock \div 2

\* Mutant of Capped: one block for each thread is enough.
CappedAtOne(source, size, block) ==
  IF cfg.procs > 1 /\ source # "memory" /\ size > 0
  THEN Smaller(cfg.procs, Larger(1, size \div block))
  ELSE cfg.procs

\* At least two blocks for each thread. An input in memory keeps its threads.
Capped(source, size, block) ==
  IF cfg.procs > 1 /\ source # "memory" /\ size > 0
  THEN Smaller(cfg.procs, Larger(1, size \div (block * 2)))
  ELSE cfg.procs

\* Mutant of ShiftAfter: shift_ stays as it was constructed.
ShiftKept(block) == shift

\* shift_ is computed anew along with the block size.
ShiftAfter(block) == IF Adapts THEN block ELSE shift

-------------------------------------------------------------------------------
(* Calls. *)

\* The configuration is copied, and shift_ computed for its block size.
Init ==
  /\ cfg \in Configs
  /\ shift = cfg.block
  /\ spc = "returned" /\ total = 0 /\ via = "file" /\ calls = 0
  /\ Idle

\* The variables of a call as they are when it begins.
Begin ==
  /\ Ended /\ calls < MaxCalls
  /\ calls' = calls + 1
  /\ total' \in {t \in Inputs : cfg.rsync => t <= MaxHashed}
  /\ Restart

\* compress() with an input of the given kind: settings, then dispatch.
Compress(source, t) ==
  LET size  == SizeOf(source, t)
      block == IF Adapts THEN FittingBlock(size) ELSE cfg.block
      procs == Capped(source, size, block)
  IN /\ via' = source
     /\ cfg' = [cfg EXCEPT !.block = block, !.procs = procs]
     /\ shift' = ShiftAfter(block)
     /\ spc' = IF procs > 1 THEN "parallel" ELSE "header"

CallCompress ==
  /\ Begin
  /\ \E source \in {"file", "pipe"} : Compress(source, total')

\* inmem_parallel_ok and direct_ok.
InMemory == cfg.procs > 1 /\ cfg.level # 11 /\ ~cfg.rsync /\ cfg.form \in {"gzip", "zlib"}
Direct   == cfg.procs <= 1 /\ cfg.level # 11 /\ ~cfg.rsync /\ cfg.form \in {"gzip", "zlib", "raw"}

\* compress_buffer(): the parallel pipeline on memory, zlib on memory, or
\* compress() on a temporary file.
CallBuffer ==
  /\ Begin
  /\ \/ InMemory /\ Compress("memory", total')
     \/ /\ Direct
        /\ via' = "memory" /\ spc' = "direct"
        /\ UNCHANGED <<cfg, shift>>
     \/ ~InMemory /\ ~Direct /\ Compress("file", total')

\* parallel_compress keeps the promise of CompressStream or fails, and changes
\* nothing in the Compressor (ParallelCompress). The main thread throws if it cannot
\* write the header or the trailer, and joins for ever if it cannot read; if the
\* write thread cannot write, the program is terminated.
Parallel ==
  /\ spc = "parallel"
  /\ \/ spc' = "returned"
     \/ "write" \in Faults /\ spc' \in {"threw", "terminated"}
     \/ "read" \in Faults /\ via # "memory" /\ spc' = "waits"
  /\ UNCHANGED <<callVars, shift, via, calls, bufferVars, engineVars, outputVars, countVars>>

\* direct_compress: a chunk for zlib, which writes header and trailer itself.
DirectFeed ==
  LET n == Smaller(MaxChunk, total - rd)
  IN /\ At("direct", IF rd + n = total THEN "deflated" ELSE "direct")
     /\ sink' = IF sink = <<>> THEN <<Stream(0)!Header>> ELSE sink
     /\ pending' = pending \o Run(rd, n)
     /\ checkVal' = Checked(checkVal, Run(rd, n))
     /\ rd' = rd + n /\ ulen' = ulen + n
     /\ UNCHANGED <<callVars, shift, via, calls, bufferVars, have, history, out, clen>>

\* Z_FINISH, with all of the input there.
DirectFinish ==
  /\ At("deflated", "zlibTrailer")
  /\ sink' = Append(sink, Block(pending, TRUE))
  /\ clen' = clen + 1 /\ pending' = <<>>
  /\ UNCHANGED <<callVars, shift, via, calls, bufferVars, have, history, out, countVars>>

DirectTrailer ==
  /\ At("zlibTrailer", "returned")
  /\ sink' = Append(sink, Stream(0)!Trailer(ulen, checkVal))
  /\ UNCHANGED <<callVars, shift, via, calls, bufferVars, engineVars, out, clen, countVars>>

Terminated ==
  /\ spc \in {"waits", "terminated"} \/ (Ended /\ calls = MaxCalls)
  /\ UNCHANGED vars

Next ==
  \/ CallCompress \/ CallBuffer \/ Parallel
  \/ DirectFeed \/ DirectFinish \/ DirectTrailer
  \/ Single /\ UNCHANGED <<shift, via, calls>>
  \/ Terminated

Spec == Init /\ [][Next]_vars

\* A call that has begun is carried on with.
FairSpec == Spec /\ WF_vars(~Ended /\ Next)

-------------------------------------------------------------------------------
(* Properties. *)

Positions == Nat \cup {Garbage}

\* Every variable has the type its declaration gives it, and the indices stay
\* in their buffers: no copy or scan in single_compress leaves in or next_buf.
TypeOK ==
  /\ cfg \in [isal : BOOLEAN, level : {6, 11}, rsync : BOOLEAN, setdict : BOOLEAN,
              block : Nat \ {0}, procs : Nat \ {0}, form : Forms]
  /\ spc \in {"returned", "threw", "header", "isal", "init", "first", "data", "scan", "merge",
              "refill", "separate", "feed", "flush", "trailer", "parallel", "direct", "deflated",
              "zlibTrailer", "waits", "terminated"}
  /\ via \in {"file", "pipe", "memory"} /\ calls \in 0 .. MaxCalls /\ shift \in Nat \ {0}
  /\ total \in Nat /\ rd \in 0 .. total /\ ulen \in 0 .. total
  /\ in \in [DOMAIN in -> Positions] /\ nextBuf \in [DOMAIN nextBuf -> Positions]
  /\ got \in Nat /\ nextIn \in Nat /\ more \in Nat /\ start \in Nat /\ left \in Nat
  /\ in # Fresh(0) => nextIn + got + (IF spc \in {"separate", "feed"} THEN left ELSE 0) <= cfg.block
  /\ in # Fresh(0) => start + more <= cfg.block
  /\ have \in Nat /\ history \in 0 .. total /\ clen \in Nat

\* Whatever ends the blocks and wherever the data is copied on the way, and
\* however far the call gets, its output is the stream CompressStream
\* promises, for the input of this call alone.
WritesStream ==
  [][\/ Restart
     \/ \E t \in Inputs : t = total /\ Stream(t)!Next]_(sink \o out)

\* With -i no block refers to another one: the output can be read from any
\* block on (compress.cpp:600-608, 647-648).
Independent ==
  ~cfg.setdict => \A i \in 1 .. Len(sink) :
    sink[i].kind = "block" => sink[i].dictFrom = sink[i].dictTo

\* The compressed length in the trailer, which a zip reader goes by, is what
\* has been written between header and trailer: nothing is left in the buffer
\* and no write is left out (compress.cpp:436-441, 537-542, 694).
ClenCounts == spc = "trailer" => out = <<>> /\ clen = Len(sink) - 1

\* What the ways of compressing rely on: the parallel one that there is more
\* than one thread, that a block fills the window and that shift_, which
\* combines the check values of full blocks, was computed for the block size
\* of this call (compress.cpp:297, 1003); the single one that its input is a
\* descriptor (compress.cpp:303-304, 320).
PathsGrounded ==
  /\ spc = "parallel" => cfg.procs > 1 /\ DictSize <= cfg.block /\ shift = cfg.block
  /\ InSingle => via # "memory"

\* Threads are only started for an input of known size if each one has two
\* blocks to compress, also if the Compressor was used before (compress.cpp:301).
ThreadsBusy ==
  spc = "parallel" /\ via = "file" /\ total > 0 => 2 * cfg.block * cfg.procs <= total

\* No call stays in single_compress or direct_compress for ever, whatever it was called
\* after: the loop that looks for the next boundary (compress.cpp:570-607) cannot go
\* round without taking in data. What a parallel call may wait for is the matter of
\* ParallelCompress: one of its failures leaves it waiting.
LoopsEnd == (InSingle \/ InDirect) ~> Ended

\* Any level that Config documents (config.h:74) compresses any input as long
\* as reading and writing succeed.
LevelsWork == Faults = {} => spc # "threw"
===============================================================================
