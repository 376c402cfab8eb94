--------------------------- MODULE CompressorProofs ---------------------------
(***************************************************************************)
(* What a Compressor's calls do, for any configurations, lengths of the    *)
(* inputs, sizes of the buffers, places where the hash hits and failures:  *)
(* the settings fit the way that is taken, no index leaves its buffer, and *)
(* the output is the stream that CompressStream promises.                  *)
(***************************************************************************)
EXTENDS Compressor, SequenceTheorems, WellFoundedInduction, TLAPS

-------------------------------------------------------------------------------
(* The settings. *)

Settings == [isal : BOOLEAN, level : {6, 11}, rsync : BOOLEAN, setdict : BOOLEAN,
             block : Nat \ {0}, procs : Nat \ {0}, form : Forms]

\* The settings and the way that was chosen for them.
Grounded ==
  /\ cfg \in Settings /\ shift = cfg.block /\ DictSize <= cfg.block
  /\ total \in Nat /\ (~Ended => total \in Inputs)
  /\ via \in {"file", "pipe", "memory"} /\ calls \in 0 .. MaxCalls
  /\ spc = "parallel" => cfg.procs > 1
  /\ InSingle => via # "memory"
  /\ ThreadsBusy

-------------------------------------------------------------------------------
(* What is written. *)

Headers  == [kind : {"header"}]
Blocks   == [kind : {"block"}, from : Nat, to : Nat, dictFrom : Nat, dictTo : Nat, last : BOOLEAN]
Trailers == [kind : {"trailer"}, len : Nat, check : [from : Nat, to : Nat]]

\* What the output may consist of: without a dictionary, independent blocks.
Items == Headers \cup {b \in Blocks : ~cfg.setdict => b.dictFrom = b.dictTo} \cup Trailers

Outputs == sink \in Seq(Items) /\ out \in Seq(Items)

Written == sink \o out

\* The input before p is in the output, more is to come.
Midway(p) ==
  /\ Written # <<>>
  /\ \/ /\ Written[Len(Written)].kind = "header" /\ p = 0
     \/ /\ Written[Len(Written)].kind = "block" /\ Written[Len(Written)].to = p
        /\ Written[Len(Written)].last = FALSE

\* All of the input is, and its length and its check value are known.
Complete ==
  /\ Written # <<>>
  /\ Written[Len(Written)].kind = "block" /\ Written[Len(Written)].last = TRUE
  /\ ulen = total /\ checkVal = Interval(0, total)

\* What clen counts.
Counted == sink # <<>> /\ clen = Len(sink) - 1

-------------------------------------------------------------------------------
(* Where the input is, by the place the call is at. *)

\* One of the calls of single_compress that goes by zlib.
InBlocks == spc \in {"data", "scan", "merge", "refill", "separate", "feed"}

\* The bytes at nextIn, those after the end of the block included.
Held == got + (IF spc \in {"separate", "feed"} THEN left ELSE 0)

\* Nothing has been read or written but the header.
Unstarted ==
  /\ in = Fresh(0) /\ nextBuf = Fresh(0) /\ nextIn = 0 /\ got = 0 /\ more = 0 /\ start = 0
  /\ left = 0 /\ have = 0 /\ pending = <<>> /\ history = 0 /\ out = <<>> /\ clen = 0
  /\ rd = 0 /\ ulen = 0 /\ checkVal = Interval(0, 0)

Headed == sink = <<Stream(0)!Header>>

\* Buffers allocated for blocks.
Allocated == in \in [0 .. cfg.block - 1 -> Positions] /\ nextBuf \in [0 .. cfg.block - 1 -> Positions]

\* Everything read is in the engine, which is at the start of its one block.
Streaming ==
  /\ pending = Run(0, rd) /\ checkVal = Interval(0, rd)
  /\ history = 0 /\ out = <<>> /\ clen = 0

Before ==
  /\ spc \in {"header", "parallel"} => Unstarted /\ sink = <<>>
  /\ spc = "init" => Unstarted /\ Headed
  /\ spc = "first" =>
       /\ Allocated /\ Headed
       /\ nextIn = 0 /\ got = 0 /\ more = 0 /\ start = 0 /\ left = 0 /\ have = 0
       /\ pending = <<>> /\ history = 0 /\ out = <<>> /\ clen = 0
       /\ rd = 0 /\ checkVal = Interval(0, 0)
  /\ spc = "isal" => Streaming /\ Headed
  /\ spc = "direct" => Streaming /\ (Headed \/ (rd = 0 /\ sink = <<>>))
  /\ spc = "deflated" => Streaming /\ Headed /\ rd = total

\* The input follows on from the check value to nextIn, to nextBuf and to
\* what has not been read yet.
Buffered ==
  /\ Allocated
  /\ checkVal \in [from : {0}, to : Nat]
  /\ nextIn + Held <= cfg.block /\ start + more <= cfg.block
  /\ \A i \in 0 .. Held - 1 : in[nextIn + i] = checkVal.to + i
  /\ \A i \in 0 .. more - 1 : nextBuf[start + i] = checkVal.to + Held + i
  /\ checkVal.to + Held + more = rd
  /\ more = 0 /\ spc # "refill" => rd = total

\* Where the block begins that the engine is given.
BlockStart == checkVal.to - Len(pending)

\* What the engine has been given since the last block follows on from it.
Engaged ==
  /\ Len(pending) \in Nat /\ BlockStart \in Nat
  /\ pending = Run(BlockStart, Len(pending))
  /\ spc # "feed" => pending = <<>>
  /\ history \in 0 .. BlockStart /\ (~cfg.setdict => history = BlockStart)
  /\ Midway(BlockStart)

\* A block is never empty but for an empty input.
Working ==
  /\ spc = "data" => checkVal.to < total \/ total = 0
  /\ spc \in {"scan", "merge", "refill"} => got > 0
  /\ spc \in {"scan", "refill"} => left <= got
  /\ spc = "merge" => left = 0 /\ more > 0 /\ got < cfg.block
  /\ spc = "refill" => more = 0
  /\ spc \in {"separate", "feed"} => got > 0 \/ total = 0

After ==
  /\ spc \in {"flush", "trailer", "zlibTrailer"} => Complete
  /\ spc \in {"trailer", "zlibTrailer"} => out = <<>>

\* Indices and counts, wherever the call is.
Bounds ==
  /\ rd \in 0 .. total /\ ulen = rd
  /\ in \in [DOMAIN in -> Positions] /\ nextBuf \in [DOMAIN nextBuf -> Positions]
  /\ got \in Nat /\ nextIn \in Nat /\ more \in Nat /\ start \in Nat /\ left \in Nat
  /\ in # Fresh(0) => nextIn + Held <= cfg.block /\ start + more <= cfg.block
  /\ have \in Nat /\ history \in 0 .. total /\ clen \in Nat
  /\ spc \in {"isal", "first", "flush", "trailer"} \/ InBlocks => Counted

Places ==
  spc \in {"returned", "threw", "header", "isal", "init", "first", "data", "scan", "merge",
           "refill", "separate", "feed", "flush", "trailer", "parallel", "direct", "deflated",
           "zlibTrailer", "waits", "terminated"}

DataInv ==
  /\ Places /\ Outputs /\ Bounds /\ Before /\ After
  /\ InBlocks => Buffered /\ Engaged /\ Working

CompInv == Grounded /\ DataInv

-------------------------------------------------------------------------------
(* Numbers, and the block that fits. *)

\* A set of natural numbers that is not empty has a least element.
LEMMA NatLeast ==
  ASSUME NEW T \in SUBSET Nat, T # {}
  PROVE  \E n \in T : \A m \in T : n <= m
<1>1. IsWellFoundedOn(OpToRel(<, Nat), Nat)  BY NatLessThanWellFounded
<1>2. PICK n \in T : \A m \in Nat : <<m, n>> \in OpToRel(<, Nat) => m \notin T
  BY <1>1, WFMin
<1>3. \A m \in T : ~(m < n)  BY <1>2 DEF OpToRel
<1> QED  BY <1>3

\* So a bounded set of numbers has a greatest one.
LEMMA MaxOf ==
  ASSUME NEW hi \in Nat, NEW S \in SUBSET (0 .. hi), S # {}
  PROVE  Max(S) \in S
<1> DEFINE T == {hi - x : x \in S}
<1>1. T \in SUBSET Nat /\ T # {}
  <2>1. \A x \in S : hi - x \in Nat  OBVIOUS
  <2>2. T \subseteq Nat  BY <2>1
  <2>3. PICK x \in S : TRUE  OBVIOUS
  <2>4. hi - x \in T  BY <2>3
  <2> QED  BY <2>2, <2>4
<1>2. PICK n \in T : \A m \in T : n <= m
  <2> HIDE DEF T
  <2> QED  BY <1>1, NatLeast
<1>3. PICK x \in S : n = hi - x  BY <1>2
<1>4. \A y \in S : x >= y
  <2> SUFFICES ASSUME NEW y \in S PROVE x >= y  OBVIOUS
  <2>1. hi - y \in T  OBVIOUS
  <2>2. hi - x <= hi - y  BY <1>2, <1>3, <2>1
  <2> QED  BY <2>2
<1>5. \E z \in S : \A y \in S : z >= y  BY <1>4
<1> QED  BY <1>5 DEF Max

LEMMA FitsItself ==
  ASSUME NEW size \in Int, NEW procs \in Nat, cfg.procs = procs
  PROVE  /\ FittingBlock(size) \in Nat \ {0} /\ DictSize <= FittingBlock(size)
<1>1. CASE size > 0
  <2> DEFINE S == {b \in BlockSizes : b = DefaultBlock \/ size \div b >= 4 * cfg.procs}
  <2>1. S \in SUBSET (0 .. LargestBlock) /\ S # {} /\ LargestBlock \in Nat
    <3>1. DefaultBlock \in S  BY BlocksAssumption
    <3>2. S \subseteq DefaultBlock .. LargestBlock  BY BlocksAssumption
    <3>3. \A x \in DefaultBlock .. LargestBlock : x \in 0 .. LargestBlock  BY BlocksAssumption
    <3> HIDE DEF S
    <3> QED  BY <3>1, <3>2, <3>3, BlocksAssumption
  <2>2. Max(S) \in S
    <3> HIDE DEF S
    <3> QED  BY <2>1, MaxOf
  <2>3. FittingBlock(size) = Max(S)  BY <1>1 DEF FittingBlock
  <2>4. Max(S) \in DefaultBlock .. LargestBlock  BY <2>2, BlocksAssumption
  <2> QED  BY <2>3, <2>4, BlocksAssumption, SizesAssumption
<1>2. CASE ~(size > 0)
  <2>1. FittingBlock(size) = LargestBlock \div 2  BY <1>2 DEF FittingBlock
  <2>2. LargestBlock \div 2 \in DefaultBlock .. LargestBlock  BY BlocksAssumption
  <2> QED  BY <2>1, <2>2, BlocksAssumption, SizesAssumption
<1> QED  BY <1>1, <1>2

\* Every thread that is left has two blocks.
LEMMA CappedIs ==
  ASSUME NEW source \in {"file", "pipe", "memory"}, NEW size \in Int,
         NEW block \in Nat \ {0}, NEW procs \in Nat \ {0}, cfg.procs = procs
  PROVE  /\ Capped(source, size, block) \in 1 .. procs
         /\ source = "memory" => Capped(source, size, block) = procs
         /\ Capped(source, size, block) > 1 /\ source # "memory" /\ size > 0
              => 2 * block * Capped(source, size, block) <= size
<1> DEFINE u == size \div (block * 2)
<1>1. block * 2 \in Nat \ {0} /\ u \in Int  OBVIOUS
<1>2. CASE procs > 1 /\ source # "memory" /\ size > 0
  <2>1. Capped(source, size, block) = Smaller(procs, Larger(1, u))  BY <1>2 DEF Capped
  <2>2. Capped(source, size, block) \in 1 .. procs
    <3> HIDE DEF u
    <3> QED  BY <2>1, <1>1, <1>2 DEF Smaller, Larger
  <2>3. Capped(source, size, block) > 1 => Capped(source, size, block) <= u
    <3> HIDE DEF u
    <3> QED  BY <2>1, <1>1, <1>2 DEF Smaller, Larger
  <2>4. ASSUME NEW p \in Nat, p <= u PROVE 2 * block * p <= size
    BY <2>4, <1>2
  <2> QED  BY <2>2, <2>3, <2>4, <1>2
<1>3. CASE ~(procs > 1 /\ source # "memory" /\ size > 0)
  BY <1>3 DEF Capped
<1> QED  BY <1>2, <1>3

-------------------------------------------------------------------------------
(* Data. *)

LEMMA RestIs ==
  ASSUME NEW size \in Nat \ {0}, total \in Nat, rd \in 0 .. total
  PROVE  /\ Rest(size) \in 0 .. size /\ rd + Rest(size) \in 0 .. total
         /\ Rest(size) < size => rd + Rest(size) = total
BY DEF Rest, Smaller

LEMMA RunIs ==
  ASSUME NEW p \in Int, NEW n \in Nat
  PROVE  /\ Run(p, n) \in Seq(Int) /\ Len(Run(p, n)) = n
         /\ \A i \in 1 .. n : Run(p, n)[i] = p + i - 1
         /\ n = 0 => Run(p, n) = <<>>
BY DEF Run

LEMMA RunJoin ==
  ASSUME NEW p \in Int, NEW n \in Nat, NEW m \in Nat
  PROVE  Run(p, n) \o Run(p + n, m) = Run(p, n + m)
<1> DEFINE a == Run(p, n)
           b == Run(p + n, m)
           c == Run(p, n + m)
<1>1. a \in Seq(Int) /\ Len(a) = n /\ \A i \in 1 .. n : a[i] = p + i - 1  BY RunIs
<1>2. b \in Seq(Int) /\ Len(b) = m /\ \A i \in 1 .. m : b[i] = p + n + i - 1  BY RunIs
<1>3. c \in Seq(Int) /\ Len(c) = n + m /\ \A i \in 1 .. n + m : c[i] = p + i - 1  BY RunIs
<1> HIDE DEF a, b, c
<1>4. /\ a \o b \in Seq(Int) /\ Len(a \o b) = n + m
      /\ \A i \in 1 .. n + m : (a \o b)[i] = IF i <= n THEN a[i] ELSE b[i - n]
  BY <1>1, <1>2, ConcatProperties
<1>5. ASSUME NEW i \in 1 .. n + m PROVE (a \o b)[i] = p + i - 1
  <2>1. CASE i <= n
    <3>1. i \in 1 .. n  BY <2>1
    <3>2. a[i] = p + i - 1  BY <1>1, <3>1
    <3>3. (a \o b)[i] = a[i]  BY <1>4, <2>1
    <3> QED  BY <3>2, <3>3
  <2>2. CASE i > n
    <3>1. i - n \in 1 .. m  BY <2>2
    <3>2. b[i - n] = p + n + (i - n) - 1  BY <1>2, <3>1
    <3>3. (a \o b)[i] = b[i - n]  BY <1>4, <2>2
    <3>4. p + n + (i - n) - 1 = p + i - 1  OBVIOUS
    <3> QED  BY <3>2, <3>3, <3>4
  <2>3. i <= n \/ i > n  OBVIOUS
  <2> QED  BY <2>1, <2>2, <2>3, Zenon
<1>6. a \o b = c
  <2>1. \A i \in 1 .. Len(c) : (a \o b)[i] = c[i]  BY <1>3, <1>5
  <2>2. Len(a \o b) = Len(c)  BY <1>3, <1>4
  <2> QED  BY <1>3, <1>4, <2>1, <2>2, SeqEqual
<1> QED  BY <1>6 DEF a, b, c

LEMMA CheckedRun ==
  ASSUME NEW c \in Nat, NEW n \in Nat
  PROVE  Checked(Interval(0, c), Run(c, n)) = Interval(0, c + n)
<1> DEFINE d == Run(c, n)
           v == Interval(0, c)
<1>1. v.from = 0 /\ v.to = c  BY DEF Interval
<1>2. Len(d) = n  BY RunIs
<1>3. d = Run(v.to, Len(d))  BY <1>1, <1>2
<1> HIDE DEF d, v
<1>4. Checked(v, d) = Interval(v.from, v.to + Len(d))  BY <1>3 DEF Checked
<1> QED  BY <1>1, <1>2, <1>4 DEF d, v

\* Data in order makes a block that begins where it begins.
LEMMA BlockOf ==
  ASSUME NEW p \in Nat, NEW n \in Nat, NEW last \in BOOLEAN, history \in 0 .. p
  PROVE  LET from == IF n = 0 THEN 0 ELSE p
             h    == IF n = 0 THEN 0 ELSE Larger(history, p - DictSize)
         IN /\ Block(Run(p, n), last) =
                 [kind |-> "block", from |-> from, to |-> from + n,
                  dictFrom |-> h, dictTo |-> from, last |-> last]
            /\ h \in 0 .. from
            /\ history = p => h = from
<1>1. CASE n = 0
  <2>1. Run(p, n) = <<>>  BY <1>1, RunIs
  <2> QED  BY <1>1, <2>1 DEF Block, Stream!Deflated
<1>2. CASE n # 0
  <2> DEFINE d == Run(p, n)
  <2>1. d # <<>> /\ d[1] = p /\ Len(d) = n
    <3>1. Len(d) = n /\ \A i \in 1 .. n : d[i] = p + i - 1  BY RunIs
    <3> HIDE DEF d
    <3> QED  BY <1>2, <3>1
  <2>2. d = Run(d[1], Len(d))  BY <2>1
  <2> HIDE DEF d
  <2>3. Block(d, last) = Stream(0)!Deflated(p, p + n, Larger(history, p - DictSize), p, last)
    BY <2>1, <2>2 DEF Block
  <2>4. Larger(history, p - DictSize) \in 0 .. p /\ (history = p => Larger(history, p - DictSize) = p)
    BY SizesAssumption DEF Larger
  <2> QED  BY <1>2, <2>3, <2>4 DEF d, Stream!Deflated
<1> QED  BY <1>1, <1>2

\* Data that lies in order in a buffer.
InOrder(b, at, c, n) == \A i \in 0 .. n - 1 : b[at + i] = c + i

LEMMA SliceIs ==
  ASSUME NEW b, NEW at \in Nat, NEW c \in Int, NEW n \in Nat, InOrder(b, at, c, n)
  PROVE  Slice(b, at, n) = Run(c, n)
<1>1. \A i \in 1 .. n : b[at + i - 1] = c + i - 1
  <2> SUFFICES ASSUME NEW i \in 1 .. n PROVE b[at + i - 1] = c + i - 1  OBVIOUS
  <2>1. i - 1 \in 0 .. n - 1  OBVIOUS
  <2>2. b[at + (i - 1)] = c + (i - 1)  BY <2>1 DEF InOrder
  <2>3. at + (i - 1) = at + i - 1 /\ c + (i - 1) = c + i - 1  OBVIOUS
  <2> QED  BY <2>2, <2>3
<1> QED  BY <1>1 DEF Slice, Run

\* A copy of n values into a buffer.
LEMMA CopyIs ==
  ASSUME NEW size \in Nat, NEW b \in [0 .. size - 1 -> Positions], NEW to \in Nat, NEW n \in Nat,
         NEW f, to + n <= size, \A i \in 0 .. n - 1 : f[i] \in Positions
  PROVE  /\ Copy(b, to, n, f) \in [0 .. size - 1 -> Positions]
         /\ \A i \in 0 .. n - 1 : Copy(b, to, n, f)[to + i] = f[i]
         /\ \A i \in 0 .. to - 1 : Copy(b, to, n, f)[i] = b[i]
<1> DEFINE g == Copy(b, to, n, f)
<1>1. g = [i \in 0 .. size - 1 |-> IF i \in to .. to + n - 1 THEN f[i - to] ELSE b[i]]
  BY DEF Copy
<1>2. \A i \in 0 .. size - 1 : g[i] = IF i \in to .. to + n - 1 THEN f[i - to] ELSE b[i]
  BY <1>1
<1>3. \A i \in 0 .. size - 1 : g[i] \in Positions
  <2> SUFFICES ASSUME NEW i \in 0 .. size - 1 PROVE g[i] \in Positions  OBVIOUS
  <2> HIDE DEF g
  <2>1. CASE i \in to .. to + n - 1
    <3>1. i - to \in 0 .. n - 1  BY <2>1
    <3> QED  BY <1>2, <2>1, <3>1
  <2>2. CASE i \notin to .. to + n - 1
    BY <1>2, <2>2
  <2> QED  BY <2>1, <2>2
<1>4. ASSUME NEW i \in 0 .. n - 1 PROVE g[to + i] = f[i]
  <2>1. to + i \in 0 .. size - 1 /\ to + i \in to .. to + n - 1 /\ to + i - to = i  OBVIOUS
  <2> HIDE DEF g
  <2> QED  BY <1>2, <2>1
<1>5. ASSUME NEW i \in 0 .. to - 1 PROVE g[i] = b[i]
  <2>1. i \in 0 .. size - 1 /\ i \notin to .. to + n - 1  OBVIOUS
  <2> HIDE DEF g
  <2> QED  BY <1>2, <2>1
<1>6. g \in [0 .. size - 1 -> Positions]
  <2> HIDE DEF g
  <2>1. g = [i \in 0 .. size - 1 |-> g[i]]  BY <1>1
  <2> QED  BY <1>3, <2>1
<1> QED  BY <1>4, <1>5, <1>6

\* What is moved to the front of a buffer is there.
LEMMA CopyFront ==
  ASSUME NEW size \in Nat, NEW b \in [0 .. size - 1 -> Positions], NEW n \in Nat,
         NEW f, n <= size, \A i \in 0 .. n - 1 : f[i] \in Positions
  PROVE  /\ Copy(b, 0, n, f) \in [0 .. size - 1 -> Positions]
         /\ \A i \in 0 .. n - 1 : Copy(b, 0, n, f)[i] = f[i]
<1> DEFINE g == Copy(b, 0, n, f)
<1>1. 0 \in Nat /\ 0 + n <= size  OBVIOUS
<1>2. /\ g \in [0 .. size - 1 -> Positions]
      /\ \A i \in 0 .. n - 1 : g[0 + i] = f[i]
  BY <1>1, CopyIs
<1> HIDE DEF g
<1>3. \A i \in 0 .. n - 1 : 0 + i = i  OBVIOUS
<1>4. \A i \in 0 .. n - 1 : g[i] = f[i]  BY <1>2, <1>3
<1> QED  BY <1>2, <1>4 DEF g

\* What a read of a block leaves in the buffer.
LEMMA InputIs ==
  ASSUME NEW size \in Nat \ {0}, NEW b \in [0 .. size - 1 -> Positions],
         total \in Nat, rd \in 0 .. total
  PROVE  /\ Input(b, size) \in [0 .. size - 1 -> Positions]
         /\ \A i \in 0 .. Rest(size) - 1 : Input(b, size)[i] = rd + i
<1> DEFINE f == [i \in 0 .. size - 1 |-> rd + i]
<1>1. Rest(size) \in 0 .. size  BY RestIs
<1>2. \A i \in 0 .. Rest(size) - 1 : f[i] = rd + i /\ f[i] \in Positions
  <2> SUFFICES ASSUME NEW i \in 0 .. Rest(size) - 1 PROVE f[i] = rd + i /\ f[i] \in Positions
    OBVIOUS
  <2>1. i \in 0 .. size - 1  BY <1>1
  <2> QED  BY <2>1 DEF Positions
<1> HIDE DEF f
<1>3. /\ Copy(b, 0, Rest(size), f) \in [0 .. size - 1 -> Positions]
      /\ \A i \in 0 .. Rest(size) - 1 : Copy(b, 0, Rest(size), f)[0 + i] = f[i]
  <2>1. 0 + Rest(size) <= size /\ Rest(size) \in Nat  BY <1>1
  <2> QED  BY <1>2, <2>1, CopyIs
<1>4. Input(b, size) = Copy(b, 0, Rest(size), f)  BY DEF Input, f
<1>5. \A i \in 0 .. Rest(size) - 1 : 0 + i = i  BY <1>1
<1> QED  BY <1>2, <1>3, <1>4, <1>5

-------------------------------------------------------------------------------
(* Output. *)

LEMMA ItemsAre ==
  /\ Stream(0)!Header \in Items
  /\ Stream(0)!Header.kind = "header"
  /\ \A n \in Nat, c \in Nat :
       /\ Stream(0)!Trailer(n, Interval(0, c)) \in Items
       /\ Stream(0)!Trailer(n, Interval(0, c)).kind = "trailer"
BY DEF Items, Headers, Blocks, Trailers, Stream!Header, Stream!Trailer, Interval

\* A block that refers to nothing before it unless there is a dictionary.
LEMMA BlockIsItem ==
  ASSUME NEW p \in Nat, NEW n \in Nat, NEW last \in BOOLEAN,
         cfg.setdict \in BOOLEAN, history \in 0 .. p, ~cfg.setdict => history = p
  PROVE  Block(Run(p, n), last) \in Items
<1> DEFINE from == IF n = 0 THEN 0 ELSE p
           h    == IF n = 0 THEN 0 ELSE Larger(history, p - DictSize)
           b    == [kind |-> "block", from |-> from, to |-> from + n,
                    dictFrom |-> h, dictTo |-> from, last |-> last]
<1>1. Block(Run(p, n), last) = b /\ h \in 0 .. from /\ (history = p => h = from)
  BY BlockOf
<1>2. from \in Nat /\ from + n \in Nat  OBVIOUS
<1> HIDE DEF from, h
<1>3. b \in Blocks  BY <1>1, <1>2 DEF Blocks
<1>4. ~cfg.setdict => b.dictFrom = b.dictTo  BY <1>1
<1> QED  BY <1>1, <1>3, <1>4 DEF Items

\* What writing an item, flushing the buffer and leaving blocks to it do.
LEMMA Appended ==
  ASSUME Outputs, NEW item, item \in Items, sink' = Append(sink, item), out' = out,
         out = <<>>, cfg' = cfg
  PROVE  /\ Outputs' /\ Written' = Append(Written, item)
         /\ Written' # <<>> /\ Written'[Len(Written')] = item
         /\ sink' # <<>> /\ Len(sink') = Len(sink) + 1
<1>1. Items' = Items  BY DEF Items
<1>2. /\ Append(sink, item) \in Seq(Items) /\ Append(sink, item) # <<>>
      /\ Len(Append(sink, item)) = Len(sink) + 1
      /\ Append(sink, item)[Len(sink) + 1] = item
  BY AppendProperties DEF Outputs
<1>3. Written = sink /\ Written' = sink'  BY <1>2, ConcatEmptySeq DEF Outputs, Written
<1> QED  BY <1>1, <1>2, <1>3 DEF Outputs

LEMMA Flushed ==
  ASSUME Outputs, FlushOutput, cfg' = cfg, clen \in Nat
  PROVE  /\ Outputs' /\ Written' = Written /\ out' = <<>> /\ clen' \in Nat
         /\ Counted => Counted'
<1>1. Items' = Items  BY DEF Items
<1>2. sink' = sink \o out /\ out' = <<>> /\ clen' = clen + Len(out)  BY DEF FlushOutput
<1>3. /\ sink \o out \in Seq(Items) /\ Len(sink \o out) = Len(sink) + Len(out)
      /\ Len(sink) \in Nat /\ Len(out) \in Nat
  BY ConcatProperties, LenProperties DEF Outputs
<1>4. Written' = sink' \o <<>> /\ sink' = Written  BY <1>2 DEF Written
<1>5. (sink \o out) \o <<>> = sink \o out  BY <1>3, ConcatEmptySeq
<1>6. sink # <<>> => Len(sink \o out) # 0
  <2>1. sink # <<>> => Len(sink) # 0  BY EmptySeq DEF Outputs
  <2> QED  BY <1>3, <2>1
<1>7. <<>> \in Seq(Items)  OBVIOUS
<1>8. Counted => Counted'
  BY <1>2, <1>3, <1>6 DEF Counted
<1> QED  BY <1>1, <1>2, <1>3, <1>4, <1>5, <1>7, <1>8 DEF Outputs

LEMMA Emitted ==
  ASSUME Outputs, NEW blocks \in Seq(Items), Emit(blocks), cfg' = cfg, clen \in Nat
  PROVE  /\ Outputs' /\ Written' = Written \o blocks /\ clen' \in Nat
         /\ Counted => Counted'
<1>1. Items' = Items  BY DEF Items
<1>2. /\ sink \o out \in Seq(Items) /\ Len(sink \o out) = Len(sink) + Len(out)
      /\ out \o blocks \in Seq(Items)
      /\ Len(sink) \in Nat /\ Len(out) \in Nat /\ Len(blocks) \in Nat
  BY ConcatProperties, LenProperties DEF Outputs
<1>3. /\ sink \o (out \o blocks) = (sink \o out) \o blocks
      /\ (sink \o out) \o blocks \in Seq(Items)
      /\ Len((sink \o out) \o blocks) = Len(sink) + Len(out) + Len(blocks)
  BY <1>2, ConcatAssociative, ConcatProperties DEF Outputs
<1>4. CASE out' = out \o blocks /\ sink' = sink /\ clen' = clen
  BY <1>1, <1>2, <1>3, <1>4 DEF Outputs, Written, Counted
<1>5. CASE sink' = sink \o out \o blocks /\ out' = <<>> /\ clen' = clen + Len(out) + Len(blocks)
  <2>1. (sink \o out \o blocks) \o <<>> = sink \o out \o blocks  BY <1>3, ConcatEmptySeq
  <2>2. sink # <<>> => Len(sink) # 0  BY EmptySeq DEF Outputs
  <2>3. sink # <<>> => sink' # <<>>
    <3>1. sink # <<>> => Len(sink') # 0  BY <1>2, <1>3, <1>5, <2>2
    <3> QED  BY <3>1
  <2>4. Counted => Counted'  BY <1>2, <1>3, <1>5, <2>3 DEF Counted
  <2>5. <<>> \in Seq(Items)  OBVIOUS
  <2> QED  BY <1>1, <1>2, <1>3, <1>5, <2>1, <2>4, <2>5 DEF Outputs, Written
<1> QED  BY <1>4, <1>5 DEF Emit

LEMMA EmittedNothing ==
  ASSUME Outputs, Emit(<<>>), cfg' = cfg, clen \in Nat
  PROVE  /\ Outputs' /\ Written' = Written /\ clen' \in Nat
         /\ Counted => Counted'
<1>1. <<>> \in Seq(Items)  OBVIOUS
<1>2. Written \in Seq(Items)  BY ConcatProperties DEF Outputs, Written
<1>3. Written \o <<>> = Written  BY <1>2, ConcatEmptySeq
<1> QED  BY <1>1, <1>3, Emitted

LEMMA EmittedOne ==
  ASSUME Outputs, NEW b, b \in Items, Emit(<<b>>), cfg' = cfg, clen \in Nat
  PROVE  /\ Outputs' /\ Written' = Append(Written, b) /\ clen' \in Nat
         /\ Written' # <<>> /\ Written'[Len(Written')] = b
         /\ Counted => Counted'
<1>1. <<b>> \in Seq(Items)  OBVIOUS
<1>2. Written \in Seq(Items)  BY ConcatProperties DEF Outputs, Written
<1>3. Written \o <<b>> = Append(Written, b)  BY <1>2, AppendIsConcat
<1>4. /\ Append(Written, b) # <<>> /\ Len(Append(Written, b)) = Len(Written) + 1
      /\ Append(Written, b)[Len(Written) + 1] = b
  BY <1>2, AppendProperties
<1> QED  BY <1>1, <1>3, <1>4, Emitted

-------------------------------------------------------------------------------
(* The settings stay grounded. *)

LEMMA CompressGrounded ==
  ASSUME Grounded, NEW source \in {"file", "pipe", "memory"}, source = "memory" => cfg.procs > 1,
         total' \in Inputs, calls' \in 0 .. MaxCalls, Compress(source, total')
  PROVE  Grounded'
<1> DEFINE size  == SizeOf(source, total')
           block == IF Adapts THEN FittingBlock(size) ELSE cfg.block
           procs == Capped(source, size, block)
<1>1. total' \in Nat /\ size \in Int /\ (source = "file" => size = total')
  BY InputsAssumption DEF SizeOf
<1>2. cfg \in Settings /\ cfg.block \in Nat \ {0} /\ cfg.procs \in Nat \ {0}
  BY DEF Grounded, Settings
<1>3. block \in Nat \ {0} /\ DictSize <= block
  <2>1. FittingBlock(size) \in Nat \ {0} /\ DictSize <= FittingBlock(size)
    <3> HIDE DEF size
    <3> QED  BY <1>1, <1>2, FitsItself
  <2> QED  BY <1>2, <2>1 DEF Grounded
<1>4. /\ procs \in 1 .. cfg.procs /\ (source = "memory" => procs = cfg.procs)
      /\ procs > 1 /\ source # "memory" /\ size > 0 => 2 * block * procs <= size
  <2> HIDE DEF size, block
  <2> QED  BY <1>1, <1>2, <1>3, CappedIs
<1>5. /\ via' = source /\ cfg' = [cfg EXCEPT !.block = block, !.procs = procs]
      /\ shift' = ShiftAfter(block) /\ spc' = IF procs > 1 THEN "parallel" ELSE "header"
  BY DEF Compress
<1>6. Adapts \/ block = cfg.block  OBVIOUS
<1>7. shift' = block  BY <1>5, <1>6 DEF Grounded, ShiftAfter
<1> HIDE DEF size, block, procs
<1>8. cfg' \in Settings /\ cfg'.block = block /\ cfg'.procs = procs
  <2>1. procs \in Nat \ {0}  BY <1>2, <1>4
  <2>2. cfg' \in Settings  BY <1>2, <1>3, <1>5, <2>1 DEF Settings
  <2>3. cfg'.block = block /\ cfg'.procs = procs  BY <1>2, <1>5 DEF Settings
  <2> QED  BY <2>2, <2>3
<1>9. InSingle' => via' # "memory"
  BY <1>2, <1>4, <1>5 DEF InSingle
<1>10. ThreadsBusy'
  BY <1>1, <1>4, <1>5, <1>8 DEF ThreadsBusy
<1>11. spc' = "parallel" => cfg'.procs > 1
  BY <1>5, <1>8
<1> QED  BY <1>1, <1>3, <1>5, <1>7, <1>8, <1>9, <1>10, <1>11 DEF Grounded

\* Where the actions of single_compress can be taken and lead.
LEMMA SinglePlaces ==
  ASSUME Single
  PROVE  InSingle /\ (InSingle' \/ Ended') /\ UNCHANGED callVars
BY DEF Single, WriteHeader, IsalRead, InitEngine, ReadFirst, GetData, ScanHit, ScanMiss, Merge,
  Refill, Separate, FeedPiece, Feed, Flush, WriteTrailer, ReadError, WriteError, At, InSingle,
  Ended, callVars

LEMMA GroundedStep ==
  ASSUME CompInv, Next
  PROVE  Grounded'
<1> USE DEF CompInv
<1>1. ASSUME Begin PROVE total' \in Inputs /\ calls' \in 0 .. MaxCalls
  BY <1>1, BoundsAssumption DEF Begin, Grounded
<1>2. CASE CallCompress
  BY <1>1, <1>2, CompressGrounded DEF CallCompress
<1>3. CASE CallBuffer
  <2>1. total' \in Inputs /\ calls' \in 0 .. MaxCalls /\ total' \in Nat
    BY <1>1, <1>3, InputsAssumption DEF CallBuffer
  <2>2. CASE InMemory /\ Compress("memory", total')
    BY <2>1, <2>2, CompressGrounded DEF InMemory
  <2>3. CASE via' = "memory" /\ spc' = "direct" /\ UNCHANGED <<cfg, shift>>
    BY <2>1, <2>3 DEF Grounded, InSingle, ThreadsBusy
  <2>4. CASE Compress("file", total')
    BY <2>1, <2>4, CompressGrounded
  <2> QED  BY <1>3, <2>2, <2>3, <2>4 DEF CallBuffer
<1>4. CASE Parallel \/ DirectFeed \/ DirectFinish \/ DirectTrailer
  <2>1. UNCHANGED <<cfg, total, shift, via, calls>> /\ ~Ended
    BY <1>4 DEF Parallel, DirectFeed, DirectFinish, DirectTrailer, callVars, At, Ended
  <2>2. ~InSingle' /\ spc' # "parallel"
    BY <1>4 DEF Parallel, DirectFeed, DirectFinish, DirectTrailer, At, InSingle
  <2> QED  BY <2>1, <2>2 DEF Grounded, ThreadsBusy
<1>5. CASE Single /\ UNCHANGED <<shift, via, calls>>
  <2>1. UNCHANGED <<cfg, total, shift, via, calls>> /\ InSingle /\ (InSingle' \/ Ended')
    BY <1>5, SinglePlaces DEF callVars
  <2>2. ~Ended /\ spc' # "parallel"
    BY <2>1 DEF InSingle, Ended
  <2> QED  BY <2>1, <2>2 DEF Grounded, ThreadsBusy, Ended
<1>6. CASE Terminated
  BY <1>6 DEF Terminated, vars, singleVars, callVars, Grounded, Ended, InSingle, ThreadsBusy
<1> QED  BY <1>2, <1>3, <1>4, <1>5, <1>6 DEF Next

-------------------------------------------------------------------------------
(* The start of a call. *)

LEMMA StartData ==
  ASSUME total' \in Nat, spc' \in {"parallel", "header", "direct"}, Restart
  PROVE  DataInv'
<1> USE DEF Restart
<1>1. Places' /\ ~InBlocks'  BY DEF Places, InBlocks
<1>2. Outputs'  BY DEF Outputs
<1>3. Bounds'
  <2>1. in' = Fresh(0) /\ nextBuf' = Fresh(0)  OBVIOUS
  <2>2. Fresh(0) \in [DOMAIN Fresh(0) -> Positions]  BY DEF Fresh
  <2>3. in' \in [DOMAIN in' -> Positions] /\ nextBuf' \in [DOMAIN nextBuf' -> Positions]
    BY <2>1, <2>2
  <2> QED  BY <1>1, <2>1, <2>3 DEF Bounds, InBlocks
<1>4. Before'
  <2>1. Unstarted' /\ sink' = <<>>  BY DEF Unstarted
  <2>2. Streaming'  BY RunIs DEF Streaming
  <2> QED  BY <2>1, <2>2 DEF Before
<1>5. After'  BY DEF After
<1> QED  BY <1>1, <1>2, <1>3, <1>4, <1>5 DEF DataInv

\* The object as it was constructed.
LEMMA InitInv == Init => CompInv
<1> SUFFICES ASSUME Init PROVE CompInv  OBVIOUS
<1> USE DEF Init, Idle
<1>1. PICK c \in Configs : cfg = c  OBVIOUS
<1>2. cfg \in Settings /\ DictSize <= cfg.block
  BY <1>1, ConfigsAssumption, WindowAssumption DEF Settings
<1>3. Grounded
  BY <1>2, BoundsAssumption DEF Grounded, Ended, InSingle, ThreadsBusy
<1>4. Places /\ ~InBlocks  BY DEF Places, InBlocks
<1>5. Outputs  BY DEF Outputs
<1>6. Bounds
  <2>1. in = Fresh(0) /\ nextBuf = Fresh(0)  OBVIOUS
  <2>2. Fresh(0) \in [DOMAIN Fresh(0) -> Positions]  BY DEF Fresh
  <2>3. in \in [DOMAIN in -> Positions] /\ nextBuf \in [DOMAIN nextBuf -> Positions]
    BY <2>1, <2>2
  <2> QED  BY <1>4, <2>1, <2>3 DEF Bounds, InBlocks
<1>7. Before /\ After  BY DEF Before, After
<1> QED  BY <1>3, <1>4, <1>5, <1>6, <1>7 DEF CompInv, DataInv

LEMMA WriteHeaderData ==
  ASSUME CompInv, WriteHeader
  PROVE  DataInv'
<1> USE DEF CompInv, DataInv, WriteHeader, At, callVars, bufferVars, engineVars, countVars
<1>1. Unstarted /\ sink = <<>>  BY DEF Before
<1>2. spc' \in {"isal", "init"}  OBVIOUS
<1>3. Places' /\ ~InBlocks'  BY <1>2 DEF Places, InBlocks
<1>4. Outputs'  BY <1>1, ItemsAre, Appended DEF Unstarted
<1>5. sink' = <<Stream(0)!Header>>  BY <1>1
<1>6. Bounds'
  <2>1. Counted'  BY <1>1, <1>5 DEF Counted, Unstarted
  <2> QED  BY <1>1, <1>2, <1>3, <2>1 DEF Bounds, Unstarted, InBlocks, Held
<1>7. Before'
  <2>1. Unstarted'  BY <1>1 DEF Unstarted
  <2>2. Streaming'  BY <2>1, RunIs DEF Streaming, Unstarted
  <2> QED  BY <1>2, <1>5, <2>1, <2>2 DEF Before, Headed
<1>8. After'  BY <1>2 DEF After
<1> QED  BY <1>3, <1>4, <1>6, <1>7, <1>8

LEMMA InitEngineData ==
  ASSUME CompInv, InitEngine
  PROVE  DataInv'
<1> USE DEF CompInv, DataInv, InitEngine, At, callVars, engineVars, outputVars, countVars
<1>1. Unstarted /\ Headed  BY DEF Before
<1>2. spc' \in {"first", "threw"}  OBVIOUS
<1>3. Places' /\ ~InBlocks'  BY <1>2 DEF Places, InBlocks
<1>4. Outputs'
  <2>1. Items' = Items  BY DEF Items
  <2> QED  BY <2>1 DEF Outputs
<1>5. Allocated' /\ cfg.block \in Nat \ {0}
  BY DEF Allocated, Fresh, Positions, Grounded, Settings
<1>6. Bounds'
  <2>1. in' \in [DOMAIN in' -> Positions] /\ nextBuf' \in [DOMAIN nextBuf' -> Positions]
    BY <1>5 DEF Allocated
  <2>2. Counted'  BY <1>1 DEF Counted, Unstarted, Headed
  <2> QED  BY <1>1, <1>2, <1>3, <1>5, <2>1, <2>2 DEF Bounds, Unstarted, InBlocks, Held
<1>7. Before'  BY <1>1, <1>2, <1>5 DEF Before, Headed, Unstarted
<1>8. After'  BY <1>2 DEF After
<1> QED  BY <1>3, <1>4, <1>6, <1>7, <1>8

-------------------------------------------------------------------------------
(* One block for all of the input. *)

\* The engine and the check value take in what is read next.
LEMMA StreamedOn ==
  ASSUME Streaming, total \in Nat, rd \in 0 .. total, NEW n \in Nat
  PROVE  /\ pending \o Run(rd, n) = Run(0, rd + n)
         /\ Checked(checkVal, Run(rd, n)) = Interval(0, rd + n)
<1>1. Run(0, rd) \o Run(0 + rd, n) = Run(0, rd + n) /\ 0 + rd = rd
  <2>1. rd \in Nat /\ 0 \in Int /\ 0 + rd = rd  OBVIOUS
  <2> QED  BY <2>1, RunJoin
<1>2. Checked(Interval(0, rd), Run(rd, n)) = Interval(0, rd + n)  BY CheckedRun
<1> QED  BY <1>1, <1>2 DEF Streaming

\* The block that all of the input makes.
LEMMA WholeBlock ==
  ASSUME history = 0, total \in Nat, cfg \in Settings
  PROVE  LET b == Block(Run(0, total), TRUE)
         IN b \in Items /\ b.kind = "block" /\ b.last = TRUE /\ b.from = 0 /\ b.to = total
              /\ b.dictFrom = 0 /\ b.dictTo = 0
<1> DEFINE b == Block(Run(0, total), TRUE)
           h == IF total = 0 THEN 0 ELSE Larger(history, 0 - DictSize)
           c == [kind |-> "block", from |-> 0, to |-> total,
                 dictFrom |-> 0, dictTo |-> 0, last |-> TRUE]
<1>1. cfg.setdict \in BOOLEAN  BY DEF Settings
<1>2. b \in Items
  <2>1. history \in 0 .. 0 /\ 0 \in Nat /\ TRUE \in BOOLEAN /\ (~cfg.setdict => history = 0)
    OBVIOUS
  <2> QED  BY <1>1, <2>1, BlockIsItem
<1>3. b = c
  <2>1. history = 0 /\ history \in 0 .. 0  OBVIOUS
  <2>2. /\ b = [kind |-> "block", from |-> IF total = 0 THEN 0 ELSE 0,
                to |-> (IF total = 0 THEN 0 ELSE 0) + total,
                dictFrom |-> h, dictTo |-> IF total = 0 THEN 0 ELSE 0, last |-> TRUE]
        /\ h \in 0 .. (IF total = 0 THEN 0 ELSE 0)
    BY <2>1, BlockOf
  <2>3. h = 0 /\ (IF total = 0 THEN 0 ELSE 0) = 0 /\ 0 + total = total  BY <2>2
  <2> HIDE DEF b, h
  <2> QED  BY <2>2, <2>3
<1> HIDE DEF b
<1>4. c.kind = "block" /\ c.last = TRUE /\ c.from = 0 /\ c.to = total /\ c.dictFrom = 0 /\ c.dictTo = 0
  OBVIOUS
<1> QED  BY <1>2, <1>3, <1>4 DEF b

LEMMA IsalReadData ==
  ASSUME CompInv, IsalRead
  PROVE  DataInv'
<1> USE DEF CompInv, DataInv, callVars, bufferVars
<1> DEFINE n == Rest(IoBuf)
           d == Run(rd, n)
<1>1. /\ spc = "isal" /\ UNCHANGED <<cfg, total, in, nextBuf, nextIn, got, more, start, left, have, history>>
      /\ rd' = rd + n /\ ulen' = ulen + n /\ checkVal' = Checked(checkVal, d)
  BY DEF IsalRead
<1>2. Streaming /\ Headed /\ Counted  BY <1>1 DEF Before, Bounds
<1>3. total \in Nat /\ rd \in 0 .. total /\ cfg \in Settings /\ ulen = rd /\ clen \in Nat
  BY DEF Bounds, Grounded
<1>4. n \in Nat /\ rd + n \in 0 .. total /\ (n < IoBuf => rd + n = total)
  BY <1>3, RestIs, SizesAssumption
<1>5. pending \o d = Run(0, rd + n) /\ checkVal' = Interval(0, rd + n)
  <2> HIDE DEF n
  <2> QED  BY <1>1, <1>2, <1>3, <1>4, StreamedOn
<1> HIDE DEF n, d
<1>6. CASE n < IoBuf
  <2>1. /\ Emit(<<Block(pending \o d, TRUE)>>) /\ pending' = <<>> /\ spc' = "flush"
    BY <1>6 DEF IsalRead, n, d
  <2> DEFINE b == Block(pending \o d, TRUE)
  <2>2. b \in Items /\ b.kind = "block" /\ b.last = TRUE
    <3>1. b = Block(Run(0, total), TRUE)  BY <1>4, <1>5, <1>6
    <3> QED  BY <1>2, <1>3, <3>1, WholeBlock DEF Streaming
  <2> HIDE DEF b
  <2>3. Emit(<<b>>)  BY <2>1 DEF b
  <2>4. /\ Outputs' /\ clen' \in Nat /\ Counted'
        /\ Written' # <<>> /\ Written'[Len(Written')] = b
    BY <1>1, <1>2, <1>3, <2>2, <2>3, EmittedOne
  <2>5. Complete'
    BY <1>1, <1>3, <1>4, <1>5, <1>6, <2>2, <2>4 DEF Complete
  <2>6. Places' /\ ~InBlocks' /\ Before' /\ After'
    BY <2>1, <2>5 DEF Places, InBlocks, Before, After
  <2>7. Bounds'
    BY <1>1, <1>3, <1>4, <2>1, <2>4 DEF Bounds, Held, InBlocks
  <2> QED  BY <2>4, <2>6, <2>7
<1>7. CASE ~(n < IoBuf)
  <2>1. pending' = pending \o d /\ UNCHANGED <<out, clen, sink, spc>>
    BY <1>7 DEF IsalRead, outputVars, n, d
  <2>2. Outputs'
    <3>1. Items' = Items  BY <1>1 DEF Items
    <3> QED  BY <2>1, <3>1 DEF Outputs
  <2>3. Streaming' /\ Headed' /\ Counted'
    BY <1>1, <1>2, <1>5, <2>1 DEF Streaming, Headed, Counted
  <2>4. Places' /\ ~InBlocks' /\ Before' /\ After'
    BY <1>1, <2>1, <2>3 DEF Places, InBlocks, Before, After
  <2>5. Bounds'
    BY <1>1, <1>3, <1>4, <2>1, <2>3 DEF Bounds, Held, InBlocks
  <2> QED  BY <2>2, <2>4, <2>5
<1> QED  BY <1>6, <1>7

LEMMA DirectFeedData ==
  ASSUME CompInv, DirectFeed
  PROVE  DataInv'
<1> USE DEF CompInv, DataInv, callVars, bufferVars
<1> DEFINE n == Smaller(MaxChunk, total - rd)
           d == Run(rd, n)
<1>1. /\ spc = "direct" /\ spc' = (IF rd + n = total THEN "deflated" ELSE "direct")
      /\ UNCHANGED <<cfg, total, in, nextBuf, nextIn, got, more, start, left, have, history, out, clen>>
      /\ sink' = (IF sink = <<>> THEN <<Stream(0)!Header>> ELSE sink)
      /\ pending' = pending \o d
      /\ rd' = rd + n /\ ulen' = ulen + n /\ checkVal' = Checked(checkVal, d)
  BY DEF DirectFeed, At
<1>2. Streaming /\ (Headed \/ sink = <<>>)  BY <1>1 DEF Before
<1>3. total \in Nat /\ rd \in 0 .. total /\ ulen = rd
  BY DEF Bounds, Grounded
<1>4. n \in Nat /\ rd + n \in 0 .. total
  BY <1>3, ChunkAssumption DEF Smaller
<1>5. pending \o d = Run(0, rd + n) /\ checkVal' = Interval(0, rd + n)
  <2> HIDE DEF n
  <2> QED  BY <1>1, <1>2, <1>3, <1>4, StreamedOn
<1> HIDE DEF n, d
<1>6. Streaming' /\ Headed'
  BY <1>1, <1>2, <1>5 DEF Streaming, Headed
<1>7. Outputs'
  <2>1. Items' = Items  BY <1>1 DEF Items
  <2>2. <<Stream(0)!Header>> \in Seq(Items)  BY ItemsAre
  <2> QED  BY <1>1, <2>1, <2>2 DEF Outputs
<1>8. Places' /\ ~InBlocks' /\ Before' /\ After'
  BY <1>1, <1>6 DEF Places, InBlocks, Before, After
<1>9. Bounds'
  BY <1>1, <1>3, <1>4 DEF Bounds, Held, InBlocks
<1> QED  BY <1>7, <1>8, <1>9

LEMMA DirectFinishData ==
  ASSUME CompInv, DirectFinish
  PROVE  DataInv'
<1> USE DEF CompInv, DataInv
<1>1. /\ spc = "deflated" /\ spc' = "zlibTrailer" /\ sink' = Append(sink, Block(pending, TRUE))
      /\ clen' = clen + 1 /\ pending' = <<>>
      /\ UNCHANGED <<cfg, total, in, nextBuf, nextIn, got, more, start, left, have, history, out,
                     rd, ulen, checkVal>>
  BY DEF DirectFinish, At, callVars, bufferVars, countVars
<1>2. Streaming /\ Headed /\ rd = total  BY <1>1 DEF Before
<1>3. total \in Nat /\ cfg \in Settings /\ clen \in Nat /\ ulen = rd  BY DEF Bounds, Grounded
<1> DEFINE b == Block(pending, TRUE)
<1>4. b \in Items /\ b.kind = "block" /\ b.last = TRUE
  <2>1. b = Block(Run(0, total), TRUE)  BY <1>2 DEF Streaming
  <2> QED  BY <1>2, <1>3, <2>1, WholeBlock DEF Streaming
<1> HIDE DEF b
<1>5. Outputs' /\ Written' # <<>> /\ Written'[Len(Written')] = b
  BY <1>1, <1>2, <1>4, Appended DEF Streaming, b
<1>6. Complete' /\ out' = <<>>
  BY <1>1, <1>2, <1>3, <1>4, <1>5 DEF Complete, Streaming
<1>7. Places' /\ ~InBlocks' /\ Before' /\ After'
  BY <1>1, <1>6 DEF Places, InBlocks, Before, After
<1>8. Bounds'  BY <1>1, <1>3 DEF Bounds, Held, InBlocks
<1> QED  BY <1>5, <1>7, <1>8

-------------------------------------------------------------------------------
(* The end of a call. *)

LEMMA EndData ==
  ASSUME CompInv, spc' \in {"returned", "threw", "waits", "terminated"}, Outputs',
         UNCHANGED <<cfg, total, rd, ulen, in, nextBuf, nextIn, got, more, start, left,
                     have, history, clen>>
  PROVE  DataInv'
<1> USE DEF CompInv, DataInv
<1>1. Places' /\ ~InBlocks' /\ Before' /\ After'
  BY DEF Places, InBlocks, Before, After
<1>2. nextIn + got <= nextIn + Held /\ Held' = got
  BY DEF Held, Bounds
<1>3. Bounds'
  <2>1. got \in Nat /\ nextIn \in Nat /\ left \in Nat /\ cfg.block \in Nat /\ Held \in Nat
    BY DEF Bounds, Grounded, Settings, Held
  <2>2. in' # Fresh(0) => nextIn' + Held' <= cfg'.block /\ start' + more' <= cfg'.block
    BY <1>2, <2>1 DEF Bounds
  <2> QED  BY <1>1, <2>2 DEF Bounds, InBlocks
<1> QED  BY <1>1, <1>3

LEMMA FailData ==
  ASSUME CompInv, ReadError \/ WriteError \/ Parallel
  PROVE  DataInv'
<1>1. /\ spc' \in {"returned", "threw", "waits", "terminated"}
      /\ UNCHANGED <<cfg, total, rd, ulen, in, nextBuf, nextIn, got, more, start, left,
                     have, history, clen, out, sink>>
  <2>1. CASE ReadError
    BY <2>1 DEF ReadError, callVars, bufferVars, engineVars, outputVars, countVars
  <2>2. CASE WriteError
    BY <2>2 DEF WriteError, callVars, bufferVars, engineVars, outputVars, countVars
  <2>3. CASE Parallel
    BY <2>3 DEF Parallel, callVars, bufferVars, engineVars, outputVars, countVars
  <2> QED  BY <2>1, <2>2, <2>3
<1>2. Outputs'
  <2>1. Items' = Items  BY <1>1 DEF Items
  <2> QED  BY <1>1, <2>1 DEF CompInv, DataInv, Outputs
<1> QED  BY <1>1, <1>2, EndData

LEMMA TrailerData ==
  ASSUME CompInv, WriteTrailer \/ DirectTrailer
  PROVE  DataInv'
<1> USE DEF CompInv, DataInv
<1>1. /\ spc \in {"trailer", "zlibTrailer"} /\ spc' = "returned"
      /\ sink' = Append(sink, Stream(0)!Trailer(ulen, checkVal))
      /\ UNCHANGED <<cfg, total, rd, ulen, in, nextBuf, nextIn, got, more, start, left,
                     have, history, clen, out>>
  BY DEF WriteTrailer, DirectTrailer, At, callVars, bufferVars, engineVars, countVars
<1>2. Complete /\ out = <<>>  BY <1>1 DEF After
<1>3. Stream(0)!Trailer(ulen, checkVal) \in Items
  BY <1>2, ItemsAre DEF Complete, Grounded
<1>4. Outputs'  BY <1>1, <1>2, <1>3, Appended
<1> QED  BY <1>1, <1>4, EndData

LEMMA FlushData ==
  ASSUME CompInv, Flush
  PROVE  DataInv'
<1> USE DEF CompInv, DataInv
<1>1. /\ spc = "flush" /\ spc' = "trailer" /\ FlushOutput
      /\ UNCHANGED <<cfg, total, rd, ulen, checkVal, in, nextBuf, nextIn, got, more, start, left,
                     have, history>>
  BY DEF Flush, At, callVars, bufferVars, engineVars, countVars
<1>2. Complete /\ Counted /\ clen \in Nat  BY <1>1 DEF After, Bounds
<1>3. Outputs' /\ Written' = Written /\ out' = <<>> /\ clen' \in Nat /\ Counted'
  BY <1>1, <1>2, Flushed
<1>4. Complete'  BY <1>1, <1>2, <1>3 DEF Complete
<1>5. Places' /\ ~InBlocks' /\ Before' /\ After'
  BY <1>1, <1>3, <1>4 DEF Places, InBlocks, Before, After
<1>6. Bounds'  BY <1>1, <1>3 DEF Bounds, Held, InBlocks
<1> QED  BY <1>3, <1>5, <1>6

-------------------------------------------------------------------------------
(* The input in its buffers. *)

\* A read of a block into a buffer that is free.
LEMMA ReadNextIs ==
  ASSUME cfg.block \in Nat \ {0}, total \in Nat, rd \in 0 .. total,
         NEW b \in [0 .. cfg.block - 1 -> Positions], ReadNext(b)
  PROVE  /\ nextBuf' \in [0 .. cfg.block - 1 -> Positions]
         /\ start' = 0 /\ more' \in 0 .. cfg.block
         /\ rd' = rd + more' /\ rd' \in 0 .. total /\ ulen' = ulen + more'
         /\ more' = 0 => rd' = total
         /\ \A i \in 0 .. more' - 1 : nextBuf'[start' + i] = rd + i
<1>1. /\ nextBuf' = Input(b, cfg.block) /\ more' = Rest(cfg.block) /\ start' = 0
      /\ rd' = rd + Rest(cfg.block) /\ ulen' = ulen + Rest(cfg.block)
  BY DEF ReadNext
<1>2. /\ Rest(cfg.block) \in 0 .. cfg.block /\ rd + Rest(cfg.block) \in 0 .. total
      /\ Rest(cfg.block) < cfg.block => rd + Rest(cfg.block) = total
  BY RestIs
<1>3. /\ Input(b, cfg.block) \in [0 .. cfg.block - 1 -> Positions]
      /\ \A i \in 0 .. Rest(cfg.block) - 1 : Input(b, cfg.block)[i] = rd + i
  BY InputIs
<1>4. more' = 0 => rd' = total  BY <1>1, <1>2
<1>5. ASSUME NEW i \in 0 .. more' - 1 PROVE nextBuf'[start' + i] = rd + i
  <2>1. i \in 0 .. Rest(cfg.block) - 1 /\ start' + i = i  BY <1>1, <1>2
  <2> QED  BY <1>1, <1>3, <2>1
<1> QED  BY <1>1, <1>2, <1>3, <1>4, <1>5

\* Between two blocks the engine and the output are left alone.
LEMMA EngagedStays ==
  ASSUME Engaged, pending = <<>>, UNCHANGED <<cfg, out, sink, pending, history, checkVal>>
  PROVE  Engaged'
<1>1. BlockStart' = BlockStart /\ Written' = Written  BY DEF BlockStart, Written
<1>2. PICK p : p = BlockStart  OBVIOUS
<1>3. Midway(p)'
  <2>1. Midway(p)  BY <1>2 DEF Engaged
  <2> QED  BY <1>1, <2>1 DEF Midway
<1>4. Run(p, Len(pending)) = pending /\ Len(pending) \in Nat /\ p \in Nat
  BY <1>2 DEF Engaged
<1> HIDE DEF Midway
<1>5. Midway(BlockStart)'  BY <1>1, <1>2, <1>3
<1>6. Run(BlockStart, Len(pending))' = Run(p, Len(pending))
  BY <1>1, <1>2 DEF Run
<1> QED  BY <1>1, <1>2, <1>4, <1>5, <1>6 DEF Engaged

\* What is left to show of a step that only moves the input.
LEMMA BufferStep ==
  ASSUME CompInv, UNCHANGED <<cfg, total, have, out, clen, sink, pending, history, checkVal>>,
         spc' \in {"data", "scan", "merge", "refill", "separate"}, Counted,
         Engaged, pending = <<>>, Buffered', Working',
         rd' \in 0 .. total, ulen' = rd', got' \in Nat, nextIn' \in Nat,
         more' \in Nat, start' \in Nat, left' \in Nat
  PROVE  DataInv'
<1>1. Places' /\ Before' /\ After'  BY DEF Places, Before, After
<1>2. Outputs'
  <2>1. Items' = Items  BY DEF Items
  <2> QED  BY <2>1 DEF CompInv, DataInv, Outputs
<1>3. Engaged'  BY EngagedStays
<1>4. Bounds'
  BY DEF CompInv, DataInv, Bounds, Buffered, Allocated, Counted
<1> QED  BY <1>1, <1>2, <1>3, <1>4 DEF DataInv

LEMMA ReadFirstData ==
  ASSUME CompInv, ReadFirst
  PROVE  DataInv'
<1> USE DEF CompInv, DataInv
<1>1. /\ spc = "first" /\ spc' = "data" /\ ReadNext(nextBuf)
      /\ UNCHANGED <<cfg, total, in, nextIn, got, left, have, pending, history, out, clen, sink, checkVal>>
  BY DEF ReadFirst, At, callVars, engineVars, outputVars
<1>2. /\ Allocated /\ Headed /\ got = 0 /\ left = 0 /\ nextIn = 0 /\ pending = <<>> /\ history = 0
      /\ out = <<>> /\ rd = 0 /\ checkVal = Interval(0, 0) /\ Counted /\ ulen = rd
  BY <1>1 DEF Before, Bounds
<1>3. cfg.block \in Nat \ {0} /\ total \in Nat /\ rd \in 0 .. total
  BY DEF Grounded, Settings, Bounds
<1>4. /\ nextBuf' \in [0 .. cfg.block - 1 -> Positions]
      /\ start' = 0 /\ more' \in 0 .. cfg.block
      /\ rd' = rd + more' /\ rd' \in 0 .. total /\ ulen' = ulen + more'
      /\ more' = 0 => rd' = total
      /\ \A i \in 0 .. more' - 1 : nextBuf'[start' + i] = rd + i
  BY <1>1, <1>2, <1>3, ReadNextIs DEF Allocated
<1>5. checkVal.to = 0 /\ checkVal.from = 0 /\ checkVal \in [from : {0}, to : Nat]
  BY <1>2 DEF Interval
<1>6. Engaged
  <2>1. Written = <<Stream(0)!Header>>  BY <1>2 DEF Headed, Written
  <2>2. Midway(0)  BY <2>1, ItemsAre DEF Midway
  <2>3. BlockStart = 0 /\ Len(pending) = 0  BY <1>2, <1>5 DEF BlockStart
  <2>4. Run(0, 0) = <<>>  BY RunIs
  <2> HIDE DEF Midway, BlockStart
  <2> QED  BY <1>2, <2>2, <2>3, <2>4 DEF Engaged
<1>7. Buffered'
  <2>1. Held' = 0  BY <1>1, <1>2 DEF Held
  <2>2. Allocated'  BY <1>1, <1>2, <1>4 DEF Allocated
  <2>3. \A i \in 0 .. more' - 1 : nextBuf'[start' + i] = checkVal'.to + Held' + i
    <3> SUFFICES ASSUME NEW i \in 0 .. more' - 1
                 PROVE  nextBuf'[start' + i] = checkVal'.to + Held' + i
      OBVIOUS
    <3>1. nextBuf'[start' + i] = rd + i  BY <1>4
    <3>2. i \in Int /\ rd + i = i /\ 0 + 0 + i = i  BY <1>2, <1>4
    <3>3. checkVal'.to = 0  BY <1>1, <1>5
    <3> QED  BY <2>1, <3>1, <3>2, <3>3
  <2> QED  BY SMTT(30), <1>1, <1>2, <1>3, <1>4, <1>5, <2>1, <2>2, <2>3 DEF Buffered
<1>8. Working'  BY <1>1, <1>3, <1>5 DEF Working
<1> QED  BY <1>1, <1>2, <1>3, <1>4, <1>6, <1>7, <1>8, BufferStep

LEMMA GetDataData ==
  ASSUME CompInv, GetData
  PROVE  DataInv'
<1> USE DEF CompInv, DataInv
<1>1. /\ spc = "data"
      /\ UNCHANGED <<cfg, total, have, pending, history, out, clen, sink, checkVal>>
      /\ \/ cfg.rsync /\ got' > 0 /\ left' = got' /\ spc' = "scan"
         \/ ~(cfg.rsync /\ got' > 0) /\ left' = 0 /\ spc' = "separate"
  BY DEF GetData, callVars, engineVars, outputVars
<1>2. Buffered /\ Engaged /\ Working /\ pending = <<>> /\ Counted
  BY <1>1 DEF InBlocks, Engaged, Bounds
<1>3. /\ cfg.block \in Nat \ {0} /\ total \in Nat /\ rd \in 0 .. total /\ ulen = rd
      /\ got \in Nat /\ nextIn \in Nat /\ more \in Nat /\ start \in Nat /\ Held = got
      /\ checkVal.to \in Nat
  BY <1>1, <1>2 DEF Grounded, Settings, Bounds, Held, Buffered
<1>4. ASSUME got' \in Nat PROVE left' \in Nat /\ Held' = got'
  <2>1. PICK g \in Nat : g = got'  BY <1>4
  <2>2. Held' = g + 0
    <3>1. CASE spc' = "scan" /\ left' = got'  BY <2>1, <3>1 DEF Held
    <3>2. CASE spc' = "separate" /\ left' = 0  BY <2>1, <3>2 DEF Held
    <3> QED  BY <1>1, <3>1, <3>2
  <2>3. left' \in Nat  BY <1>1, <2>1
  <2>4. g + 0 = g  OBVIOUS
  <2> QED  BY <2>1, <2>2, <2>3, <2>4, Zenon
<1>5. CASE got = 0
  <2>1. in' = nextBuf /\ nextIn' = start /\ got' = more /\ ReadNext(in)
    BY <1>5 DEF GetData
  <2>2. /\ nextBuf' \in [0 .. cfg.block - 1 -> Positions]
        /\ start' = 0 /\ more' \in 0 .. cfg.block
        /\ rd' = rd + more' /\ rd' \in 0 .. total /\ ulen' = ulen + more'
        /\ more' = 0 => rd' = total
        /\ \A i \in 0 .. more' - 1 : nextBuf'[start' + i] = rd + i
    BY <1>2, <1>3, <2>1, ReadNextIs DEF Allocated, Buffered
  <2>3. checkVal.to + more = rd  BY <1>2, <1>3, <1>5 DEF Buffered
  <2>4. Buffered'
    <3>1. Allocated'  BY <1>1, <1>2, <2>1, <2>2 DEF Allocated, Buffered
    <3>2. \A i \in 0 .. Held' - 1 : in'[nextIn' + i] = checkVal'.to + i
      <4>1. \A i \in 0 .. more - 1 : nextBuf[start + i] = checkVal.to + 0 + i
        BY <1>2, <1>3, <1>5 DEF Buffered
      <4> QED  BY <1>1, <1>3, <1>4, <2>1, <4>1
    <3>3. \A i \in 0 .. more' - 1 : nextBuf'[start' + i] = checkVal'.to + Held' + i
      BY <1>1, <1>3, <1>4, <2>1, <2>2, <2>3
    <3>4. start + more <= cfg.block /\ checkVal \in [from : {0}, to : Nat]  BY <1>2 DEF Buffered
    <3>5. Held' = more /\ nextIn' = start  BY <1>3, <1>4, <2>1
    <3>6. checkVal'.to + Held' + more' = rd'
      <4>1. checkVal.to + more + more' = rd + more'  BY <1>3, <2>2, <2>3
      <4> QED  BY <1>1, <2>2, <3>5, <4>1
    <3>7. nextIn' + Held' <= cfg'.block /\ start' + more' <= cfg'.block
      BY <1>1, <1>3, <2>2, <3>4, <3>5
    <3>8. checkVal' \in [from : {0}, to : Nat] /\ (more' = 0 => rd' = total')
      BY <1>1, <2>2, <3>4
    <3> QED  BY <3>1, <3>2, <3>3, <3>6, <3>7, <3>8 DEF Buffered
  <2>5. Working'
    <3>1. more = 0 => total = 0
      BY <1>1, <1>2, <1>3, <2>3 DEF Buffered, Working
    <3> QED  BY <1>1, <1>3, <2>1, <3>1 DEF Working
  <2> QED  BY <1>1, <1>2, <1>3, <1>4, <2>1, <2>2, <2>4, <2>5, BufferStep
<1>6. CASE got > 0
  <2>1. UNCHANGED <<in, nextBuf, nextIn, got, more, start, rd, ulen>>
    BY <1>6 DEF GetData
  <2>2. Buffered'
    BY <1>1, <1>2, <1>3, <1>4, <2>1 DEF Buffered, Allocated
  <2>3. Working'  BY <1>1, <1>3, <1>6, <2>1 DEF Working
  <2> QED  BY <1>1, <1>2, <1>3, <1>4, <2>1, <2>2, <2>3, BufferStep
<1> QED  BY <1>3, <1>5, <1>6

LEMMA ScanData ==
  ASSUME CompInv, ScanHit \/ ScanMiss
  PROVE  DataInv'
<1> USE DEF CompInv, DataInv
<1>1. /\ spc = "scan" /\ spc' \in {"separate", "merge"}
      /\ UNCHANGED <<cfg, total, have, pending, history, out, clen, sink, checkVal,
                     in, nextBuf, nextIn, more, start, rd, ulen>>
  BY DEF ScanHit, ScanMiss, At, callVars, engineVars, outputVars, countVars
<1>2. Buffered /\ Engaged /\ Working /\ pending = <<>> /\ Counted
  BY <1>1 DEF InBlocks, Engaged, Bounds
<1>3. /\ cfg.block \in Nat \ {0} /\ total \in Nat /\ rd \in 0 .. total /\ ulen = rd
      /\ got \in Nat /\ nextIn \in Nat /\ more \in Nat /\ start \in Nat /\ left \in Nat
      /\ Held = got /\ left <= got /\ got > 0
  BY <1>1, <1>2 DEF Grounded, Settings, Bounds, Held, Working
<1>4. /\ got' \in Nat /\ left' \in Nat /\ got' > 0 /\ Held' = Held
      /\ spc' = "merge" => left' = 0 /\ more > 0 /\ got' < cfg.block
  <2>1. CASE ScanHit
    <3>1. PICK k \in 1 .. left : left' = left - k /\ got' = got - (left - k)
      BY <2>1 DEF ScanHit
    <3>2. spc' = "separate"  BY <2>1 DEF ScanHit, At
    <3>3. left - k \in Nat /\ got - (left - k) \in Nat /\ got - (left - k) > 0
          /\ (got - (left - k)) + (left - k) = got
      BY <1>3
    <3>4. Held' = got' + left'  BY <3>2 DEF Held
    <3> QED  BY <1>3, <3>1, <3>2, <3>3, <3>4
  <2>2. CASE ScanMiss
    <3>1. got' = got /\ left' = 0 /\ spc' = (IF more = 0 \/ BlockFull THEN "separate" ELSE "merge")
      BY <2>2 DEF ScanMiss, At
    <3>2. Held' = got + 0  BY <3>1 DEF Held
    <3>3. got + 0 = got  BY <1>3
    <3>4. spc' = "merge" => more > 0 /\ got < cfg.block
      <4>1. got <= cfg.block  BY <1>2, <1>3 DEF Buffered
      <4> QED  BY <1>3, <3>1, <4>1 DEF BlockFull
    <3> QED  BY <1>3, <3>1, <3>2, <3>3, <3>4
  <2> QED  BY <2>1, <2>2
<1>5. Buffered'
  <2>1. Allocated'  BY <1>1, <1>2 DEF Allocated, Buffered
  <2> QED  BY <1>1, <1>2, <1>4, <2>1 DEF Buffered
<1>6. Working'  BY <1>1, <1>4 DEF Working
<1> QED  BY <1>1, <1>2, <1>3, <1>4, <1>5, <1>6, BufferStep

LEMMA RefillData ==
  ASSUME CompInv, Refill
  PROVE  DataInv'
<1> USE DEF CompInv, DataInv
<1>1. /\ spc = "refill" /\ spc' = "scan" /\ ReadNext(nextBuf)
      /\ UNCHANGED <<cfg, total, have, pending, history, out, clen, sink, checkVal,
                     in, nextIn, got, left>>
  BY DEF Refill, At, callVars, engineVars, outputVars
<1>2. Buffered /\ Engaged /\ Working /\ pending = <<>> /\ Counted
  BY <1>1 DEF InBlocks, Engaged, Bounds
<1>3. /\ cfg.block \in Nat \ {0} /\ total \in Nat /\ rd \in 0 .. total /\ ulen = rd
      /\ got \in Nat /\ nextIn \in Nat /\ left \in Nat /\ checkVal.to \in Nat
      /\ Held = got /\ left <= got /\ got > 0 /\ more = 0
  BY <1>1, <1>2 DEF Grounded, Settings, Bounds, Held, Working, Buffered
<1>4. /\ nextBuf' \in [0 .. cfg.block - 1 -> Positions]
      /\ start' = 0 /\ more' \in 0 .. cfg.block
      /\ rd' = rd + more' /\ rd' \in 0 .. total /\ ulen' = ulen + more'
      /\ more' = 0 => rd' = total
      /\ \A i \in 0 .. more' - 1 : nextBuf'[start' + i] = rd + i
  BY <1>1, <1>2, <1>3, ReadNextIs DEF Allocated, Buffered
<1>5. checkVal.to + got = rd  BY <1>2, <1>3 DEF Buffered
<1>6. Held' = got  BY <1>1, <1>3 DEF Held
<1>7. Buffered'
  <2>1. Allocated'  BY <1>1, <1>2, <1>4 DEF Allocated, Buffered
  <2>2. \A i \in 0 .. Held' - 1 : in'[nextIn' + i] = checkVal'.to + i
    BY <1>1, <1>2, <1>3, <1>6 DEF Buffered
  <2>3. \A i \in 0 .. more' - 1 : nextBuf'[start' + i] = checkVal'.to + Held' + i
    BY <1>1, <1>4, <1>5, <1>6
  <2>4. checkVal'.to + Held' + more' = rd'
    BY <1>1, <1>3, <1>4, <1>5, <1>6
  <2>5. nextIn' + Held' <= cfg'.block /\ start' + more' <= cfg'.block
    BY <1>1, <1>2, <1>3, <1>4, <1>6 DEF Buffered
  <2>6. checkVal' \in [from : {0}, to : Nat] /\ (more' = 0 => rd' = total')
    BY <1>1, <1>2, <1>4 DEF Buffered
  <2> QED  BY <2>1, <2>2, <2>3, <2>4, <2>5, <2>6 DEF Buffered
<1>8. Working'  BY <1>1, <1>3 DEF Working
<1> QED  BY <1>1, <1>2, <1>3, <1>4, <1>7, <1>8, BufferStep

LEMMA SeparateData ==
  ASSUME CompInv, Separate
  PROVE  DataInv'
<1> USE DEF CompInv, DataInv
<1> DEFINE fresh == ~cfg.setdict /\ have + got > cfg.block
<1>1. /\ spc = "separate" /\ spc' = "feed"
      /\ UNCHANGED <<cfg, total, out, clen, sink, checkVal,
                     in, nextBuf, nextIn, got, more, start, left, rd, ulen>>
      /\ have' = (IF cfg.setdict THEN 0 ELSE IF fresh THEN got ELSE have + got)
      /\ history' = (IF fresh THEN checkVal.to ELSE history)
      /\ pending' = (IF fresh THEN <<>> ELSE pending)
  BY DEF Separate, At, callVars, bufferVars, outputVars, countVars
<1>2. Buffered /\ Engaged /\ Working /\ pending = <<>> /\ Counted
  BY <1>1 DEF InBlocks, Engaged, Bounds
<1>3. /\ have \in Nat /\ got \in Nat /\ rd \in 0 .. total /\ total \in Nat /\ checkVal.to \in Nat
      /\ more \in Nat /\ left \in Nat
  BY <1>2 DEF Bounds, Grounded, Buffered
<1>4. BlockStart = checkVal.to  BY <1>2, <1>3 DEF BlockStart
<1>5. /\ pending' = pending /\ have' \in Nat /\ history' \in 0 .. checkVal.to
      /\ ~cfg.setdict => history' = checkVal.to
  BY <1>1, <1>2, <1>3, <1>4 DEF Engaged
<1>6. Held' = Held /\ Held = got + left  BY <1>1 DEF Held
<1>7. Buffered'
  <2>1. Allocated'  BY <1>1, <1>2 DEF Allocated, Buffered
  <2> QED  BY <1>1, <1>2, <1>6, <2>1 DEF Buffered
<1>8. Engaged'
  <2>1. BlockStart' = BlockStart /\ Written' = Written  BY <1>1, <1>5 DEF BlockStart, Written
  <2>2. PICK p : p = BlockStart  OBVIOUS
  <2>3. Midway(p)'
    <3>1. Midway(p)  BY <1>2, <2>2 DEF Engaged
    <3> QED  BY <2>1, <3>1 DEF Midway
  <2>4. Midway(BlockStart)'
    <3> HIDE DEF Midway
    <3> QED  BY <2>1, <2>2, <2>3
  <2>5. Run(BlockStart, Len(pending))' = Run(p, Len(pending))  BY <1>5, <2>1, <2>2 DEF Run
  <2>6. Run(p, Len(pending)) = pending /\ Len(pending) \in Nat /\ p \in Nat
    BY <1>2, <2>2 DEF Engaged
  <2> HIDE DEF Midway
  <2> QED  BY <1>1, <1>4, <1>5, <2>1, <2>2, <2>4, <2>5, <2>6 DEF Engaged
<1>9. Working'  BY <1>1, <1>2 DEF Working
<1>10. Places' /\ Before' /\ After'  BY <1>1 DEF Places, Before, After
<1>11. Outputs'
  <2>1. Items' = Items  BY <1>1 DEF Items
  <2> QED  BY <1>1, <2>1 DEF Outputs
<1>12. Bounds'
  <2>1. checkVal.to <= total
    BY <1>2, <1>3, <1>6 DEF Buffered
  <2>2. history' \in 0 .. total  BY <1>3, <1>5, <2>1
  <2> QED  BY <1>1, <1>2, <1>5, <1>6, <1>7, <2>2 DEF Bounds, Counted
<1> QED  BY <1>7, <1>8, <1>9, <1>10, <1>11, <1>12

LEMMA MergeData ==
  ASSUME CompInv, Merge
  PROVE  DataInv'
<1> USE DEF CompInv, DataInv
<1> DEFINE R    == Room
           from == [i \in 0 .. R - 1 |-> nextBuf[start + i]]
           up   == [i \in 0 .. got - 1 |-> in[nextIn + i]]
           M    == MovedUp(in)
<1>1. /\ spc = "merge" /\ spc' = (IF more = R THEN "refill" ELSE "scan")
      /\ UNCHANGED <<cfg, total, have, pending, history, out, clen, sink, checkVal,
                     nextBuf, rd, ulen>>
      /\ nextIn' = 0 /\ in' = Copy(M, got, R, from)
      /\ left' = R /\ got' = got + R /\ more' = more - R /\ start' = start + R
  BY DEF Merge, At, callVars, engineVars, outputVars, countVars
<1>2. Buffered /\ Engaged /\ Working /\ pending = <<>> /\ Counted
  BY <1>1 DEF InBlocks, Engaged, Bounds
<1>3. /\ cfg.block \in Nat \ {0} /\ total \in Nat /\ rd \in 0 .. total /\ ulen = rd
      /\ got \in Nat /\ nextIn \in Nat /\ more \in Nat /\ start \in Nat /\ checkVal.to \in Nat
      /\ Held = got /\ got < cfg.block /\ more > 0
  BY <1>1, <1>2 DEF Grounded, Settings, Bounds, Held, Working, Buffered
<1>4. R \in Nat /\ R > 0 /\ R <= more /\ got + R <= cfg.block
  BY <1>3 DEF Room, Smaller
<1> HIDE DEF R
<1>5. /\ \A i \in 0 .. got - 1 : in[nextIn + i] = checkVal.to + i
      /\ \A i \in 0 .. more - 1 : nextBuf[start + i] = checkVal.to + got + i
      /\ checkVal.to + got + more = rd /\ start + more <= cfg.block
      /\ in \in [0 .. cfg.block - 1 -> Positions] /\ nextBuf \in [0 .. cfg.block - 1 -> Positions]
      /\ checkVal \in [from : {0}, to : Nat]
  BY <1>2, <1>3 DEF Buffered, Allocated
<1>6. \A i \in 0 .. got - 1 : up[i] = checkVal.to + i /\ up[i] \in Positions
  <2> SUFFICES ASSUME NEW i \in 0 .. got - 1
               PROVE  up[i] = checkVal.to + i /\ up[i] \in Positions
    OBVIOUS
  <2>1. up[i] = in[nextIn + i]  OBVIOUS
  <2>2. in[nextIn + i] = checkVal.to + i  BY <1>5
  <2>3. checkVal.to + i \in Nat  BY <1>3
  <2> QED  BY <2>1, <2>2, <2>3 DEF Positions
<1>7. \A i \in 0 .. R - 1 : from[i] = checkVal.to + got + i /\ from[i] \in Positions
  <2> SUFFICES ASSUME NEW i \in 0 .. R - 1
               PROVE  from[i] = checkVal.to + got + i /\ from[i] \in Positions
    OBVIOUS
  <2>1. i \in 0 .. more - 1  BY <1>3, <1>4
  <2> QED  BY <1>3, <1>5, <2>1 DEF Positions
<1>8. M = Copy(in, 0, got, up)  BY DEF MovedUp
<1> HIDE DEF M, up, from
<1>9. /\ M \in [0 .. cfg.block - 1 -> Positions]
      /\ \A i \in 0 .. got - 1 : M[i] = up[i]
  <2>1. got <= cfg.block /\ cfg.block \in Nat /\ got \in Nat  BY <1>3
  <2>2. \A i \in 0 .. got - 1 : up[i] \in Positions  BY <1>6
  <2>3. in \in [0 .. cfg.block - 1 -> Positions]  BY <1>5
  <2> QED  BY <1>8, <2>1, <2>2, <2>3, CopyFront
<1>10. /\ in' \in [0 .. cfg.block - 1 -> Positions]
       /\ \A i \in 0 .. R - 1 : in'[got + i] = from[i]
       /\ \A i \in 0 .. got - 1 : in'[i] = M[i]
  <2>1. got + R <= cfg.block /\ cfg.block \in Nat /\ got \in Nat /\ R \in Nat  BY <1>3, <1>4
  <2>2. \A i \in 0 .. R - 1 : from[i] \in Positions  BY <1>7
  <2>3. M \in [0 .. cfg.block - 1 -> Positions]  BY <1>9
  <2>4. /\ Copy(M, got, R, from) \in [0 .. cfg.block - 1 -> Positions]
        /\ \A i \in 0 .. R - 1 : Copy(M, got, R, from)[got + i] = from[i]
        /\ \A i \in 0 .. got - 1 : Copy(M, got, R, from)[i] = M[i]
    BY SMTT(30), <2>1, <2>2, <2>3, CopyIs
  <2> QED  BY <1>1, <2>4
<1>11. ASSUME NEW i \in 0 .. got + R - 1 PROVE in'[nextIn' + i] = checkVal.to + i
  <2>1. nextIn' + i = i /\ i \in Nat  BY <1>1, <1>3, <1>4
  <2>2. CASE i < got
    <3>1. i \in 0 .. got - 1  BY <1>3, <2>1, <2>2
    <3>2. in'[i] = up[i]  BY <1>9, <1>10, <3>1
    <3> QED  BY <1>6, <2>1, <3>1, <3>2
  <2>3. CASE i >= got
    <3>1. PICK j \in 0 .. R - 1 : i = got + j
      <4>1. i - got \in 0 .. R - 1 /\ i = got + (i - got)  BY <1>3, <1>4, <2>1, <2>3
      <4> QED  BY <4>1
    <3>2. in'[i] = checkVal.to + got + j  BY <1>7, <1>10, <3>1
    <3>3. checkVal.to + got + j = checkVal.to + i  BY <1>3, <1>4, <3>1
    <3> QED  BY <2>1, <3>2, <3>3
  <2>4. i < got \/ i >= got  BY <1>3, <2>1
  <2> QED  BY <2>2, <2>3, <2>4
<1>12. Held' = got + R  BY <1>1, <1>3, <1>4 DEF Held
<1>13. Buffered'
  <2>1. Allocated'  BY <1>1, <1>5, <1>10 DEF Allocated
  <2>2. \A i \in 0 .. Held' - 1 : in'[nextIn' + i] = checkVal'.to + i
    <3>1. \A i \in 0 .. got + R - 1 : in'[nextIn' + i] = checkVal'.to + i  BY <1>1, <1>11
    <3>2. got + R - 1 = Held' - 1  BY <1>3, <1>4, <1>12
    <3> QED  BY <3>1, <3>2
  <2>3. ASSUME NEW i \in 0 .. more' - 1 PROVE nextBuf'[start' + i] = checkVal'.to + Held' + i
    <3>1. /\ R + i \in 0 .. more - 1 /\ start + R + i = start + (R + i)
          /\ checkVal.to + got + (R + i) = checkVal.to + (got + R) + i
      BY <1>1, <1>3, <1>4
    <3>2. nextBuf[start + (R + i)] = checkVal.to + got + (R + i)  BY <1>5, <3>1
    <3> QED  BY <1>1, <1>12, <3>1, <3>2
  <2>4. checkVal'.to + Held' + more' = rd'
    BY <1>1, <1>3, <1>4, <1>5, <1>12
  <2>5. nextIn' + Held' <= cfg'.block /\ start' + more' <= cfg'.block
    BY <1>1, <1>3, <1>4, <1>5, <1>12
  <2>6. more' = 0 /\ spc' # "refill" => rd' = total'
    BY <1>1, <1>3, <1>4
  <2> QED  BY <1>1, <1>5, <2>1, <2>2, <2>3, <2>4, <2>5, <2>6 DEF Buffered
<1>14. Working'
  BY <1>1, <1>3, <1>4 DEF Working
<1>15. got' \in Nat /\ nextIn' \in Nat /\ more' \in Nat /\ start' \in Nat /\ left' \in Nat
  BY <1>1, <1>3, <1>4
<1> QED  BY <1>1, <1>2, <1>3, <1>13, <1>14, <1>15, BufferStep

-------------------------------------------------------------------------------
(* The engine takes its data. *)

LEMMA FeedPieceData ==
  ASSUME CompInv, FeedPiece
  PROVE  DataInv'
<1> USE DEF CompInv, DataInv
<1> DEFINE d == Slice(in, nextIn, MaxPiece)
           B == BlockStart
           l == Len(pending)
           c == checkVal.to
<1>1. /\ spc = "feed" /\ spc' = "feed" /\ got > MaxPiece
      /\ nextIn' = nextIn + MaxPiece /\ got' = got - MaxPiece
      /\ checkVal' = Checked(checkVal, d) /\ pending' = pending \o d /\ Emit(<<>>)
      /\ UNCHANGED <<cfg, total, in, nextBuf, more, start, left, have, history, rd, ulen>>
  BY DEF FeedPiece, callVars
<1>2. Buffered /\ Engaged /\ Working /\ Counted
  BY <1>1 DEF InBlocks, Bounds
<1>3. /\ total \in Nat /\ rd \in 0 .. total /\ ulen = rd /\ cfg.block \in Nat /\ clen \in Nat
      /\ got \in Nat /\ nextIn \in Nat /\ more \in Nat /\ start \in Nat /\ left \in Nat
      /\ MaxPiece \in Nat \ {0} /\ Held = got + left
  BY <1>1, SizesAssumption DEF Grounded, Settings, Bounds, Held
<1>4. /\ \A i \in 0 .. Held - 1 : in[nextIn + i] = c + i
      /\ \A i \in 0 .. more - 1 : nextBuf[start + i] = c + Held + i
      /\ c + Held + more = rd /\ nextIn + Held <= cfg.block /\ start + more <= cfg.block
      /\ c \in Nat /\ checkVal = Interval(0, c) /\ (more = 0 => rd = total) /\ Allocated
  BY <1>1, <1>2 DEF Buffered, Interval
<1>5. l \in Nat /\ B \in Nat /\ B + l = c /\ pending = Run(B, l) /\ Midway(B)
      /\ history \in 0 .. B /\ (~cfg.setdict => history = B)
  <2>1. B = c - l  BY DEF BlockStart
  <2>2. l \in Nat /\ B \in Nat /\ pending = Run(B, l) /\ Midway(B)
        /\ history \in 0 .. B /\ (~cfg.setdict => history = B)
    BY <1>2 DEF Engaged
  <2> HIDE DEF B, l, c
  <2> QED  BY <1>4, <2>1, <2>2
<1> HIDE DEF B, l, c
<1>6. d = Run(c, MaxPiece)
  <2>1. \A i \in 0 .. MaxPiece - 1 : in[nextIn + i] = c + i
    <3>1. \A i \in 0 .. MaxPiece - 1 : i \in 0 .. Held - 1  BY <1>1, <1>3
    <3> QED  BY <1>4, <3>1
  <2>2. MaxPiece \in Nat /\ c \in Int  BY <1>3, <1>4
  <2>3. nextIn \in Nat  BY <1>3
  <2>4. InOrder(in, nextIn, c, MaxPiece)  BY <2>1 DEF InOrder
  <2> QED  BY <2>2, <2>3, <2>4, SliceIs
<1> HIDE DEF d
<1>7. checkVal' = Interval(0, c + MaxPiece) /\ checkVal'.to = c + MaxPiece
  <2>1. checkVal' = Interval(0, c + MaxPiece)  BY <1>1, <1>3, <1>4, <1>6, CheckedRun
  <2> QED  BY <2>1 DEF Interval
<1>8. pending' = Run(B, l + MaxPiece) /\ Len(pending') = l + MaxPiece
  <2>1. B \in Int /\ MaxPiece \in Nat /\ l + MaxPiece \in Nat  BY <1>3, <1>5
  <2>2. Run(B, l) \o Run(B + l, MaxPiece) = Run(B, l + MaxPiece)  BY <1>5, <2>1, RunJoin
  <2>3. pending' = Run(B, l + MaxPiece)  BY <1>1, <1>5, <1>6, <2>2
  <2> QED  BY <2>1, <2>3, RunIs
<1>9. Outputs' /\ Written' = Written /\ clen' \in Nat /\ Counted'
  BY <1>1, <1>2, <1>3, EmittedNothing
<1>10. Held' = Held - MaxPiece
  <2>1. Held' = (got - MaxPiece) + left  BY <1>1 DEF Held
  <2> QED  BY <1>3, <2>1
<1>11. Buffered'
  <2>1. Allocated'  BY <1>1, <1>4 DEF Allocated
  <2>2. ASSUME NEW i \in 0 .. Held' - 1 PROVE in'[nextIn' + i] = checkVal'.to + i
    <3>1. /\ MaxPiece + i \in 0 .. Held - 1 /\ nextIn + MaxPiece + i = nextIn + (MaxPiece + i)
          /\ c + (MaxPiece + i) = c + MaxPiece + i
      BY <1>1, <1>3, <1>4, <1>10
    <3>2. in[nextIn + (MaxPiece + i)] = c + (MaxPiece + i)  BY <1>4, <3>1
    <3> QED  BY <1>1, <1>7, <3>1, <3>2
  <2>3. ASSUME NEW i \in 0 .. more' - 1 PROVE nextBuf'[start' + i] = checkVal'.to + Held' + i
    <3>1. c + MaxPiece + (Held - MaxPiece) + i = c + Held + i  BY <1>1, <1>3, <1>4
    <3>2. nextBuf[start + i] = c + Held + i  BY <1>1, <1>4
    <3> QED  BY <1>1, <1>7, <1>10, <3>1, <3>2
  <2>4. checkVal'.to + Held' + more' = rd'
    <3>1. c + MaxPiece + (Held - MaxPiece) + more = c + Held + more  BY <1>3, <1>4
    <3> QED  BY <1>1, <1>4, <1>7, <1>10, <3>1
  <2>5. nextIn' + Held' <= cfg'.block /\ start' + more' <= cfg'.block
    <3>1. nextIn + MaxPiece + (Held - MaxPiece) = nextIn + Held  BY <1>3
    <3> QED  BY <1>1, <1>4, <1>10, <3>1
  <2>6. checkVal' \in [from : {0}, to : Nat] /\ (more' = 0 => rd' = total')
    <3>1. c + MaxPiece \in Nat  BY <1>3, <1>4
    <3> QED  BY <1>1, <1>4, <1>7, <3>1 DEF Interval
  <2> QED  BY <2>1, <2>2, <2>3, <2>4, <2>5, <2>6 DEF Buffered
<1>12. Engaged'
  <2>1. BlockStart' = B
    <3>1. BlockStart' = (c + MaxPiece) - (l + MaxPiece)  BY <1>7, <1>8 DEF BlockStart
    <3>2. (c + MaxPiece) - (l + MaxPiece) = B  BY <1>3, <1>4, <1>5
    <3> QED  BY <3>1, <3>2
  <2>2. PICK p : p = B  OBVIOUS
  <2>3. Midway(p)'
    <3>1. Midway(p)  BY <1>5, <2>2
    <3> QED  BY <1>9, <3>1 DEF Midway
  <2>4. Midway(BlockStart)'
    <3> HIDE DEF Midway
    <3> QED  BY <2>1, <2>2, <2>3
  <2>5. Run(BlockStart, Len(pending))' = Run(B, l + MaxPiece)
    BY <1>8, <2>1 DEF Run
  <2>6. Len(pending') \in Nat /\ history' \in 0 .. B /\ (~cfg'.setdict => history' = B)
    BY <1>1, <1>3, <1>5, <1>8
  <2> HIDE DEF Midway
  <2> QED  BY <1>1, <1>5, <1>8, <2>1, <2>4, <2>5, <2>6 DEF Engaged
<1>13. Working'  BY <1>1, <1>3 DEF Working
<1>14. Places' /\ Before' /\ After'  BY <1>1 DEF Places, Before, After
<1>15. Bounds'
  <2>1. got' \in Nat /\ nextIn' \in Nat  BY <1>1, <1>3
  <2>2. in' # Fresh(0) => nextIn' + Held' <= cfg'.block /\ start' + more' <= cfg'.block
    BY <1>11 DEF Buffered
  <2> QED  BY <1>1, <1>3, <1>9, <2>1, <2>2 DEF Bounds
<1> QED  BY <1>9, <1>11, <1>12, <1>13, <1>14, <1>15

\* The block that ends, be it the last one or not.
LEMMA FeedBlock ==
  ASSUME CompInv, Feed
  PROVE  LET n == Len(pending) + got
             b == Block(pending \o Slice(in, nextIn, got), more = 0 /\ left = 0)
         IN /\ checkVal' = Interval(0, checkVal.to + got) /\ n \in Nat
            /\ BlockStart \in Nat /\ history \in 0 .. BlockStart
            /\ BlockStart + n = checkVal.to + got
            /\ checkVal.to + got + left + more = rd
            /\ b = Block(Run(BlockStart, n), more = 0 /\ left = 0)
            /\ b \in Items /\ b.kind = "block" /\ b.from = BlockStart /\ b.to = BlockStart + n
            /\ b.dictTo = BlockStart /\ b.dictFrom \in 0 .. BlockStart
            /\ b.last = (more = 0 /\ left = 0)
            /\ more = 0 /\ left = 0 => checkVal.to + got = total
            /\ n = 0 => total = 0
            /\ ~(more = 0 /\ left = 0) => checkVal.to + got < total
<1> USE DEF CompInv, DataInv
<1> DEFINE d == Slice(in, nextIn, got)
           B == BlockStart
           l == Len(pending)
           c == checkVal.to
           z == more = 0 /\ left = 0
           n == l + got
           b == Block(pending \o d, z)
<1>1. spc = "feed" /\ checkVal' = Checked(checkVal, d)  BY DEF Feed, At
<1>2. Buffered /\ Engaged /\ Working  BY <1>1 DEF InBlocks
<1>3. /\ total \in Nat /\ rd \in 0 .. total /\ cfg \in Settings
      /\ got \in Nat /\ nextIn \in Nat /\ more \in Nat /\ left \in Nat
      /\ Held = got + left /\ (got > 0 \/ total = 0)
  BY <1>1, <1>2 DEF Grounded, Bounds, Held, Working
<1>4. /\ \A i \in 0 .. Held - 1 : in[nextIn + i] = c + i
      /\ c + Held + more = rd /\ c \in Nat /\ checkVal = Interval(0, c) /\ (more = 0 => rd = total)
  BY <1>1, <1>2 DEF Buffered, Interval
<1>5. l \in Nat /\ B \in Nat /\ B + l = c /\ pending = Run(B, l)
      /\ history \in 0 .. B /\ (~cfg.setdict => history = B)
  <2>1. B = c - l  BY DEF BlockStart
  <2>2. l \in Nat /\ B \in Nat /\ pending = Run(B, l)
        /\ history \in 0 .. B /\ (~cfg.setdict => history = B)
    BY <1>2 DEF Engaged
  <2> HIDE DEF B, l, c
  <2> QED  BY <1>4, <2>1, <2>2
<1> HIDE DEF B, l, c
<1>6. d = Run(c, got)
  <2>1. \A i \in 0 .. got - 1 : in[nextIn + i] = c + i
    <3>1. \A i \in 0 .. got - 1 : i \in 0 .. Held - 1  BY <1>1, <1>3
    <3> QED  BY <1>4, <3>1
  <2>2. got \in Nat /\ c \in Int /\ nextIn \in Nat  BY <1>3, <1>4
  <2>3. InOrder(in, nextIn, c, got)  BY <2>1 DEF InOrder
  <2> QED  BY <2>2, <2>3, SliceIs
<1> HIDE DEF d
<1>7. checkVal' = Interval(0, c + got)
  BY <1>1, <1>3, <1>4, <1>6, CheckedRun
<1>8. pending \o d = Run(B, n) /\ n \in Nat
  <2>1. B \in Int /\ got \in Nat  BY <1>3, <1>5
  <2>2. Run(B, l) \o Run(B + l, got) = Run(B, l + got)  BY <1>5, <2>1, RunJoin
  <2> QED  BY SMTT(30), <1>3, <1>5, <1>6, <2>2
<1>9. c + got + left + more = rd /\ B + n = c + got /\ c + got <= total
  BY <1>3, <1>4, <1>5
<1>10. n = 0 => total = 0
  BY <1>3, <1>5
<1>11. n = 0 => B = 0
  BY <1>3, <1>5, <1>9, <1>10
<1>12. z \in BOOLEAN  OBVIOUS
<1>13. (z => c + got = total) /\ (~z => c + got < total)
  BY <1>3, <1>4
<1> HIDE DEF n, z
<1>14. b = Block(Run(B, n), z)  BY <1>8
<1>15. b \in Items
  <2>1. cfg.setdict \in BOOLEAN  BY <1>3 DEF Settings
  <2>2. Block(Run(B, n), z) \in Items
    BY <1>5, <1>8, <1>12, <2>1, BlockIsItem
  <2> QED  BY <1>14, <2>2
<1>16. /\ b.kind = "block" /\ b.from = B /\ b.to = B + n /\ b.dictTo = B
       /\ b.dictFrom \in 0 .. B /\ b.last = z
  <2> DEFINE f == IF n = 0 THEN 0 ELSE B
             h == IF n = 0 THEN 0 ELSE Larger(history, B - DictSize)
  <2>1. f = B  BY <1>11
  <2>2. /\ Block(Run(B, n), z) = [kind |-> "block", from |-> f, to |-> f + n,
                                  dictFrom |-> h, dictTo |-> f, last |-> z]
        /\ h \in 0 .. f
    BY <1>5, <1>8, <1>12, BlockOf
  <2> HIDE DEF f, h, b
  <2> QED  BY <1>14, <2>1, <2>2
<1> HIDE DEF b
<1> QED  BY <1>5, <1>7, <1>8, <1>9, <1>10, <1>13, <1>14, <1>15, <1>16 DEF b, d, B, l, c, z, n

LEMMA FeedData ==
  ASSUME CompInv, Feed
  PROVE  DataInv'
<1> USE DEF CompInv, DataInv
<1> DEFINE z == more = 0 /\ left = 0
           b == Block(pending \o Slice(in, nextIn, got), z)
           c == checkVal.to
           B == BlockStart
           n == Len(pending) + got
<1>1. /\ spc = "feed" /\ spc' = (IF z THEN "flush" ELSE "data")
      /\ nextIn' = nextIn + got /\ got' = left /\ left' = 0 /\ pending' = <<>> /\ Emit(<<b>>)
      /\ history' = (IF z THEN history ELSE Forgotten(checkVal'.to))
      /\ UNCHANGED <<cfg, total, in, nextBuf, more, start, have, rd, ulen>>
  BY DEF Feed, At, callVars
<1>2. Buffered /\ Engaged /\ Working /\ Counted
  BY <1>1 DEF InBlocks, Bounds
<1>3. /\ total \in Nat /\ rd \in 0 .. total /\ ulen = rd /\ cfg.block \in Nat /\ clen \in Nat
      /\ got \in Nat /\ nextIn \in Nat /\ more \in Nat /\ start \in Nat /\ left \in Nat
      /\ have \in Nat /\ Held = got + left
  BY <1>1 DEF Grounded, Settings, Bounds, Held
<1>4. /\ \A i \in 0 .. Held - 1 : in[nextIn + i] = c + i
      /\ \A i \in 0 .. more - 1 : nextBuf[start + i] = c + Held + i
      /\ nextIn + Held <= cfg.block /\ start + more <= cfg.block
      /\ c \in Nat /\ (more = 0 => rd = total) /\ Allocated
  BY <1>1, <1>2 DEF Buffered
<1>5. /\ checkVal' = Interval(0, c + got) /\ n \in Nat /\ B \in Nat /\ history \in 0 .. B
      /\ B + n = c + got /\ c + got + left + more = rd
      /\ b \in Items /\ b.kind = "block" /\ b.to = B + n /\ b.last = z
      /\ (z => c + got = total) /\ (~z => c + got < total)
  BY FeedBlock
<1> HIDE DEF b, c, B, n
<1>6. /\ Outputs' /\ clen' \in Nat /\ Counted'
      /\ Written' # <<>> /\ Written'[Len(Written')] = b
  BY <1>1, <1>2, <1>3, <1>5, EmittedOne
<1>7. checkVal'.to = c + got /\ checkVal'.from = 0 /\ checkVal' \in [from : {0}, to : Nat]
  <2>1. c + got \in Nat  BY <1>3, <1>4
  <2> QED  BY <1>5, <2>1 DEF Interval
<1>8. history' \in 0 .. total /\ (~z => history' \in 0 .. c + got)
      /\ (~z /\ ~cfg.setdict => history' = c + got)
  <2>1. history \in 0 .. c + got /\ c + got <= total  BY <1>3, <1>4, <1>5
  <2>2. history' = history \/ history' = c + got  BY <1>1, <1>7 DEF Forgotten
  <2>3. ~z /\ ~cfg.setdict => history' = c + got  BY <1>1, <1>7 DEF Forgotten
  <2> QED  BY <1>3, <1>4, <2>1, <2>2, <2>3
<1>9. Held' = left
  <2>1. spc' \notin {"separate", "feed"}  BY <1>1
  <2>2. Held' = left + 0  BY <1>1, <2>1 DEF Held
  <2> QED  BY <1>3, <2>2
<1>10. nextIn' + Held' <= cfg'.block /\ start' + more' <= cfg'.block
  BY <1>1, <1>3, <1>4, <1>9
<1>11. Bounds'
  <2>1. got' \in Nat /\ nextIn' \in Nat /\ left' \in Nat  BY <1>1, <1>3
  <2>2. in' \in [DOMAIN in' -> Positions] /\ nextBuf' \in [DOMAIN nextBuf' -> Positions]
    BY <1>1, <1>4 DEF Allocated
  <2> QED  BY <1>1, <1>3, <1>6, <1>8, <1>10, <2>1, <2>2 DEF Bounds
<1>12. CASE z
  <2>1. spc' = "flush"  BY <1>1, <1>12
  <2>2. Complete'
    BY <1>1, <1>3, <1>4, <1>5, <1>6, <1>12 DEF Complete
  <2>3. Places' /\ ~InBlocks' /\ Before' /\ After'
    BY <2>1, <2>2 DEF Places, InBlocks, Before, After
  <2> QED  BY <1>6, <1>11, <2>3
<1>13. CASE ~z
  <2>1. spc' = "data"  BY <1>1, <1>13
  <2>2. Places' /\ Before' /\ After'  BY <2>1 DEF Places, Before, After
  <2>3. Buffered'
    <3>1. Allocated'  BY <1>1, <1>4 DEF Allocated
    <3>2. \A i \in 0 .. Held' - 1 : in'[nextIn' + i] = checkVal'.to + i
      <4>1. ASSUME NEW i \in 0 .. left - 1 PROVE in[(nextIn + got) + i] = (c + got) + i
        <5>1. /\ got + i \in 0 .. Held - 1 /\ (nextIn + got) + i = nextIn + (got + i)
              /\ (c + got) + i = c + (got + i)
          BY <1>3, <1>4
        <5>2. in[nextIn + (got + i)] = c + (got + i)  BY <1>4, <5>1
        <5> QED  BY <5>1, <5>2
      <4> QED  BY <1>1, <1>7, <1>9, <4>1
    <3>3. \A i \in 0 .. more' - 1 : nextBuf'[start' + i] = checkVal'.to + Held' + i
      <4>1. ASSUME NEW i \in 0 .. more - 1 PROVE nextBuf[start + i] = (c + got) + left + i
        <5>1. (c + got) + left + i = c + (got + left) + i  BY <1>3, <1>4
        <5>2. nextBuf[start + i] = c + Held + i  BY <1>4
        <5> QED  BY <1>3, <5>1, <5>2
      <4> QED  BY <1>1, <1>7, <1>9, <4>1
    <3>4. checkVal'.to + Held' + more' = rd'  BY <1>1, <1>5, <1>7, <1>9
    <3>5. more' = 0 => rd' = total'  BY <1>1, <1>4
    <3> QED  BY <1>7, <1>10, <3>1, <3>2, <3>3, <3>4, <3>5 DEF Buffered
  <2>4. Engaged'
    <3>1. BlockStart' = c + got /\ Len(pending') = 0
      <4>1. BlockStart' = (c + got) - 0  BY <1>1, <1>7 DEF BlockStart
      <4>2. (c + got) - 0 = c + got  BY <1>3, <1>4
      <4> QED  BY <1>1, <4>1, <4>2
    <3>2. PICK p : p = c + got  OBVIOUS
    <3>3. Midway(p)'  BY <1>5, <1>6, <1>13, <3>2 DEF Midway
    <3>4. Midway(BlockStart)'
      <4> HIDE DEF Midway
      <4> QED  BY <3>1, <3>2, <3>3
    <3>5. Run(BlockStart, Len(pending))' = <<>>
      <4>1. Run(p, 0) = <<>>
        <5>1. p \in Int /\ 0 \in Nat  BY <1>3, <1>4, <3>2
        <5> QED  BY <5>1, RunIs
      <4>2. Run(BlockStart, Len(pending))' = Run(p, 0)  BY <3>1, <3>2 DEF Run
      <4> QED  BY <4>1, <4>2
    <3>6. c + got \in Nat  BY <1>3, <1>4
    <3> HIDE DEF Midway
    <3> QED  BY <1>1, <1>8, <1>13, <3>1, <3>4, <3>5, <3>6 DEF Engaged
  <2>5. Working'  BY <1>1, <1>5, <1>7, <1>13, <2>1 DEF Working
  <2> QED  BY <1>6, <1>11, <2>2, <2>3, <2>4, <2>5
<1> QED  BY <1>12, <1>13

-------------------------------------------------------------------------------
(* The invariant. *)

LEMMA BeginRestarts ==
  ASSUME CallCompress \/ CallBuffer
  PROVE  /\ Restart /\ total' \in Nat /\ spc' \in {"parallel", "header", "direct"}
BY InputsAssumption DEF CallCompress, CallBuffer, Begin, Compress

LEMMA DataStep ==
  ASSUME CompInv, Next
  PROVE  DataInv'
<1>1. CASE CallCompress \/ CallBuffer
  BY <1>1, BeginRestarts, StartData
<1>2. CASE Parallel
  BY <1>2, FailData
<1>3. CASE DirectFeed \/ DirectFinish \/ DirectTrailer
  BY <1>3, DirectFeedData, DirectFinishData, TrailerData
<1>4. CASE Single
  BY <1>4, WriteHeaderData, IsalReadData, InitEngineData, ReadFirstData, GetDataData, ScanData,
     MergeData, RefillData, SeparateData, FeedPieceData, FeedData, FlushData, TrailerData, FailData
     DEF Single
<1>5. CASE Terminated
  <2>1. spc' \in {"returned", "threw", "waits", "terminated"}
    BY <1>5 DEF Terminated, Ended, vars, singleVars
  <2>2. UNCHANGED <<cfg, total, rd, ulen, in, nextBuf, nextIn, got, more, start, left,
                    have, history, clen, out, sink>>
    BY <1>5 DEF Terminated, vars, singleVars, callVars, bufferVars, engineVars, outputVars, countVars
  <2>3. Outputs'
    <3>1. Items' = Items  BY <2>2 DEF Items
    <3> QED  BY <2>2, <3>1 DEF CompInv, DataInv, Outputs
  <2> QED  BY <2>1, <2>2, <2>3, EndData
<1> QED  BY <1>1, <1>2, <1>3, <1>4, <1>5 DEF Next

LEMMA StutterInv ==
  ASSUME CompInv, UNCHANGED vars
  PROVE  CompInv'
<1> USE DEF CompInv, DataInv, vars, singleVars, callVars, bufferVars, engineVars, outputVars, countVars
<1>1. Grounded'  BY DEF Grounded, Ended, InSingle, ThreadsBusy
<1>2. Places' /\ (InBlocks' <=> InBlocks)  BY DEF Places, InBlocks
<1>3. Outputs'
  <2>1. Items' = Items  BY DEF Items
  <2> QED  BY <2>1 DEF Outputs
<1>4. Held' = Held  BY DEF Held
<1>5. Bounds'  BY <1>2, <1>4 DEF Bounds, Counted
<1>6. Before'
  BY DEF Before, Unstarted, Headed, Allocated, Streaming
<1>7. After'
  BY DEF After, Complete, Written
<1>8. InBlocks' => Buffered' /\ Working'
  <2> SUFFICES ASSUME InBlocks PROVE Buffered' /\ Working'  BY <1>2
  <2>1. Working'  BY DEF Working
  <2>2. Buffered'  BY <1>4 DEF Buffered, Allocated
  <2> QED  BY <2>1, <2>2
<1>9. InBlocks' => Engaged'
  <2> SUFFICES ASSUME Engaged PROVE Engaged'  BY <1>2
  <2>1. BlockStart' = BlockStart /\ Written' = Written  BY DEF BlockStart, Written
  <2>2. PICK p : p = BlockStart  OBVIOUS
  <2>3. Midway(p)'
    <3>1. Midway(p)  BY <2>2 DEF Engaged
    <3> QED  BY <2>1, <3>1 DEF Midway
  <2>4. Midway(BlockStart)'
    <3> HIDE DEF Midway
    <3> QED  BY <2>1, <2>2, <2>3
  <2>5. Run(BlockStart, Len(pending))' = Run(BlockStart, Len(pending))  BY <2>1 DEF Run
  <2> HIDE DEF Midway
  <2> QED  BY <2>1, <2>4, <2>5 DEF Engaged
<1> QED  BY <1>1, <1>2, <1>3, <1>5, <1>6, <1>7, <1>8, <1>9

\* In every state the call is at a place where all that the settings, the
\* buffers, the engine and the output have to do with each other holds.
THEOREM CompressorInvariant == Spec => []CompInv
<1>1. ASSUME CompInv, [Next]_vars PROVE CompInv'
  <2>1. CASE Next
    <3>1. Grounded'  BY <1>1, <2>1, GroundedStep
    <3>2. DataInv'  BY <1>1, <2>1, DataStep
    <3> QED  BY <3>1, <3>2 DEF CompInv
  <2>2. CASE UNCHANGED vars
    BY <1>1, <2>2, StutterInv
  <2> QED  BY <1>1, <2>1, <2>2
<1> QED  BY <1>1, InitInv, PTL DEF Spec

-------------------------------------------------------------------------------
(* What follows from it. *)

\* The indices of single_compress stay in their buffers for any sizes of the
\* blocks and any places where the hash hits (compress.cpp:557-610).
THEOREM CompressorTypeCorrect == Spec => []TypeOK
<1>1. CompInv => TypeOK
  <2> SUFFICES ASSUME CompInv PROVE TypeOK  OBVIOUS
  <2> USE DEF CompInv, DataInv
  <2>1. cfg \in Settings /\ cfg.block \in Nat \ {0} /\ shift = cfg.block /\ total \in Nat
    BY DEF Grounded, Settings
  <2>2. Held = got + (IF spc \in {"separate", "feed"} THEN left ELSE 0)  BY DEF Held
  <2>3. in # Fresh(0) => nextIn + got + (IF spc \in {"separate", "feed"} THEN left ELSE 0) <= cfg.block
    <3>1. got \in Nat /\ nextIn \in Nat /\ left \in Nat  BY DEF Bounds
    <3>2. nextIn + (got + (IF spc \in {"separate", "feed"} THEN left ELSE 0))
            = nextIn + got + (IF spc \in {"separate", "feed"} THEN left ELSE 0)
      BY <3>1
    <3>3. in # Fresh(0) => nextIn + Held <= cfg.block  BY DEF Bounds
    <3> QED  BY <2>2, <3>2, <3>3
  <2>4. in # Fresh(0) => start + more <= cfg.block  BY DEF Bounds
  <2>5. Places /\ via \in {"file", "pipe", "memory"} /\ calls \in 0 .. MaxCalls  BY DEF Grounded
  <2>6. /\ rd \in 0 .. total /\ ulen \in 0 .. total
        /\ in \in [DOMAIN in -> Positions] /\ nextBuf \in [DOMAIN nextBuf -> Positions]
        /\ got \in Nat /\ nextIn \in Nat /\ more \in Nat /\ start \in Nat /\ left \in Nat
        /\ have \in Nat /\ history \in 0 .. total /\ clen \in Nat
    BY DEF Bounds
  <2> QED  BY <2>1, <2>3, <2>4, <2>5, <2>6 DEF TypeOK, Settings, Places
<1> QED  BY <1>1, CompressorInvariant, PTL

\* With -i a reader can start at any block: none refers to what precedes it,
\* however the blocks are cut (compress.cpp:600-608, 647-648).
THEOREM BlocksIndependent == Spec => []Independent
<1>1. CompInv => Independent
  <2> SUFFICES ASSUME CompInv, ~cfg.setdict, NEW i \in 1 .. Len(sink), sink[i].kind = "block"
               PROVE  sink[i].dictFrom = sink[i].dictTo
    BY DEF Independent
  <2>1. sink \in Seq(Items)  BY DEF CompInv, DataInv, Outputs
  <2>2. sink[i] \in Items  BY <2>1, ElementOfSeq
  <2> QED  BY <2>2 DEF Items, Headers, Trailers
<1> QED  BY <1>1, CompressorInvariant, PTL

\* What the trailer says of the compressed length is what has been written
\* after the header (compress.cpp:436-441, 537-542, 694).
THEOREM TrailerCounts == Spec => []ClenCounts
<1>1. CompInv => ClenCounts
  BY DEF CompInv, DataInv, Bounds, After, Counted, ClenCounts
<1> QED  BY <1>1, CompressorInvariant, PTL

\* The pipeline only gets settings it can work with, also on a Compressor that
\* was used before, and single_compress only gets a descriptor
\* (compress.cpp:297, 303-304, 320, 1003).
THEOREM WaysGrounded == Spec => []PathsGrounded
<1>1. CompInv => PathsGrounded
  BY DEF CompInv, Grounded, PathsGrounded
<1> QED  BY <1>1, CompressorInvariant, PTL

\* No thread is started that has less than two blocks of the file to compress
\* (compress.cpp:300-313).
THEOREM NoIdleThreads == Spec => []ThreadsBusy
<1>1. CompInv => ThreadsBusy
  BY DEF CompInv, Grounded
<1> QED  BY <1>1, CompressorInvariant, PTL

-------------------------------------------------------------------------------
(* The output is the stream that was promised. *)

LEMMA AddsBlock ==
  ASSUME NEW t \in Nat, t = total, NEW p \in Nat, Midway(p), NEW b, b \in Items, b.kind = "block",
         b.from = p, b.dictTo = p, b.dictFrom \in 0 .. p, b.to \in p .. total,
         b.last = (b.to = total), b.to = p => total = 0,
         Written' = Append(Written, b)
  PROVE  Stream(t)!Next
<1> DEFINE w == Written
<1>1. b = [kind |-> "block", from |-> p, to |-> b.to, dictFrom |-> b.dictFrom,
           dictTo |-> p, last |-> b.to = t]
  <2>1. b \in Blocks  BY DEF Items, Headers, Trailers
  <2>2. b = [kind |-> b.kind, from |-> b.from, to |-> b.to, dictFrom |-> b.dictFrom,
             dictTo |-> b.dictTo, last |-> b.last]
    BY <2>1 DEF Blocks
  <2> QED  BY <2>2
<1>2. Stream(t)!Unfinished /\ Stream(t)!Restored = p
  BY DEF Midway, Written, Stream!Unfinished, Stream!Restored
<1>3. Stream(t)!Deflated(p, b.to, b.dictFrom, p, b.to = t) = b
  BY <1>1 DEF Stream!Deflated
<1>4. (sink \o out)' = Append(sink \o out, Stream(t)!Deflated(p, b.to, b.dictFrom, p, b.to = t))
  BY <1>3 DEF Written
<1>5. Stream(t)!AddBlock
  BY <1>2, <1>4 DEF Stream!AddBlock
<1> QED  BY <1>5 DEF Stream!Next

\* The header is all there is.
LEMMA HeadedMidway ==
  ASSUME Headed, out = <<>>
  PROVE  Midway(0)
<1>1. Written = <<Stream(0)!Header>>  BY DEF Headed, Written
<1> QED  BY <1>1, ItemsAre DEF Midway

LEMMA BeginsStream ==
  ASSUME NEW t, sink = <<>>, out = <<>>, out' = <<>>, sink' = <<Stream(0)!Header>>
  PROVE  Stream(t)!Next
<1>1. sink \o out = <<>> /\ (sink \o out)' = <<Stream(0)!Header>>  OBVIOUS
<1>2. Stream(0)!Header = Stream(t)!Header  BY DEF Stream!Header
<1> QED  BY <1>1, <1>2 DEF Stream!Next, Stream!Begin

LEMMA EndsStream ==
  ASSUME NEW t \in Nat, t = total, Outputs, Complete, out = <<>>, out' = <<>>, cfg' = cfg,
         sink' = Append(sink, Stream(0)!Trailer(ulen, checkVal))
  PROVE  Stream(t)!Next
<1>1. ulen = total /\ checkVal = Interval(0, total)  BY DEF Complete
<1>2. Stream(0)!Trailer(ulen, checkVal) \in Items  BY <1>1, ItemsAre
<1>3. Written' = Append(Written, Stream(0)!Trailer(ulen, checkVal))  BY <1>2, Appended
<1>4. Stream(0)!Trailer(ulen, checkVal) = Stream(t)!Trailer(t, Stream(t)!Interval(0, t))
  BY <1>1 DEF Stream!Trailer, Stream!Interval, Interval
<1>5. /\ sink \o out # <<>> /\ (sink \o out)[Len(sink \o out)].kind = "block"
      /\ (sink \o out)[Len(sink \o out)].last = TRUE
  BY DEF Complete, Written
<1> QED  BY <1>3, <1>4, <1>5 DEF Stream!Next, Stream!End, Written

LEMMA WritesNext ==
  ASSUME CompInv, Next, NEW t, t = total
  PROVE  Restart \/ Written' = Written \/ Stream(t)!Next
<1> USE DEF CompInv, DataInv
<1>1. CASE CallCompress \/ CallBuffer
  BY <1>1, BeginRestarts
<1>2. CASE Parallel \/ Terminated \/ ReadError \/ WriteError
  BY <1>2 DEF Parallel, Terminated, ReadError, WriteError, vars, singleVars, outputVars, Written
<1>3. CASE InitEngine \/ ReadFirst \/ GetData \/ ScanHit \/ ScanMiss \/ Merge \/ Refill \/ Separate
  BY <1>3 DEF InitEngine, ReadFirst, GetData, ScanHit, ScanMiss, Merge, Refill, Separate,
    outputVars, Written
<1>4. total \in Nat /\ rd \in 0 .. total /\ cfg \in Settings /\ clen \in Nat /\ Outputs /\ t \in Nat
  BY DEF Grounded, Bounds
<1>5. CASE WriteHeader
  <2>1. sink = <<>> /\ out = <<>> /\ out' = <<>> /\ sink' = <<Stream(0)!Header>>
    BY <1>5 DEF WriteHeader, At, Before, Unstarted
  <2> QED  BY <2>1, BeginsStream
<1>6. CASE DirectFeed
  <2>1. /\ spc = "direct" /\ out' = out
        /\ sink' = IF sink = <<>> THEN <<Stream(0)!Header>> ELSE sink
    BY <1>6 DEF DirectFeed, At
  <2>2. out = <<>>  BY <2>1 DEF Before, Streaming
  <2>3. CASE sink = <<>>  BY <2>1, <2>2, <2>3, BeginsStream
  <2>4. CASE sink # <<>>  BY <2>1, <2>2, <2>4 DEF Written
  <2> QED  BY <2>3, <2>4
<1>7. CASE WriteTrailer \/ DirectTrailer
  <2>1. /\ spc \in {"trailer", "zlibTrailer"} /\ out' = out /\ cfg' = cfg
        /\ sink' = Append(sink, Stream(0)!Trailer(ulen, checkVal))
    BY <1>7 DEF WriteTrailer, DirectTrailer, At, callVars
  <2>2. Complete /\ out = <<>>  BY <2>1 DEF After
  <2> QED  BY <1>4, <2>1, <2>2, EndsStream
<1>8. CASE Flush
  <2>1. FlushOutput /\ cfg' = cfg  BY <1>8 DEF Flush, callVars
  <2> QED  BY <1>4, <2>1, Flushed
<1>9. CASE FeedPiece
  <2>1. Emit(<<>>) /\ cfg' = cfg  BY <1>9 DEF FeedPiece, callVars
  <2> QED  BY <1>4, <2>1, EmittedNothing
<1>10. CASE DirectFinish
  <2>1. /\ spc = "deflated" /\ out' = out /\ cfg' = cfg
        /\ sink' = Append(sink, Block(pending, TRUE))
    BY <1>10 DEF DirectFinish, At, callVars
  <2>2. Streaming /\ Headed /\ rd = total  BY <2>1 DEF Before
  <2> DEFINE b == Block(pending, TRUE)
  <2>3. /\ b \in Items /\ b.kind = "block" /\ b.last = TRUE /\ b.from = 0 /\ b.to = total
        /\ b.dictFrom = 0 /\ b.dictTo = 0
    <3>1. b = Block(Run(0, total), TRUE)  BY <2>2 DEF Streaming
    <3> QED  BY <1>4, <2>2, <3>1, WholeBlock DEF Streaming
  <2> HIDE DEF b
  <2>4. Written' = Append(Written, b)
    BY <1>4, <2>1, <2>2, <2>3, Appended DEF Streaming, b
  <2>5. Midway(0)  BY <2>2, HeadedMidway DEF Streaming
  <2>6. b.dictFrom \in 0 .. 0 /\ b.to \in 0 .. total /\ (b.to = 0 => total = 0) /\ 0 \in Nat
    BY <1>4, <2>3
  <2>7. b.last = (b.to = total)  BY <2>3, Zenon
  <2> QED  BY <1>4, <2>3, <2>4, <2>5, <2>6, <2>7, AddsBlock
<1>11. CASE IsalRead
  <2> DEFINE n == Rest(IoBuf)
  <2>1. spc = "isal" /\ cfg' = cfg  BY <1>11 DEF IsalRead, callVars
  <2>2. Streaming /\ Headed  BY <2>1 DEF Before
  <2>3. CASE n < IoBuf
    <3>1. Emit(<<Block(pending \o Run(rd, n), TRUE)>>)  BY <1>11, <2>3 DEF IsalRead
    <3> DEFINE b == Block(pending \o Run(rd, n), TRUE)
    <3>2. n \in Nat /\ rd + n = total  BY <1>4, <2>3, RestIs, SizesAssumption
    <3>3. pending \o Run(rd, n) = Run(0, total)
      <4> HIDE DEF n
      <4> QED  BY <1>4, <2>2, <3>2, StreamedOn
    <3>4. /\ b \in Items /\ b.kind = "block" /\ b.last = TRUE /\ b.from = 0 /\ b.to = total
          /\ b.dictFrom = 0 /\ b.dictTo = 0
      BY <1>4, <2>2, <3>3, WholeBlock DEF Streaming
    <3> HIDE DEF b
    <3>5. Written' = Append(Written, b)
      <4>1. Emit(<<b>>)  BY <3>1 DEF b
      <4> QED  BY <1>4, <2>1, <3>4, <4>1, EmittedOne
    <3>6. Midway(0)  BY <2>2, HeadedMidway DEF Streaming
    <3>7. b.dictFrom \in 0 .. 0 /\ b.to \in 0 .. total /\ (b.to = 0 => total = 0) /\ 0 \in Nat
      BY <1>4, <3>4
    <3>8. b.last = (b.to = total)  BY <3>4, Zenon
    <3> QED  BY <1>4, <3>4, <3>5, <3>6, <3>7, <3>8, AddsBlock
  <2>4. CASE ~(n < IoBuf)
    BY <1>11, <2>4 DEF IsalRead, outputVars, Written
  <2> QED  BY <2>3, <2>4
<1>12. CASE Feed
  <2> DEFINE z == more = 0 /\ left = 0
             b == Block(pending \o Slice(in, nextIn, got), z)
             c == checkVal.to
             B == BlockStart
             n == Len(pending) + got
  <2>1. /\ n \in Nat /\ B \in Nat /\ B + n = c + got
        /\ b \in Items /\ b.kind = "block" /\ b.from = B /\ b.to = B + n
        /\ b.dictTo = B /\ b.dictFrom \in 0 .. B /\ b.last = z
        /\ (z => c + got = total) /\ (n = 0 => total = 0) /\ (~z => c + got < total)
    BY <1>12, FeedBlock
  <2>2. Midway(B)  BY <1>12 DEF Feed, At, InBlocks, Engaged
  <2>3. Emit(<<b>>) /\ cfg' = cfg  BY <1>12 DEF Feed, callVars
  <2> HIDE DEF b, c, B, n, z
  <2>4. Written' = Append(Written, b)
    BY <1>4, <2>1, <2>3, EmittedOne
  <2>5. b.to \in B .. total /\ (b.to = B => total = 0) /\ b.last = (b.to = total)
    <3>1. z \in BOOLEAN  BY DEF z
    <3>2. c + got <= total /\ (z <=> c + got = total)  BY <1>4, <2>1
    <3>3. b.to \in B .. total /\ (b.to = B => n = 0)  BY <1>4, <2>1, <3>2
    <3>4. b.last = (b.to = total)
      <4>1. (z <=> b.to = total)  BY <2>1, <3>2
      <4> QED  BY <2>1, <3>1, <4>1
    <3> QED  BY <2>1, <3>3, <3>4
  <2> QED  BY <1>4, <2>1, <2>2, <2>4, <2>5, AddsBlock
<1> QED  BY <1>1, <1>2, <1>3, <1>5, <1>6, <1>7, <1>8, <1>9, <1>10, <1>11, <1>12 DEF Next, Single

\* Whatever cuts the blocks, wherever the data is moved on the way, with
\* ISA-L, zlib or a call on memory, and however far a call gets: its output is
\* a beginning of the stream CompressStream promises for its input
\* (compress.cpp:362-402, 446-500, 557-654).
THEOREM OutputIsTheStream == Spec => WritesStream
<1> DEFINE A == Restart \/ \E t \in Inputs : t = total /\ Stream(t)!Next
<1>1. ASSUME CompInv, [Next]_vars PROVE [A]_(sink \o out)
  <2>1. CASE UNCHANGED vars
    <3>1. UNCHANGED (sink \o out)  BY <2>1 DEF vars, singleVars, outputVars
    <3> QED  BY <3>1
  <2>2. CASE Next
    <3> PICK t : t = total  OBVIOUS
    <3>1. Restart \/ Written' = Written \/ Stream(t)!Next  BY <1>1, <2>2, WritesNext
    <3>2. CASE Written' = Written
      BY <3>2 DEF Written
    <3>3. CASE Stream(t)!Next /\ ~Restart
      <4>1. total \in Inputs \/ Written' = Written
        <5>1. CASE ~Ended  BY <1>1, <5>1 DEF CompInv, Grounded
        <5>2. CASE Ended
          <6>1. Terminated
            BY <2>2, <3>3, <5>2, BeginRestarts DEF Next, Ended, Parallel, DirectFeed, DirectFinish,
              DirectTrailer, Single, WriteHeader, IsalRead, InitEngine, ReadFirst, GetData, ScanHit,
              ScanMiss, Merge, Refill, Separate, FeedPiece, Feed, Flush, WriteTrailer, ReadError,
              WriteError, At
          <6> QED  BY <6>1 DEF Terminated, vars, singleVars, outputVars, Written
        <5> QED  BY <5>1, <5>2
      <4>2. CASE total \in Inputs
        BY <3>3, <4>2
      <4> QED  BY <4>1, <4>2 DEF Written
    <3> QED  BY <3>1, <3>2, <3>3
  <2> QED  BY <1>1, <2>1, <2>2
<1> QED  BY <1>1, CompressorInvariant, PTL DEF Spec, WritesStream
===============================================================================
