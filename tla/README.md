# A verification project for pigzpp

pigzpp compresses and decompresses gzip, zlib and zip data with several threads.
This directory holds TLA+ models of its concurrent core, the TLC configurations
that check them and TLAPS proofs about the most important of them. Paths are
relative to `src/src/pigzpp/` unless they say otherwise. A module is checked with
`tlc -config <cfg> <MC module>` and a proof with `tlapm <module>`.

## 1. The system

| component | state | operations | what is hard |
|---|---|---|---|
| parallel compression, `Compressor::parallel_compress` (`compress.cpp:703-1149`) | input pool, job queue, write ring, one job per block | the main thread reads and makes jobs, n threads compress, one thread writes | two condition variables, jobs shared by two threads, a ring guarded by nothing but the pool's limit, boundaries chosen by the input (`-R`), failures in any thread |
| single-threaded and in-memory compression, dispatch (`compress.cpp:267-699`) | the configuration, which `compress()` changes; two buffers with indices into them, the engine, the output buffer | `compress`, `compress_buffer`, `direct_compress`, `single_compress` | block size and thread count by file size, one object used again, data moved between buffers while it is scanned |
| rsyncable length coding (`compress.cpp:115-162`) | none; the list of codes is part of a job | `append_len`, `decode_len` and the loops that use them | boundaries between forms |
| buffer pool (`pool.h`) | free list, limit | `get`, the deleter of `BufferPtr`, `put_raw` | a lock that is let go of in `get`, lost notifications |
| input reader (`format.h`, `format.cpp:269-400`) | two buffers, a cursor, the read-ahead thread | `load`, `get`, `consume`, `restore`, destructor | one buffer is filled while the other is used |
| decompression, `Decompressor::infchk` and `ParallelOutput` (`decompress.cpp`) | the member, inflate's cursor, one output buffer shared by three threads | headers, inflate, output, sums, next member | hand-off through two atomics, exceptions while threads run |
| headers and trailers (`format.cpp`) | none | `build_header`, `get_header`, `put_trailer` | 32-bit fields and zip64, data descriptors of four kinds |
| command line (`main.cpp`) | files, the output registered for the signal handler | `process`, `cut_short` | SIGINT and power failure between any two steps |
| zip archives (`zip.cpp`) | entries, offset, sink; for the reader the listed entries | add, append, `write_central`, destructor, `parse_archive` | appending truncates first, closing twice, fields of 16, 32 and 64 bits |
| png (`png.cpp`) | none beyond a call | `encode`, `decode` | filters undone byte by byte, adaptive selection, lengths cut to 32 bits, damaged files |
| C API (`capi.cpp`), bindings, platform | none of their own | | |

They interact as follows. `process` in `main.cpp` makes a `Compressor` or a
`Decompressor` for every file and calls it with two descriptors. The compressor
takes buffers from pools and passes them on inside jobs (shared pointers) from the
main thread to a compress thread and to the write thread; the pool gets a buffer
back from whichever thread lets go last. The decompressor's main thread calls the
reader, whose read-ahead thread runs by itself, and hands what inflate restores to
`ParallelOutput`. Errors are exceptions on the main thread; an exception in any
other thread is `std::terminate`.

What makes each component correct:

* *compression*: the output is one stream with every byte of the input once and in
  order, primed with history that precedes it, and with the right sums, whatever
  the threads do; nothing is overwritten in the ring; the call ends;
* *pool*: a buffer has one owner at a time, the limit holds, nobody sleeps while there is a buffer;
* *reader and decompression*: the units of the input arrive in order, inflate's
  buffer is not refilled under it, what is checked is what is written, an input is
  accepted exactly if it is intact, the call ends;
* *command line*: no contents are lost, no partial output is left, however the program ends;
* *zip*: a finished archive lists exactly what was added, whatever failed before; an
  archive half written is never taken for another one;
* *single-threaded compression*: the same promise as with threads, however data moves
  between buffers; a call's settings suit its input and whatever way it takes, also when the
  object was used before; its loops end;
* *length coding*: a thread cuts its block where the hash has hit, for all distances;
* *descriptors and zip records*: what is written is read back on both sides of every
  limit; a wrong sum or length is noticed;
* *png*: `decode` returns the image that was encoded or refuses, and refuses no intact file.

## 2. Modules

**Parallel compression.** `CompressStream` is the promise: a header, blocks that
together are the input, a trailer. `ParallelCompress` is the code, one action for
each critical section or run of statements that touches nothing another thread
reads:

| action | code |
|---|---|
| `WriteHeader`, `ReadFirst`, `Advance` | `compress.cpp:723-726`, `1020-1029`, `1031-1041` |
| `Divide`, `Split` | the rolling hash, `1043-1097`; where it hits is any choice |
| `Enqueue`, `CloseQueue`, `JoinThreads`, `WriteTrailer` | `1099-1126`, `1129-1134`, `1136-1140`, `1142-1148` |
| `WorkerInit`, `WorkerTake/Wait/Exit`, `WorkerCompress`, `WorkerPublish`, `WorkerCheck` | `729-769`, `771-781`, `783-934`, `936-942`, `944-957` |
| `WriterTake/Wait`, `WriterWrite`, `WriterCombine` | `974-983`, `985-993`, `995-1006` |
| `ReadError`, `WriteError`, `WriterError` | `readn` and `writen` throwing |

Data are positions: a buffer is an interval of the input, a compressed block
names the intervals it was made from, and a check value is the interval it covers,
so that combining values in the wrong order or with the wrong length gives
`BadCheck`. A condition variable is the state `"asleep"` of a thread; `notify_one`
wakes any one of them. The input pool is represented by `Available`, the number
of buffers with references; the pool itself is `BufferPool`.

**Decompression.** `InflateStream` is the promise: what a sequence of units means
and which are intact, as a reader of the format goes through them one by one
(`Follows`, `After`): after a gzip member another one may follow, and anything else is left
alone. `failed` remembers whether a call to read or to write has failed, without which an
intact input must not be rejected. `InputReader` is the reader with its read-ahead thread,
`ParallelOutput` the hand-off to the write and check threads, and `Decompress`
composes the two with `infchk` (it extends both and calls their operations). The
input is a sequence of units (a header, a piece of data, the end of the data, good
or bad sums, junk); both engines are modelled (`isal`), which differ in what they
do on bad and truncated data: ISA-L's loop may stop at the end of the input without
asking for more (`ISAL_END_INPUT`, `decompress.cpp:371-372`, in `Incomplete`). The sums of a
zip entry are behind its data (`"zipd"`) or in its header, right (`"zip"`) or wrong
(`"zipbad"`).

**`BufferPool`** is `pool.h` with its lock: `get` in three steps (reserve, make,
take), sleeping and waking (with spurious wake-ups), put by whatever thread, and a
reference passed to another thread.

**`CliProcess`** is `process` and `cut_short` for a list of files, with what is on
the disk: whose contents, whether they are whole, whether they are synced. A conversion ends
well (`Convert`), with an exception (`ConvertFails`, `Discard`, `Forget`) or with
`std::terminate` in a write thread, which leaves the output as it is (`ConvertDies`). Behind
it `Finish` calls `sync` and `close`, and what they return is ignored (`main.cpp:326-327`):
`Closed` is that they succeed, `ClosedBadly` that one of them fails and part of the output is
missing or may not be permanent. `spoiled`, a history variable, is the set of contents this
has happened to.

**`ZipArchive`** is `ZipWriter` on a file. The file is a sequence of units (local
header, data, directory entry, end record, the remains of a write that failed), and
offsets count units; `offset` is what `Sink` counts and `pos` where the descriptor
really is. `Create`, `OpenAppend` and `SeekFails` are the constructors
(`zip.cpp:516-547`), `Add`, `WriteHeader` and `WritePayload` are `add` (`422-459`),
`Close`, `Destroy`, `WriteDirectory` and `WriteEnd` are `write_central` and its two
callers (`461-510`, `549-555`, `599`), and `Crash` kills the program between any two
of them. `Listed`, `Directory` and `Present` are what `parse_archive` and
`read_entry` accept. `before` and `added` record what was promised to the caller.

**`ZipLayout`** is the same file in numbers: a set of records, each with the place where
it starts and the fields it has, `Low32`, `MaxShort` and `MaxCount` standing for the
largest values of the fields. `Add` and `Finish` are `ZipWriter` (`zip.cpp:343-509`),
`Stream` is the archive with one member that the command line writes
(`format.cpp:157-256`), `Locate`, `ListEntry` and `Listed` are `parse_archive`
(`233-329`), `Reopen` is a writer that appends to what was parsed. `inTail` is a history
variable: whether every end record so far lies where `parse_archive` searches for it.
**`ZipDescriptor`**
is the data descriptor behind a streamed member: `Describe` writes it
(`format.cpp:167-176`) and may change a word, `Verify` is how `infchk` reads it word
by word (`decompress.cpp:428-451`).

**Single-threaded compression.** `SingleCompress` has the two buffers as functions
from indices to positions of the input, so that every copy counts: `ReadFirst`,
`GetData`, `ScanHit`, `ScanMiss`, `Merge`, `Refill`, `Separate`, `FeedPiece`, `Feed`
and `Flush` follow `compress.cpp:508-699`, `IsalRead` the loop of ISA-L (`446-500`).
`Compressor` extends it with the object: its configuration, `compress()`
(`263-321`), `compress_buffer()` (`323-360`) and `direct_compress()` (`362-402`),
called several times; `parallel_compress` is one step there, which has the outcomes that
`ParallelCompress` gives it: it returns, throws, waits for ever or terminates the program. Its output is compared
with the same `CompressStream` as that of the threads.

**`RsyncLens`** has real bytes: `Code` is `append_len`, `Decoded` and `Size` are
`decode_len`, `Hit` and `EndOfBlock` the main thread and `Piece` the compress thread
that reads the codes.

**`PngCodec`** encodes an image row by row (`FilterRow`, `TryFilter`: the filters and the
adaptive selection, `png.cpp:262-345`), writes its chunks (`WriteChunks`), one of which may
be damaged, lost or repeated or a cut or an addition made to the file (`Damage`,
`Annotate`), and decodes the file (`Open`,
`ReadChunk`, `Inflate`, `UnfilterByte`, `544-630`, `349-374`). Bytes are numbers below `Base`.
All four lengths that are cast to `uInt` are (`Cut`; `216`, `220`, `249`, `251`); rows that are
`dense` cannot be compressed, so that their stream is as long as they are, and others have a
stream that always fits. `ZlibInflates` is zlib, which wants the end of the stream and its check
value; `IsalTakes` is ISA-L, whose result is taken if it has filled the output (`188`), with the
rows or, if those in `compressed` are `Misplaced`, with `Garbage`.

| proof module | about |
|---|---|
| `ParallelCompressProofs` | `ParallelCompress` |
| `DecompressProofs` | `Decompress` with `InputReader` and `ParallelOutput` |
| `CompressorProofs` | `Compressor` with `SingleCompress` |
| `BufferPoolProofs` | `BufferPool` |
| `CliProcessProofs` | `CliProcess` |
| `ZipArchiveProofs` | `ZipArchive` |
| `PngCodecProofs` | `PngCodec` |
| `CodecProofs` | `RsyncLens`, `ZipDescriptor` and `ZipLayout` |

`MCParallelCompress`, `MCDecompress`, `MCBufferPool`, `MCCliProcess`, `MCZipArchive` and
`MCCompressor` hold the inputs and symmetries for TLC. `MCCodecs` puts `ZipLayout`,
`ZipDescriptor`, `RsyncLens` and `PngCodec` side by side; they share nothing, and each
behaviour runs one of them.

## 3. What is checked

Passing runs:

| run | instance | properties |
|---|---|---|
| `parallel_safe` | 3 compress threads, input of 15 blocks; no faults, deadlock checked | `RingSlotFree`, `NoLostWakeup`, `AllReleased` |
| `parallel_faults` | 2 threads, 10 bytes in blocks of 4 with a window of 4, `-R`, all faults, fair | `TypeOK`, `JobIntact`, `FullHistory`, `CopyWithinDict`, `WritesStream`, `OneWorkerSuffices` |
| `inflate_safe` | every input of up to 4 units behind a gzip header, two gzip members, and single ones of all formats; buffers of 2 units; 1 and more threads, all modes, both engines, faults, fair | `TypeOK`, `InTurn`, `InflateInTurn`, `CheckedAsWritten`, `WritesContent`, `EndsUnlessThrown` |
| `compressor` | two calls on one object; inputs of 0 to 34 bytes, blocks of 2, 4 and 8; both engines, all formats, 1 to 3 threads; faults, fair | `TypeOK`, `Independent`, `ClenCounts`, `PathsGrounded`, `ThreadsBusy`, `WritesStream`, `LoopsEnd` |
| `codecs` | zip fields that hold up to 160, 40 and 1, with numbers on both sides; descriptors of 3 words' values; the 11 distances around the limits of `append_len`; all 2 by 2 images of 3 values, some with 2 channels or 3 and 4 columns, all 7 modes, both engines, one change to the file | `PngTypeOK`, `ReadsBack`, `DescriptorChecked`, `CutsWhereHit`, `AlwaysTheImage`, `IntactDecodes`, `BestFilter` |
| `pool` | 3 threads with 2 buffers each, limits none, 1 and 3, failing allocation | `TypeOK`, `Exclusive`, `WithinLimit`, `SleepsOnlyWhenOut` |
| `cli` | all options, one or two files or standard input, every kind of file, all faults | `TypeOK`, `NothingLost`, `NothingHalf` |
| `zip` | two names, steps begun while the file has less than 5 units; all faults | `TypeOK`, `ReadsBack`, `NeverHalf` |

`WritesStream` and `WritesContent` are refinements: the behaviour of the threads
implements `CompressStream` and `InflateStream` (`INSTANCE` with the sink, and for
`Decompress` with the verdict derived from how the call ended). In the run
`compressor` the sink starts anew with each call, and what is in the output buffer
counts as written.

Bounds. Three compress threads have 9 input buffers and 12 slots; 15 blocks are
more than either, so the ring is lapped and the main thread blocks on the pool.
With two threads and `-R`, a window as long as a block makes dictionaries that are
put together from two or three blocks, splits and held buffers. Two buffers of two
units are alternated several times by inputs of up to nine units. `MaxHeld` in
`BufferPool` bounds how many buffers a thread holds; three threads with two each
exceed the limit of three. An archive of `MaxUnits = 5` holds two members with data
and a third one that fails, or a directory that a failed `close` has left in the
middle; how often it is closed and appended to is not bounded. Unbounded counters
(`gets`, `seq`, `ulen`) are bounded by the input.

The inputs of `compressor` are chosen so that every block size between the default and
2 MB (`DefaultBlock`, `LargestBlock` and the doublings between them, `BlockSizes`), and one,
two and three threads, come out of the rules of `compress()`, and that the single thread scans over the end of a buffer, merges and refills; `MaxHashed`
bounds the inputs whose boundaries may be anywhere. The limits of the fields in
`codecs` are small enough for the sum of a few records to cross them, as sizes and
offsets of real archives do, and every length occurs below, on and beyond its limit; that a
limit is crossed is all that the code compares. The distances are the real ones. Two rows, two
columns and two channels are the least for which all neighbours a filter looks at
exist; `MaxUInt = 12` is crossed by the rows of the larger images, and just met by those of
others, whose streams cross it.

Deadlock is checked where the program must go on until it ends by itself
(`parallel_safe`, `compressor`, `pool`, `cli`, `zip`). `parallel_faults` and
`inflate_safe` disable it because the code may stop for ever there; the findings
below say how. `codecs` and `inflate_foreign` disable it because their behaviours are finite.

Fairness. Weak fairness for every thread, and for the one thread of `Compressor` while
a call runs: the threads are threads of the operating
system that are scheduled, locks are held for a bounded time, and the spin loops
yield. No strong fairness is assumed, and nothing is said about reads and writes
beyond that they end.

Runs that end in a violation, each a disagreement between the code and what the
repository says of it:

* `parallel_read_error`: a read error after the launch of the threads
  (`compress.cpp:1022, 1040`) unwinds without setting `compress_done`, and the
  destructors join threads that wait for it. `io_utils.h:23` promises an exception.
* `inflate_corrupt`: with more than one thread, corrupt or truncated data throws
  before `finish()`, and the destructor of `ParallelOutput` joins two spinning
  threads. `-t` is to test the integrity of the input (`main.cpp:76`).
* `inflate_foreign`: behind a gzip member any header with method 8 counts as another member
  (`decompress.cpp:490-498`, where the comment is "Check for another gzip member"): its data
  are written, and since the sums behind them are read as gzip's, the file is rejected, where
  `gzip` would leave what follows alone. No call fails in this run. `WritesContent` is checked in
  `inflate_safe` on all other inputs.
* `level11`: a `Compressor` for level 11 with two threads fails on an input too short for
  two threads, because `compress()` takes the thread away and `single_compress` hands
  level 11 to `deflateInit2` (`compress.cpp:300-313, 514`); `config.h:74` documents the level.

The models show more than the runs state:

* If `deflateInit2` fails in all compress threads (`compress.cpp:765`), the call hangs as
  after a read error (`OneWorkerSuffices` says that one thread is enough).
* Nobody looks at what `sync` and `close` return (`main.cpp:326-327`). A disk that turns out
  to be full or to fail only there loses the contents, since the input is unlinked all the same
  (336), although `-Y` is to "Force output file write to permanent storage" (`main.cpp:81`).
  `NothingLost` and `NothingHalf` except the contents in `spoiled`, and no others; without
  this exception TLC finds both violated.
* A write error with more than one thread terminates the program from its write thread
  (`compress.cpp:992`, `decompress.cpp:112`), and a SIGINT between the creation of an output and
  its registration finds nothing to remove (`main.cpp:262-300`): either leaves a partial output,
  but no more than the one that was being written, and its input is still there.
* `decode` takes what ISA-L makes of a PNG file that has lost an IDAT chunk, or has one twice,
  if it is long enough (`png.cpp:187-190`): the check value is not compared, and another image
  may come out. `AlwaysTheImage` excepts lost and repeated chunks with ISA-L, and nothing else;
  with zlib it has no exception.
* A second call on a `Compressor` runs with the threads that an earlier, smaller input left it
  (`compress.cpp:286-313`). What this must not break is in `PathsGrounded` and `ThreadsBusy`.
* Without threads and without `-R`, ISA-L compresses the whole input as one block
  (`compress.cpp:446-504`), also with `-i`, which `main.cpp:58` says to compress blocks
  independently. `Independent` is about the blocks there are.
* A write that stops midway throws without advancing `Sink::offset` (`zip.cpp:182-183`),
  and the destructor then writes a directory whose offsets are too small (`549-555`).
* The exit status is 0 although a file could not be converted (`main.cpp:313-322, 540-545`).
* If the check value equals the signature of a data descriptor, 0x08074b50, the signature in
  front of it is taken for the check value, the words behind it are each read one place too
  early, and the archive is refused although it is intact (`decompress.cpp:434-440`;
  `Ambiguous` in `ZipDescriptor`).
* Names and comments of 64 KB and more are written in full with the length cut to 16
  bits (`zip.cpp:391-394`), and a comment within 20 bytes of 64 KB hides the locator of
  ZIP64 from the part of the file that `parse_archive` searches (`254-283`). Such an archive
  of more than 65535 members is read as its first 65535, and a writer that appends to it drops
  the others for good (`517-536`); `Fits` in `ZipLayout` is about every end record so far, not
  only the last one, because a comment set later hides what was lost.
* `encode` accepts images whose filtered rows exceed 4 GiB, for which it writes a file
  that `decode` refuses (`png.cpp:213-219`), and so are files whose rows fit but whose stream,
  which is a little longer if they cannot be compressed, does not (`175`, `249`). `Countable` in
  `PngCodec`, on which `IntactDecodes` depends, says just this. If the room for the stream is cut
  to nothing (`220`), `encode` throws (`EncodeFails`).

Where a conversion neither ends nor fails but hangs, as the first two runs show, `CliProcess`
stays in front of `Convert`, and SIGINT is the only way on.

## 4. What is proved

Every theorem holds for all values of the constants that the named assumptions of its
module admit; TLC evaluates the assumptions in every run. Each component has one inductive
invariant, which TLC checked on its run before it was proved; the theorems follow from it.

| component | theorem | says | invariant |
|---|---|---|---|
| `ParallelCompress` | `TypeCorrect` | `Spec => []TypeOK` | `TypeOK /\ Geometry` |
| | `DictionaryCopyInBounds` | `Spec => CopyWithinDict`, an action property | |
| | `NoOverwrite` | `Spec => []RingSlotFree` | `IndInv` |
| | `JobsStayIntact` | `Spec => []JobIntact` | |
| | `StreamWritten` | `Spec => WritesStream`, the refinement of `CompressStream` | `IndInv /\ StreamInv` |
| | `HistoryFull` | `Spec => []FullHistory` | |
| | `NobodySleepsOn` | `Spec => []NoLostWakeup` | |
| | `EverythingReleased` | `Spec => []AllReleased` | |
| `Decompress` | `DecompressTypeCorrect` | `Spec => []TypeOK` | `Reading` |
| | `ReaderInTurn` | `Spec => []InTurn` | |
| | `InflateGetsInTurn` | `Spec => []InflateInTurn` | |
| | `ChecksWhatIsWritten` | `Spec => []CheckedAsWritten` | `DecompressInv` |
| | `ContentWritten` | `Spec /\ ~Stream!ForeignFollows => WritesContent`, the refinement of `InflateStream` | `DecompressInv /\ ContentInv` |
| `Compressor` | `CompressorTypeCorrect` | `Spec => []TypeOK` | `CompInv` |
| | `BlocksIndependent` | `Spec => []Independent` | |
| | `TrailerCounts` | `Spec => []ClenCounts` | |
| | `WaysGrounded` | `Spec => []PathsGrounded` | |
| | `NoIdleThreads` | `Spec => []ThreadsBusy` | |
| | `OutputIsTheStream` | `Spec => WritesStream`, the refinement of `CompressStream` | |
| `BufferPool` | `PoolTypeCorrect` | `Spec => []TypeOK` | `PoolInv` |
| | `OneOwner` | `Spec => []Exclusive` | |
| | `KeepsLimit` | `Spec => []WithinLimit` | |
| | `NoNotificationLost` | `Spec => []SleepsOnlyWhenOut` | |
| `CliProcess` | `CliTypeCorrect` | `Spec => []TypeOK` | `CliInv` |
| | `NothingIsLost` | `Spec => []NothingLost` | |
| | `NothingIsHalf` | `Spec => []NothingHalf` | |
| `ZipArchive` | `ZipTypeCorrect` | `Spec => []TypeOK` | `ZipInv` |
| | `NeverHalfWritten` | `Spec => []NeverHalf` | |
| | `AddedIsReadBack` | `Spec => []ReadsBack` | |
| `PngCodec` | `PngTypeCorrect` | `PngSpec => []PngTypeOK` | `PngInv` |
| | `DecodesTheImage` | `PngSpec => []AlwaysTheImage` | |
| | `BestIsKept` | `PngSpec => []BestFilter` | `PngInv /\ BestInv` |
| | `IntactIsDecoded` | `PngSpec => []IntactDecodes` | `PngInv /\ IntactInv` |
| `RsyncLens` | `CutsAreHits` | `LensSpec => []CutsWhereHit` | `LensInv` |
| `ZipDescriptor` | `DescriptorAlwaysChecked` | `DescSpec => []DescriptorChecked` | `DescInv` |
| `ZipLayout` | `NumbersReadBack` | `Spec => []ReadsBack` | `LayoutType /\ (Fits => AsMade)` |

**`ParallelCompress`**, for every finite set of at least two compress threads, every
input length, every block size not below the window, `-R` or not, with or without
dictionaries, and all failures. `TypeOK` is proved together with the geometry of the
main thread's buffers (what is in `curr`, `next` and `hold` is consecutive, and a
dictionary ends where the next block begins), because whether an interval has a length
that is a natural number depends on it. `CopyWithinDict` follows from that geometry.

`RingSlotFree` is not inductive: that a slot is free is a matter of how far apart
jobs can be. The strengthening, `IndInv == TypeOK /\ Geometry /\ Pipeline /\
Buffering`, says where every job is: in the queue, with exactly one compress
thread, in its own slot of the ring, or with or past the write thread (`Pipeline`),
that queue and ring hold jobs in order, and that every job the write thread has not
finished holds an input buffer of its own (`Buffering`). The pool then bounds the
number of unfinished jobs by 2n+3, which for n > 1 is less than the 4n slots, so
two of them are never in the same slot. That step needs cardinalities of finite
sets and an injection from jobs to buffers. `JobIntact` follows from `Pipeline`
and the order in which the two threads let go of a job.

The refinement needs in addition that the jobs cover the input (`StreamInv`): each
begins where the one before ends, only the last one is marked, and the one to be made
begins where the main thread is (`Chain`, `Reading`); what a job holds is made from its
own input and a dictionary that ends there (`Contents`, `Primed`); the sum of what was
written is that of the input up to there (`Progress`, `Sunk`); a job in the queue finds a
thread that is awake or on its way, and the write thread sleeps only on an empty slot
(`Awake`). Then `WriteHeader`, `WriterWrite` and `WriteTrailer` are the steps of
`CompressStream`, and every other step leaves the sink alone.

**`Decompress`**, for inputs and buffers of any size, both engines, every mode and all
failures. `AheadInv` says where the read-ahead thread is in the input between a request and
the answer, `BufferInv` that what the main thread and inflate hold is not in the buffer
it reads into. `HandOver` and `Turns` do the same for the output buffer: the write and
the check thread are behind the main thread by the block that is in the buffer or not at
all, and only while one of the two flags is up.

The refinement needs in addition where infchk is in the file. `Grammar` says that
wherever the main thread is, a reader of the format that has seen the same units would be
at the corresponding place: in the member whose header is at `h`, with `k` pieces behind it of
which as many have been counted as were handed over (`InMember`). From that follow what
`Matching` compares and every verdict (`Verdicts`): an exception is thrown only where the
reader of the format can never again get to an end that is intact. `SinkInv` says that what
is in the sink are the first pieces of the contents, up to what was handed over or, while a block
waits for the write thread, up to the one before it, also while an exception unwinds.
`Output` and `WriteBlock` are then the step `Write` of `InflateStream`, the end of
`Close` is `Accept` or `Reject`, a call that fails is `Fail`, and all other steps are
invisible. The theorem needs that no member of another format follows a gzip member, which is
what `inflate_foreign` shows to be necessary. `EofInv` is about the
end of the input, which a short read announces. That `After` exists as a function,
and that some of its places are never left again, are inductions over the least
counterexample.

**`Compressor`**, for any configurations, sizes of inputs, blocks and reads, any number of
calls and any places where the hash hits, and all failures. `Grounded` is about the settings: `compress()`
has to leave a block that fills the window and `shift_` as it would be computed for it, whatever
earlier calls left. `Buffered` says that the bytes at `nextIn` and at `nextBuf + start`
follow on from the check value, so that each `memcpy` and swap of buffers shows; `Engaged`
that the engine has got the run of input since the last block; `Bounds` that no index
leaves its buffer. That the block which `compress()` picks by size is one of `BlockSizes`
is an induction, done over the least counterexample.

**`BufferPool`**, for every finite set of threads, any limits and any number of buffers a
thread holds. `PoolInv` adds two counts. `Counted`: the buffers, those being made and
`limit_` together do not exceed the limit; `WithinLimit` alone is not inductive, since it
does not know what `limit_` is. `Waiting`: threads are asleep or woken only when `limit_`
is 0, and while one sleeps there are at least as many woken threads as free buffers. That is
what makes one `notify_one` for each put enough, although the buffer may be taken by a
thread it was not meant for.

**`CliProcess`**, for any paths, command lines, disks and options, and all failures and
signals. `SavedInv` says that the contents of every file, unless they are spoiled and the input
is not kept, are in some file that is whole, is not the one which is being written, and is
synced if that was asked for; `WholeInv` that only the output that is being written, or was when
the program was killed or terminated, and outputs with spoiled contents are not whole;
`RegisterInv` and `FileInv` that what SIGINT would
unlink is that output and never the input.

**`ZipArchive`**, for any names, any number of members, any sequence of calls and all
failures. Nothing in the file ends a directory before the writer has finished
(`Ending`). While no write has stopped midway, the offset is the length of the file and the
data of every entry are in front of the directory (`Clean`); once one has, the offset stays
behind, and a directory it leads to cannot be read without the remains (`TornEarly`).

**`PngCodec`**, for images and chunks of any size, any number of values a byte may have,
and any changes to the file. `PngInv` says that each row in `lines`
is the image filtered with the filter it names, that the best candidate is one for the
row at hand, and that what `decode` has restored so far is as in the image; then the
neighbours that predict the next byte are those it was filtered with, and what was
subtracted modulo `Base` is added again. `BestInv` follows the selection while it runs: each
filter tried so far scores at least as much as the best one. The score, a fold over the
bytes of a row, is only compared, and depends on nothing but the row. That the bytes are in place
for `DecodesTheImage` is that no chunk was lost or repeated: whatever else is done to the
file, its readable chunks hold a beginning of the stream. For `IntactIsDecoded` the invariant is about
files that were at most annotated: the chunks are in order, and together those with
image data hold the whole of the compressed data, each beginning where the one before
ends (`Shared`, with the ends as an existentially quantified function, which takes the place of the sum
of their lengths); what `decode` has gathered is the part up to the chunk it is at.

**`RsyncLens`**, for any set of distances `append_len` accepts and any number of boundaries.
The bytes in `lens` are the codes of the distances one after the other, each where
`starts` says (`Coded`), and the compress thread stands at the beginning of one of
them with as much left of the block as the distances from there on add up to (`InStep`).
The lemmas under it prove `decode_len` to be the inverse of `append_len` for each of the
four forms, with its integer division and its remainders; `starts` is a history variable
that the code does not have.

**`ZipLayout`**, for any widths of the fields, any lengths and any number of members, finished
and appended to any number of times. While the writer is at work, the members added begin
and end in front of its position and have their headers there (`Before`), and it will
list all of them; once an end record is written, there are a place `d` and a function `p` such
that the directory is at `d`, its entry `i` ends at `d + p[i]`, `p` rises by the size of each
entry, and the end record or the one of ZIP64 tells `d` and `p`'s last value (`Written`).
The reader has listed the first `Len(found)` of them and stands where `p` says. Everything
holds only as long as `Fits`: names and comments whose lengths the fields hold, and every
end record where it is searched. `Ends`, a recursive function, is shown to
be such a `p`, again by the least counterexample.

**`ZipDescriptor`**, for any set of words. `DescInv` says at which place each of the words
stands that count, with and without signature and for both widths, and that after a cut all
of them are missing.

The assumptions the code does not enforce everywhere:

* a block is not smaller than the window (`WindowAssumption`, `SizesAssumption`):
  `config.h:91` asks for it, but only the command line checks it (`main.cpp:377, 435`);
* the suffix is not empty (`SuffixAssumption`): with `-S ""` the output would have the
  name of the input, and `main.cpp:384-385, 442` does not refuse it;
* `BlocksAssumption`: the block sizes between the default and the largest are its doublings.

Only model-checked is liveness (`OneWorkerSuffices`, `EndsUnlessThrown`, `LoopsEnd`, and the
violated `CallEnds`), and with it whatever is about `ENABLED` and fairness, which are beyond the prover. Every other property
of the passing runs is a theorem.

## 5. Not modelled

* what deflate, inflate, ISA-L and zopfli compute, and the arithmetic of check
  values: libraries whose sources are not part of the repository. ISA-L's bit
  buffer, given back in `decompress.cpp:386-390`, is below the granularity of units;
* the bytes of gzip and zlib headers and trailers, and all of a zip header but its
  lengths, counts and offsets;
* parsing of options, recursion into directories (a directory is skipped), copying
  of metadata, messages and the printing of lists; `decompress_buffer`, a loop around zlib;
* the file system beyond names and contents: `sync` makes contents permanent, an
  unlinked name is gone at once, and to unlink a name or to copy metadata never fails;
* zip archives in memory and their extraction to files; that data never look like a
  record is assumed, and the remains of a record are never taken for a whole one; a second
  `close` writes to a descriptor that is closed, not to another file that has got its number;
* the zopfli branch of `single_compress` (`compress.cpp:655-691`), which is behind a
  `deflateInit2` that fails for level 11 and so never runs, and that the engine is not
  freed when reading or writing throws (`510-530`);
* the fields of a PNG's IHDR, and loading and saving it;
* the C API, the bindings for Python (with `GzFile`, whose state is zlib's, and `ZipFile`
  around `ZipReader` and `ZipWriter`), Go, Rust and WebAssembly, and `platform.h`:
  conversions of arguments and of exceptions around the classes modelled here.

Where the models allow more than the code: the rolling hash may hit at any distance;
a thread may be woken for no reason; a read may be short only at the end of the input, but an
input may end anywhere; opening, reading, writing, `sync` and `close` may fail at any call,
and a write thread may terminate `CliProcess` whatever `-p` is; in `PngCodec` ISA-L may fill the output from
any stream whose bytes are not in place. Where they allow less: a chunk that was
damaged never has its CRC right by chance, and zlib never finds a check value right that is
not that of the rows; in TLC's run, though not in the proofs, one change is made to a PNG file in
a behaviour.

## 6. Plan

Done: `CompressStream`, `ParallelCompress`; `InflateStream`, `InputReader`,
`ParallelOutput`, `Decompress`; `BufferPool`; `CliProcess`; `ZipArchive`; `SingleCompress`,
`Compressor`; `RsyncLens`; `ZipDescriptor`, `ZipLayout`; `PngCodec`; the proofs of section 4.

All safety and action properties and all refinements that the runs check are theorems. What could
follow are the parts of the program that section 5 lists.

The hazards these runs and proofs answer to, and those no property covers yet, are
listed with their lines in `PROJECT.json`.
