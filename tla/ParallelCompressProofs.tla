------------------------ MODULE ParallelCompressProofs ------------------------
(***************************************************************************)
(* What holds of ParallelCompress for any number of compress threads, any  *)
(* length of the input, any block and window size and any failure.  First  *)
(* the way of one job through the pipeline: its buffers, its queues and    *)
(* the thread that has it.  Then the stream that is written, which is the  *)
(* one that CompressStream promises: the jobs cover the input without a    *)
(* gap, each is primed with all its history, the sums are combined as the  *)
(* blocks are written, and nobody sleeps through the notification that is  *)
(* for him.                                                                *)
(***************************************************************************)
EXTENDS ParallelCompress, FiniteSetTheorems, TLAPS

-------------------------------------------------------------------------------
(* Where the buffers of the main thread lie in the input. *)

\* The buffer that a split has left is waiting after the one split off, and
\* the rolling hash has already gone into it.
Waiting ==
  /\ Rsync /\ hold.pool = "in"
  /\ next.from < next.to /\ next.to = hold.from /\ hold.from < hold.to /\ hold.to = rd
  /\ left = Size(next)
  /\ scan \in hold.from .. hold.to
  /\ Block <= hold.from

\* Nothing is waiting: all that has been read ends with next.
Fresh ==
  /\ hold = NoBuf /\ left = 0
  /\ next.from <= next.to /\ next.to = rd
  /\ Rsync => scan \in next.from .. next.to

\* The current buffer and the one after it, when a boundary is to be found.
AtDivide ==
  /\ Rsync /\ hold = NoBuf
  /\ curr.from < curr.to /\ curr.to = next.from /\ next.from <= next.to /\ next.to = rd
  /\ next.from < next.to => Block <= next.from
  /\ left # 0 => /\ left = Size(curr) /\ next.from < next.to
                 /\ scan \in next.from .. next.to
  /\ left = 0 => /\ scan \in curr.from .. curr.to
                 /\ Held(dict) => Block <= curr.from

AtSplit ==
  /\ Rsync /\ hold.pool = "in"
  /\ curr.from < curr.to - left /\ left # 0
  /\ curr.to = hold.from /\ hold.from < hold.to /\ hold.to = rd
  /\ Block <= hold.from
  /\ scan \in hold.from .. hold.to
  /\ Held(dict) => Block <= curr.from

AtEnqueue ==
  /\ curr.from <= curr.to /\ curr.to = next.from
  /\ Waiting \/ Fresh
  /\ next.from < next.to /\ hold = NoBuf => Block <= next.from
  /\ next.from < next.to /\ Held(dict) => Block <= curr.to

AtAdvance ==
  \/ Waiting
  \/ Fresh /\ (Held(dict) => Block <= next.from)

\* Something has been read, a full block of it if there is that much.
HasRead == next.pool = "in" /\ (rd = Total \/ Block <= rd)

\* The dictionary ends where the next job begins, and reaches back as far as
\* the window or to the start of the input.
DictReaches(pos) ==
  /\ Held(dict) => /\ SetDict
                   /\ dict.from <= dict.to /\ dict.to = pos
                   /\ dict.from = 0 \/ DictSize <= dict.to - dict.from
  /\ SetDict /\ ~Held(dict) => pos = 0

Geometry ==
  /\ mpc = "header" => xpc = "unborn" /\ \A w \in Workers : wpc[w] = "unborn"
  /\ mpc \in {"header", "first"} => rd = 0 /\ scan = 0 /\ left = 0 /\ hold = NoBuf /\ dict = NoBuf
  /\ mpc \in {"advance", "divide", "split", "enqueue"} => HasRead
  /\ mpc \in {"divide", "split", "enqueue"} => curr.pool = "in"
  /\ mpc = "advance" => AtAdvance /\ DictReaches(next.from)
  /\ mpc = "divide" => AtDivide /\ DictReaches(curr.from)
  /\ mpc = "split" => AtSplit /\ DictReaches(curr.from)
  /\ mpc = "enqueue" => AtEnqueue /\ DictReaches(curr.from)
  /\ \A s \in 0 .. seq - 1 : job[s].in.from <= job[s].in.to

-------------------------------------------------------------------------------
(* Types. *)

\* A sequence over a set is one over any larger set.
LEMMA SeqWiden ==
  ASSUME NEW S, NEW T, S \subseteq T, NEW q \in Seq(S)
  PROVE  q \in Seq(T)
  OBVIOUS

\* The numbers of threads, buffers and slots are numbers, and there is a slot.
LEMMA ConstantTypes == Procs \in Nat \ {0} /\ InBufs \in Nat /\ Slots \in Nat \ {0}
  BY WorkersAssumption, FS_CardinalityType DEF Procs, InBufs, Slots

\* The initial state satisfies the inductive invariant.
LEMMA TypeInit == Init => TypeOK /\ Geometry
  <1> SUFFICES ASSUME Init PROVE TypeOK /\ Geometry
    OBVIOUS
  <1> USE SizesAssumption, ConstantTypes DEF Init
  <1>1. MainTypeOK
    BY DEF MainTypeOK, NoBuf, Buffers
  <1>2. JobTypeOK
    <2>1. 0 .. seq - 1 = {}
      OBVIOUS
    <2>2. job \in [0 .. seq - 1 -> Jobs]
      BY <2>1
    <2>3. queue \in Seq(0 .. seq - 1)
      OBVIOUS
    <2> QED BY <2>2, <2>3 DEF JobTypeOK, NoJob
  <1>3. WorkerTypeOK /\ WriterTypeOK
    BY DEF WorkerTypeOK, WriterTypeOK, NoJob, Checks, Stream!Interval
  <1>4. Geometry
    BY DEF Geometry
  <1> QED BY <1>1, <1>2, <1>3, <1>4 DEF TypeOK

\* The null buffer is a buffer that nobody holds.
LEMMA EmptyBuffer == NoBuf \in Buffers /\ ~Held(NoBuf)
  BY DEF NoBuf, Buffers, Held

\* What a read brings: at most a block, from where the last one ended.
LEMMA ReadNextTypes ==
  ASSUME MainTypeOK, ReadNext
  PROVE  /\ gets' \in Nat /\ rd' \in 0 .. Total /\ next' \in Buffers
         /\ rd <= rd' /\ next'.from = rd /\ next'.to = rd'
         /\ Held(next') /\ Size(next') <= Block /\ next'.id = gets'
         /\ next'.pool = "in" /\ gets' = gets + 1
         /\ rd' = Total \/ rd' = rd + Block
  BY SizesAssumption DEF MainTypeOK, ReadNext, Smaller, Buffers, Held, Size

\* No step breaks the types of the main thread's variables.
LEMMA MainTypeStep ==
  ASSUME MainTypeOK, Geometry, [Next]_vars
  PROVE  MainTypeOK'
  <1> USE SizesAssumption, BlockAssumption, EmptyBuffer
  <1>1. CASE WriteHeader
    BY <1>1 DEF WriteHeader, Launch, MainAt, MainTypeOK
  <1>2. CASE ReadFirst
    BY <1>2, ReadNextTypes DEF ReadFirst, MainAt, MainTypeOK
  <1>3. CASE Advance
    <2>1. next' \in Buffers /\ gets' \in Nat /\ rd' \in 0 .. Total
      BY <1>3, ReadNextTypes DEF Advance, MainTypeOK
    <2> QED BY <1>3, <2>1 DEF Advance, MainAt, MainTypeOK
  <1>4. CASE Divide
    BY <1>4 DEF Divide, Geometry, AtDivide, MainTypeOK, Buffers, Size, Smaller, Larger
  <1>5. CASE Split
    BY <1>5 DEF Split, MainAt, Geometry, AtSplit, MainTypeOK, Buffers
  <1>6. CASE Enqueue
    <2>1. CASE dict' \in {dict, curr}
      BY <1>6, <2>1 DEF Enqueue, MainAt, MainTypeOK
    <2>2. CASE dict' \notin {dict, curr}
      <3>1. /\ Size(next) # 0 /\ Size(curr) < DictSize /\ Held(dict)
            /\ dict' = [pool |-> "dict", id |-> 0,
                        from |-> dict.to - (DictSize - Size(curr)), to |-> curr.to]
        BY SMTT(30), <1>6, <2>2 DEF Enqueue, DictAfter, MainTypeOK, Buffers, Size
      <3>2. mpc = "enqueue" /\ AtEnqueue /\ DictReaches(curr.from)
        BY <1>6 DEF Enqueue, MainAt, Geometry
      <3>3. next.from <= next.to
        BY <3>2 DEF AtEnqueue, Waiting, Fresh, MainTypeOK, Buffers
      <3>4. Block <= curr.to /\ dict.to = curr.from
        BY <3>1, <3>2, <3>3 DEF AtEnqueue, DictReaches, Size, MainTypeOK, Buffers
      <3>5. dict' \in Buffers
        BY <3>1, <3>4 DEF Size, MainTypeOK, Buffers
      <3> QED BY <1>6, <3>5 DEF Enqueue, MainAt, MainTypeOK
    <2> QED BY <2>1, <2>2
  <1>7. CASE CloseQueue
    BY <1>7 DEF CloseQueue, MainAt, MainTypeOK
  <1>8. CASE JoinThreads
    BY <1>8 DEF JoinThreads, MainTypeOK
  <1>9. CASE WriteTrailer
    BY <1>9 DEF WriteTrailer, MainAt, MainTypeOK
  <1>10. CASE ReadError \/ WriteError
    BY <1>10 DEF ReadError, WriteError, MainTypeOK
  <1>11. CASE UNCHANGED mainVars
    BY <1>11 DEF mainVars, MainTypeOK
  <1> QED
    BY <1>1, <1>2, <1>3, <1>4, <1>5, <1>6, <1>7, <1>8, <1>9, <1>10, <1>11
    DEF Next, Main, Worker, WorkerInit, WorkerTake, WorkerWait, WorkerExit, WorkerCompress,
        WorkerPublish, WorkerCheck, Writer, WriterTake, WriterWait, WriterWrite, WriterError,
        WriterCombine, Terminated, vars

\* A job made from the main thread's buffers is a job.
LEMMA NewJobType ==
  ASSUME MainTypeOK, NEW more \in BOOLEAN
  PROVE  Job(curr, dict, more) \in Jobs
  BY DEF MainTypeOK, Job, Jobs, Checks, Stream!Interval

\* Compressing a job gives a block.
LEMMA CompressedType ==
  ASSUME NEW j \in Jobs
  PROVE  Compressed(j) \in Blocks
  BY SizesAssumption DEF Compressed, Jobs, Buffers, Blocks, Larger, Stream!Deflated

\* The action changes what the compress threads and the write thread share.
LEMMA JobTypeStep ==
  ASSUME TypeOK, [Next]_vars
  PROVE  JobTypeOK'
  <1> USE ConstantTypes DEF TypeOK
  <1>1. CASE Enqueue
    <2>1. seq' = seq + 1 /\ seq' \in Nat
      BY <1>1 DEF Enqueue, JobTypeOK
    <2>2. job' \in [0 .. seq' - 1 -> Jobs]
      <3> DEFINE new == Job(curr, dict, Size(next) # 0)
      <3>1. new \in Jobs
        BY NewJobType DEF JobTypeOK
      <3>2. job' = [s \in 0 .. seq |-> IF s = seq THEN new ELSE job[s]]
        BY <1>1 DEF Enqueue
      <3> HIDE DEF new
      <3>3. \A s \in 0 .. seq : s = seq \/ s \in 0 .. seq - 1
        BY DEF JobTypeOK
      <3> QED BY <2>1, <3>1, <3>2, <3>3 DEF JobTypeOK
    <2>3. queue' \in Seq(0 .. seq' - 1)
      <3>1. queue \in Seq(0 .. seq)
        BY SeqWiden DEF JobTypeOK
      <3> QED BY <1>1, <2>1, <3>1 DEF Enqueue, JobTypeOK
    <2> QED BY <1>1, <2>1, <2>2, <2>3 DEF Enqueue, JobTypeOK
  <1>2. CASE CloseQueue
    BY <1>2 DEF CloseQueue, JobTypeOK
  <1>3. ASSUME NEW w \in Workers, WorkerTake(w) PROVE JobTypeOK'
    BY <1>3 DEF WorkerTake, JobTypeOK
  <1>4. ASSUME NEW w \in Workers, WorkerCompress(w) PROVE JobTypeOK'
    <2>1. wjob[w] \in 0 .. seq - 1
      BY <1>4 DEF WorkerCompress, WorkerAt, WorkerTypeOK
    <2>2. job[wjob[w]] \in Jobs
      BY <2>1 DEF JobTypeOK
    <2>3. job' \in [0 .. seq - 1 -> Jobs]
      BY <1>4, <2>1, <2>2, CompressedType, EmptyBuffer DEF WorkerCompress, JobTypeOK, Jobs
    <2> QED BY <1>4, <2>3 DEF WorkerCompress, JobTypeOK
  <1>5. ASSUME NEW w \in Workers, WorkerPublish(w) PROVE JobTypeOK'
    <2>1. wjob[w] \in 0 .. seq - 1
      BY <1>5 DEF WorkerPublish, WorkerAt, WorkerTypeOK
    <2> QED BY <1>5, <2>1 DEF WorkerPublish, JobTypeOK
  <1>6. ASSUME NEW w \in Workers, WorkerCheck(w) PROVE JobTypeOK'
    <2>1. wjob[w] \in 0 .. seq - 1
      BY <1>6 DEF WorkerCheck, WorkerAt, WorkerTypeOK
    <2>2. job[wjob[w]] \in Jobs
      BY <2>1 DEF JobTypeOK
    <2> DEFINE in == job[wjob[w]].in
    <2>3. Stream!Interval(in.from, in.to) \in Checks
      BY <2>2 DEF Jobs, Buffers, Checks, Stream!Interval
    <2>4. job' \in [0 .. seq - 1 -> Jobs]
      <3> DEFINE new == [job[wjob[w]] EXCEPT !.check = Stream!Interval(in.from, in.to),
                                              !.checked = TRUE]
      <3>1. new \in Jobs
        BY <2>2, <2>3 DEF Jobs
      <3>2. job' = [job EXCEPT ![wjob[w]] = new]
        BY <1>6, <2>1 DEF WorkerCheck, JobTypeOK
      <3> HIDE DEF new
      <3> QED BY <2>1, <3>1, <3>2 DEF JobTypeOK
    <2> QED BY <1>6, <2>4 DEF WorkerCheck, JobTypeOK
  <1>7. CASE WriterTake
    BY <1>7 DEF WriterTake, JobTypeOK
  <1>8. CASE WriterWrite \/ WriterCombine
    <2>1. xjob \in 0 .. seq - 1
      BY <1>8 DEF WriterWrite, WriterCombine, WriterAt, WriterTypeOK
    <2>2. job[xjob] \in Jobs
      BY <2>1 DEF JobTypeOK
    <2>3. /\ [job[xjob] EXCEPT !.out = NoBlock] \in Jobs
          /\ [job[xjob] EXCEPT !.in = NoBuf] \in Jobs
      BY <2>2, EmptyBuffer DEF Jobs
    <2>4. job' \in [0 .. seq - 1 -> Jobs]
      BY <1>8, <2>1, <2>3 DEF WriterWrite, WriterCombine, JobTypeOK
    <2> QED BY <1>8, <2>4 DEF WriterWrite, WriterCombine, JobTypeOK
  <1>9. CASE UNCHANGED <<seq, job, queue, done, ring>>
    BY <1>9 DEF JobTypeOK
  <1> QED
    BY <1>1, <1>2, <1>3, <1>4, <1>5, <1>6, <1>7, <1>8, <1>9
    DEF Next, Main, WriteHeader, Launch, ReadFirst, Advance, Divide, Split, JoinThreads, WriteTrailer,
        ReadError, WriteError, Worker, WorkerInit, WorkerWait, WorkerExit,
        Writer, WriterWait, WriterError, Terminated, vars

\* No step breaks the types of the compress threads' variables.
LEMMA WorkerTypeStep ==
  ASSUME TypeOK, Geometry, [Next]_vars
  PROVE  WorkerTypeOK'
  <1> USE DEF TypeOK, NoJob
  <1>1. CASE WriteHeader
    BY <1>1 DEF WriteHeader, Launch, MainAt, Geometry, WorkerTypeOK
  <1>2. CASE Enqueue
    <2>1. wjob' = wjob /\ seq' = seq + 1 /\ seq \in Nat
      BY <1>2 DEF Enqueue, JobTypeOK
    <2>2. CASE \E w \in Workers : wpc[w] = "asleep" /\ wpc' = [wpc EXCEPT ![w] = "idle"]
      BY <2>1, <2>2 DEF WorkerTypeOK
    <2>3. CASE wpc' = wpc
      BY <2>1, <2>3 DEF WorkerTypeOK
    <2> QED BY <1>2, <2>2, <2>3 DEF Enqueue, Wake
  <1>3. CASE CloseQueue
    BY <1>3 DEF CloseQueue, WorkerTypeOK
  <1>4. ASSUME NEW w \in Workers, WorkerTake(w) PROVE WorkerTypeOK'
    <2>1. Head(queue) \in 0 .. seq - 1 /\ seq \in Nat
      BY <1>4 DEF WorkerTake, JobTypeOK
    <2> QED BY <1>4, <2>1 DEF WorkerTake, WorkerAt, WorkerTypeOK
  <1>5. ASSUME NEW w \in Workers, Worker(w), ~WorkerTake(w) PROVE WorkerTypeOK'
    BY <1>5 DEF Worker, WorkerInit, WorkerWait, WorkerExit, WorkerCompress, WorkerPublish,
                WorkerCheck, WorkerAt, WorkerTypeOK
  <1>6. CASE UNCHANGED <<seq, wpc, wjob>>
    BY <1>6 DEF WorkerTypeOK
  <1> QED
    BY <1>1, <1>2, <1>3, <1>4, <1>5, <1>6
    DEF Next, Main, ReadFirst, Advance, Divide, Split, JoinThreads, WriteTrailer,
        ReadError, WriteError, Writer, WriterTake, WriterWait, WriterWrite, WriterError,
        WriterCombine, Terminated, vars, workerVars

\* No step breaks the types of the write thread's variables.
LEMMA WriterTypeStep ==
  ASSUME TypeOK, Geometry, [Next]_vars
  PROVE  WriterTypeOK'
  <1> USE DEF TypeOK, NoJob, writerVars
  <1>1. CASE WriteHeader
    BY <1>1 DEF WriteHeader, Launch, MainAt, Geometry, WriterTypeOK, Written, Stream!Header
  <1>2. CASE WriteTrailer
    <2>1. Stream!Trailer(ulen, checkVal) \in Written
      BY DEF WriterTypeOK, Written, Stream!Trailer
    <2> QED BY <1>2, <2>1 DEF WriteTrailer, WriterTypeOK
  <1>3. CASE Enqueue
    BY <1>3 DEF Enqueue, JobTypeOK, WriterTypeOK
  <1>4. ASSUME NEW w \in Workers, WorkerPublish(w) PROVE WriterTypeOK'
    BY <1>4 DEF WorkerPublish, WriterTypeOK
  <1>5. CASE WriterTake
    <2>1. wseq % Slots \in 0 .. Slots - 1
      BY ConstantTypes DEF WriterTypeOK
    <2>2. ring[wseq % Slots] \in 0 .. seq - 1
      BY <1>5, <2>1 DEF WriterTake, JobTypeOK
    <2> QED BY <1>5, <2>2 DEF WriterTake, WriterAt, JobTypeOK, WriterTypeOK
  <1>6. CASE WriterWait \/ WriterError
    BY <1>6 DEF WriterWait, WriterError, WriterAt, WriterTypeOK
  <1>7. CASE WriterWrite
    <2>1. xjob \in 0 .. seq - 1
      BY <1>7 DEF WriterWrite, WriterAt, WriterTypeOK
    <2>2. job[xjob] \in Jobs
      BY <2>1 DEF JobTypeOK
    <2>3. Size(job[xjob].in) \in Nat
      BY <2>1, <2>2 DEF Geometry, Size, Jobs, Buffers
    <2>4. job[xjob].out \in Written
      BY <2>2 DEF Jobs, Written
    <2> QED BY <1>7, <2>3, <2>4 DEF WriterWrite, WriterAt, WriterTypeOK
  <1>8. CASE WriterCombine
    <2>1. xjob \in 0 .. seq - 1
      BY <1>8 DEF WriterCombine, WriterTypeOK
    <2>2. job[xjob] \in Jobs
      BY <2>1 DEF JobTypeOK
    <2>3. checkVal' \in Checks
      BY <1>8, <2>2 DEF WriterCombine, Combine, WriterTypeOK, BadCheck, Checks, Jobs,
                        Stream!Interval
    <2> QED BY <1>8, <2>3 DEF WriterCombine, WriterTypeOK
  <1>9. CASE UNCHANGED <<seq, writerVars, sink>>
    BY <1>9 DEF WriterTypeOK
  <1> QED
    BY <1>1, <1>2, <1>3, <1>4, <1>5, <1>6, <1>7, <1>8, <1>9
    DEF Next, Main, ReadFirst, Advance, Divide, Split, CloseQueue, JoinThreads,
        ReadError, WriteError, Worker, WorkerInit, WorkerTake, WorkerWait, WorkerExit,
        WorkerCompress, WorkerCheck, Writer, Terminated, vars, workerVars

-------------------------------------------------------------------------------
(* The geometry of the buffers. *)

\* A job keeps its input, gets it from curr, or gives it back.
LEMMA JobsStayOrdered ==
  ASSUME TypeOK, Geometry, [Next]_vars
  PROVE  \A s \in 0 .. seq' - 1 : job'[s].in.from <= job'[s].in.to
  <1> SUFFICES ASSUME NEW s \in 0 .. seq' - 1 PROVE job'[s].in.from <= job'[s].in.to
    OBVIOUS
  <1> USE DEF TypeOK
  <1>1. CASE Enqueue
    <2>1. curr.from <= curr.to
      BY <1>1 DEF Enqueue, MainAt, Geometry, AtEnqueue
    <2>2. s \in 0 .. seq
      BY <1>1 DEF Enqueue, JobTypeOK
    <2>3. job'[s] = IF s = seq THEN Job(curr, dict, Size(next) # 0) ELSE job[s]
      BY <1>1, <2>2 DEF Enqueue
    <2> QED BY <2>1, <2>2, <2>3 DEF Geometry, Job, JobTypeOK
  <1>2. ASSUME NEW w \in Workers, WorkerCompress(w) \/ WorkerCheck(w)
        PROVE  job'[s].in.from <= job'[s].in.to
    <2>1. s \in 0 .. seq - 1 /\ wjob[w] \in 0 .. seq - 1
      BY <1>2 DEF WorkerCompress, WorkerCheck, WorkerAt, WorkerTypeOK, mainVars
    <2>2. CASE WorkerCompress(w)
      <3>1. job' = [job EXCEPT ![wjob[w]].out = Compressed(job[wjob[w]]),
                               ![wjob[w]].dict = NoBuf]
        BY <2>2 DEF WorkerCompress
      <3>2. job'[s].in = job[s].in
        BY <2>1, <3>1 DEF JobTypeOK, Jobs
      <3> QED BY <2>1, <3>2 DEF Geometry
    <2>3. CASE WorkerCheck(w)
      <3> DEFINE chk == Stream!Interval(job[wjob[w]].in.from, job[wjob[w]].in.to)
      <3>1. job' = [job EXCEPT ![wjob[w]].check = chk, ![wjob[w]].checked = TRUE]
        BY <2>3 DEF WorkerCheck
      <3> HIDE DEF chk
      <3>2. job'[s].in = job[s].in
        BY <2>1, <3>1 DEF JobTypeOK, Jobs
      <3> QED BY <2>1, <3>2 DEF Geometry
    <2> QED BY <1>2, <2>2, <2>3
  <1>3. CASE WriterWrite \/ WriterCombine
    <2>1. s \in 0 .. seq - 1 /\ xjob \in 0 .. seq - 1
      BY <1>3 DEF WriterWrite, WriterCombine, WriterAt, WriterTypeOK
    <2>2. job'[s].in = job[s].in \/ job'[s].in = NoBuf
      BY ZenonT(60), <1>3, <2>1 DEF WriterWrite, WriterCombine, JobTypeOK, Jobs
    <2> QED BY <2>1, <2>2 DEF Geometry, NoBuf
  <1>4. CASE UNCHANGED <<seq, job>>
    BY <1>4 DEF Geometry
  <1> QED
    BY <1>1, <1>2, <1>3, <1>4
    DEF Next, Main, WriteHeader, Launch, ReadFirst, Advance, Divide, Split, CloseQueue, JoinThreads,
        WriteTrailer, ReadError, WriteError, Worker, WorkerInit, WorkerTake, WorkerWait,
        WorkerExit, WorkerPublish, Writer, WriterTake, WriterWait, WriterError,
        Terminated, vars

\* No step breaks the geometry: there is one case for each way to move curr, next or hold.
LEMMA GeometryStep ==
  ASSUME TypeOK, Geometry, [Next]_vars
  PROVE  Geometry'
  <1> USE SizesAssumption, BlockAssumption
  <1> DEFINE Goal == /\ mpc' = "header" => xpc' = "unborn" /\ \A w \in Workers : wpc'[w] = "unborn"
                     /\ mpc' \in {"header", "first"} =>
                          rd' = 0 /\ scan' = 0 /\ left' = 0 /\ hold' = NoBuf /\ dict' = NoBuf
                     /\ mpc' \in {"advance", "divide", "split", "enqueue"} => HasRead'
                     /\ mpc' \in {"divide", "split", "enqueue"} => curr'.pool = "in"
                     /\ mpc' = "advance" => AtAdvance' /\ DictReaches(next.from)'
                     /\ mpc' = "divide" => AtDivide' /\ DictReaches(curr.from)'
                     /\ mpc' = "split" => AtSplit' /\ DictReaches(curr.from)'
                     /\ mpc' = "enqueue" => AtEnqueue' /\ DictReaches(curr.from)'
  <1> SUFFICES Goal
    BY JobsStayOrdered DEF Geometry
  <1>1. CASE WriteHeader
    BY <1>1 DEF WriteHeader, Launch, MainAt, Geometry
  <1>2. CASE ReadFirst
    <2>1. AtAdvance' /\ DictReaches(next.from)' /\ HasRead'
      <3>1. mpc = "first" /\ mpc' = "advance" /\ ReadNext
            /\ UNCHANGED <<curr, hold, dict, scan, left>>
        BY <1>2 DEF ReadFirst, MainAt
      <3>2. rd = 0 /\ scan = 0 /\ left = 0 /\ hold = NoBuf /\ dict = NoBuf
        BY <3>1 DEF Geometry
      <3> QED BY <3>1, <3>2, ReadNextTypes, EmptyBuffer
          DEF AtAdvance, Fresh, HasRead, DictReaches, TypeOK, MainTypeOK
    <2> QED BY <1>2, <2>1 DEF ReadFirst, MainAt
  <1>3. CASE Advance
    <2>1. /\ mpc = "advance" /\ AtAdvance /\ DictReaches(next.from)
          /\ curr' = next /\ hold' = NoBuf /\ dict' = dict /\ scan' = scan /\ left' = left
          /\ mpc' = IF Rsync /\ Size(next) > 0 THEN "divide" ELSE "enqueue"
      BY <1>3 DEF Advance, MainAt, Geometry
    <2>2. DictReaches(curr.from)' /\ HasRead' /\ curr'.pool = "in"
      <3>1. DictReaches(curr.from)'
        BY <2>1 DEF DictReaches
      <3>2. ASSUME Held(hold) PROVE HasRead'
        <4>1. next' = hold /\ rd' = rd
          BY <1>3, <3>2 DEF Advance
        <4>2. hold.pool = "in"
          BY <2>1, <3>2, EmptyBuffer DEF AtAdvance, Waiting, Fresh
        <4> QED BY <2>1, <4>1, <4>2 DEF Geometry, HasRead
      <3>3. ASSUME ~Held(hold) PROVE HasRead'
        <4>1. ReadNext /\ (rd = Total \/ Block <= rd)
          BY <1>3, <2>1, <3>3 DEF Advance, Geometry, HasRead
        <4>2. next'.pool = "in" /\ (rd' = Total \/ Block <= rd')
          BY <4>1, ReadNextTypes DEF TypeOK, MainTypeOK
        <4> QED BY <4>2 DEF HasRead, Held
      <3>4. curr'.pool = "in"
        BY <2>1 DEF Geometry, HasRead, Held
      <3> QED BY <3>1, <3>2, <3>3, <3>4
    <2>3. CASE Held(hold)
      <3>1. Waiting /\ next' = hold /\ rd' = rd /\ mpc' = "divide"
        BY <1>3, <2>1, <2>3, EmptyBuffer
        DEF Advance, AtAdvance, Waiting, Fresh, Size, TypeOK, MainTypeOK, Buffers
      <3>2. AtDivide'
        BY <2>1, <3>1 DEF AtAdvance, Waiting, AtDivide, Size, TypeOK, MainTypeOK, Buffers
      <3> QED BY <2>2, <3>1, <3>2
    <2>4. CASE ~Held(hold)
      <3>1. /\ Fresh /\ (Held(dict) => Block <= next.from)
            /\ rd = Total \/ Block <= rd
        BY <2>1, <2>4 DEF AtAdvance, Waiting, Geometry, HasRead, Held
      <3>2. /\ next'.from = rd /\ next'.to = rd' /\ rd <= rd' /\ rd' <= Total
            /\ next.from \in Int /\ next.to \in Int /\ rd \in Int /\ rd' \in Int /\ scan \in Int
        BY <1>3, <2>4, ReadNextTypes DEF Advance, TypeOK, MainTypeOK, Buffers
      <3>3. CASE mpc' = "divide"
        <4>1. AtDivide'
          BY <2>1, <3>1, <3>2, <3>3 DEF AtDivide, Fresh, Size
        <4> QED BY <2>2, <3>3, <4>1
      <3>4. CASE mpc' = "enqueue"
        <4>1. Fresh'
          BY <2>1, <3>1, <3>2, <3>4 DEF Fresh, Size
        <4>2. AtEnqueue'
          BY <2>1, <3>1, <3>2, <4>1 DEF AtEnqueue, Fresh
        <4> QED BY <2>2, <3>4, <4>2
      <3> QED BY <2>1, <3>3, <3>4
    <2> QED BY <2>3, <2>4
  <1>4. CASE Divide
    <2> DEFINE fresh == left = 0
               scanA == IF fresh THEN curr.to ELSE scan
               end   == next.from + Smaller(Block - Size(curr), Size(next))
               scanB == Larger(scanA, end)
    <2>1. /\ mpc = "divide" /\ AtDivide /\ DictReaches(curr.from) /\ HasRead /\ curr.pool = "in"
          /\ UNCHANGED <<rd, dict>>
      BY <1>4 DEF Divide, Geometry
    <2>2. PICK lastA \in {curr.from} \cup (IF fresh THEN scan + 1 .. curr.to ELSE {}),
               lastB \in {next.from} \cup (Larger(scanA, next.from) + 1 .. end) :
            LET hit    == lastA # curr.from \/ lastB # next.from
                leftA  == IF fresh THEN curr.to - lastA ELSE left
                cut    == IF hit THEN lastB ELSE scanB
                splits == hit /\ leftA > 0 /\ Size(next) > 0
            IN /\ scan' = scanB
               /\ \/ /\ cut > next.from
                     /\ curr' = [curr EXCEPT !.to = cut]
                     /\ next' = [next EXCEPT !.from = cut]
                     /\ left' = 0
                     /\ hold' = hold
                     /\ mpc' = "enqueue"
                  \/ /\ cut <= next.from /\ splits
                     /\ hold' = next
                     /\ left' = leftA
                     /\ UNCHANGED <<curr, next>>
                     /\ mpc' = "split"
                  \/ /\ cut <= next.from /\ ~splits
                     /\ left' = 0
                     /\ UNCHANGED <<curr, next, hold>>
                     /\ mpc' = "enqueue"
      BY <1>4 DEF Divide
    <2> DEFINE hit    == lastA # curr.from \/ lastB # next.from
               leftA  == IF fresh THEN curr.to - lastA ELSE left
               cut    == IF hit THEN lastB ELSE scanB
               splits == hit /\ leftA > 0 /\ Size(next) > 0
    <2>3. /\ curr \in Buffers /\ next \in Buffers /\ curr.from \in Nat /\ curr.to \in Nat
          /\ next.from \in Nat /\ next.to \in Nat /\ scan \in Nat /\ left \in Nat
      BY DEF TypeOK, MainTypeOK, Buffers
    <2>4. end \in Int /\ end <= next.to /\ scanA \in Nat /\ scanA <= next.to
      BY <2>1, <2>3 DEF AtDivide, Smaller, Size
    <2>5. scanB \in Nat /\ scanA <= scanB /\ end <= scanB /\ scanB <= next.to
      BY <2>3, <2>4 DEF Larger
    <2>6. lastB \in Int /\ next.from <= lastB /\ (lastB = next.from \/ lastB <= end)
      BY <2>2, <2>3, <2>4 DEF Larger
    <2>7. next.from <= scanB
      BY <2>1, <2>3, <2>5 DEF AtDivide
    <2>8. DictReaches(curr.from)' /\ HasRead' /\ curr'.pool = "in"
      BY <2>1, <2>2 DEF DictReaches, HasRead, Held, TypeOK, MainTypeOK, Buffers
    <2>9. CASE cut > next.from
      <3>1. /\ curr' = [curr EXCEPT !.to = cut] /\ next' = [next EXCEPT !.from = cut]
            /\ left' = 0 /\ hold' = hold /\ mpc' = "enqueue" /\ scan' = scanB
        BY <2>2, <2>3, <2>5, <2>6, <2>9
      <3>2. cut \in Int /\ cut <= scanB /\ cut <= next.to
        <4>1. CASE hit
          BY <2>1, <2>3, <2>4, <2>5, <2>6, <2>7, <4>1 DEF AtDivide
        <4>2. CASE ~hit
          BY <2>5, <4>2
        <4> QED BY <4>1, <4>2
      <3> HIDE DEF cut, scanB
      <3>3. /\ curr'.from = curr.from /\ curr'.to = cut
            /\ next'.from = cut /\ next'.to = next.to
        BY <2>3, <3>1 DEF Buffers
      <3>4. Fresh'
        BY <2>1, <2>3, <2>5, <3>1, <3>2, <3>3 DEF AtDivide, Fresh
      <3>5. AtEnqueue'
        BY <2>1, <2>3, <2>9, <3>1, <3>2, <3>3, <3>4 DEF AtDivide, AtEnqueue
      <3> QED BY <2>8, <3>1, <3>5
    <2>10. CASE cut <= next.from /\ splits
      <3>1. /\ hold' = next /\ left' = leftA /\ curr' = curr /\ next' = next
            /\ mpc' = "split" /\ scan' = scanB
        BY <2>2, <2>3, <2>5, <2>6, <2>10
      <3>2. lastB = next.from /\ lastA # curr.from
        BY <2>3, <2>6, <2>10
      <3>3. fresh /\ lastA \in scan + 1 .. curr.to /\ scan \in curr.from .. curr.to
        BY <2>1, <2>2, <3>2 DEF AtDivide
      <3>4. leftA > 0 /\ leftA = curr.to - lastA /\ curr.from < curr.to - leftA
        BY <2>3, <2>10, <3>3
      <3>5. next.from < next.to
        BY <2>3, <2>10 DEF Size
      <3> HIDE DEF leftA, scanB
      <3>6. AtSplit'
        BY <2>1, <2>3, <2>5, <2>7, <3>1, <3>3, <3>4, <3>5 DEF AtDivide, AtSplit, HasRead
      <3> QED BY <2>8, <3>1, <3>6
    <2>11. CASE cut <= next.from /\ ~splits
      <3>1. UNCHANGED <<curr, next, hold>> /\ left' = 0 /\ mpc' = "enqueue" /\ scan' = scanB
        BY <2>2, <2>3, <2>5, <2>6, <2>11
      <3> HIDE DEF scanB
      <3>2. AtEnqueue'
        BY <2>1, <2>3, <2>5, <2>7, <3>1 DEF AtDivide, AtEnqueue, Fresh
      <3> QED BY <2>8, <3>1, <3>2
    <2> QED BY <2>3, <2>5, <2>6, <2>9, <2>10, <2>11
  <1>5. CASE Split
    <2>1. /\ mpc = "split" /\ mpc' = "enqueue" /\ AtSplit /\ DictReaches(curr.from)
          /\ next' = [pool |-> "in", id |-> gets + 1, from |-> curr.to - left, to |-> curr.to]
          /\ curr' = [curr EXCEPT !.to = @ - left]
          /\ UNCHANGED <<rd, hold, dict, scan, left>>
      BY <1>5 DEF Split, MainAt, Geometry
    <2>2. curr'.from = curr.from /\ curr'.to = curr.to - left
      BY <2>1 DEF TypeOK, MainTypeOK, Buffers
    <2>3. DictReaches(curr.from)'
      BY <2>1, <2>2 DEF DictReaches
    <2>4. Waiting'
      BY <2>1 DEF AtSplit, Waiting, Size, TypeOK, MainTypeOK, Buffers
    <2>5. AtEnqueue'
      BY <2>1, <2>2, <2>4 DEF AtSplit, AtEnqueue, NoBuf, TypeOK, MainTypeOK, Buffers
    <2>6. HasRead' /\ curr'.pool = "in"
      BY <2>1 DEF Geometry, HasRead, Held, TypeOK, MainTypeOK, Buffers
    <2> QED BY <2>1, <2>3, <2>5, <2>6
  <1>6. CASE Enqueue
    <2>1. /\ mpc = "enqueue" /\ AtEnqueue /\ DictReaches(curr.from)
          /\ mpc' = IF Size(next) # 0 THEN "advance" ELSE "close"
          /\ dict' = IF Size(next) # 0 /\ SetDict THEN DictAfter(dict, curr) ELSE dict
          /\ UNCHANGED <<rd, next, hold, scan, left>>
      BY <1>6 DEF Enqueue, MainAt, Geometry
    <2>2. CASE mpc' = "advance"
      <3>1. Size(next) # 0 /\ next.from < next.to
        BY <2>1, <2>2 DEF AtEnqueue, Waiting, Fresh, Size, TypeOK, MainTypeOK, Buffers
      <3>2. HasRead'
        BY <2>1 DEF Geometry, HasRead
      <3>3. AtAdvance'
        <4>1. CASE Waiting
          <5>1. Waiting'
            BY <2>1, <4>1 DEF Waiting, Size, Held
          <5> QED BY <5>1 DEF AtAdvance
        <4>2. CASE Fresh
          <5>1. Fresh' /\ Block <= next.from
            BY <2>1, <3>1, <4>2 DEF AtEnqueue, Fresh
          <5> QED BY <2>1, <5>1 DEF AtAdvance
        <4> QED BY <2>1, <4>1, <4>2 DEF AtEnqueue
      <3>4. DictReaches(next.from)'
        <4>1. CASE ~SetDict
          BY <2>1, <4>1 DEF DictReaches
        <4>2. CASE SetDict /\ (Size(curr) >= DictSize \/ ~Held(dict))
          <5>1. dict' = curr /\ curr.pool = "in"
            BY <2>1, <3>1, <4>2 DEF DictAfter, Geometry
          <5>2. curr.from = 0 \/ DictSize <= curr.to - curr.from
            BY <2>1, <4>2 DEF DictReaches, Size
          <5> QED BY <2>1, <4>2, <5>1, <5>2 DEF DictReaches, AtEnqueue, Held
        <4>3. CASE SetDict /\ ~(Size(curr) >= DictSize \/ ~Held(dict))
          <5>1. dict' = [pool |-> "dict", id |-> 0,
                         from |-> dict.to - (DictSize - Size(curr)), to |-> curr.to]
            BY <2>1, <3>1, <4>3 DEF DictAfter
          <5>2. dict.to = curr.from /\ curr.to = next.from
            BY <2>1, <4>3 DEF DictReaches, AtEnqueue
          <5>3. /\ dict'.to = curr.to /\ dict'.from = curr.to - DictSize
                /\ curr.to \in Int
            BY <5>1, <5>2 DEF Size, TypeOK, MainTypeOK, Buffers
          <5> QED BY <2>1, <4>3, <5>1, <5>2, <5>3 DEF DictReaches, Held
        <4> QED BY <4>1, <4>2, <4>3
      <3> QED BY <2>2, <3>2, <3>3, <3>4
    <2> QED BY <2>1, <2>2
  <1>7. CASE CloseQueue \/ JoinThreads \/ WriteTrailer \/ ReadError \/ WriteError
    BY <1>7 DEF CloseQueue, JoinThreads, WriteTrailer, ReadError, WriteError, MainAt
  <1>8. CASE UNCHANGED mainVars
    <2>1. UNCHANGED <<mpc, rd, curr, next, hold, dict, scan, left>>
      BY <1>8 DEF mainVars
    <2>2. mpc = "header" => xpc' = "unborn" /\ \A w \in Workers : wpc'[w] = "unborn"
      <3>1. SUFFICES ASSUME mpc = "header" PROVE UNCHANGED <<wpc, xpc>>
        BY DEF Geometry
      <3>2. xpc = "unborn" /\ \A w \in Workers : wpc[w] = "unborn"
        BY <3>1 DEF Geometry
      <3>3. ~Writer /\ \A w \in Workers : ~Worker(w)
        BY <3>2 DEF Writer, WriterTake, WriterWait, WriterWrite, WriterError, WriterCombine,
                    WriterAt, Worker, WorkerInit, WorkerTake, WorkerWait, WorkerExit,
                    WorkerCompress, WorkerPublish, WorkerCheck, WorkerAt
      <3>4. ~Main
        BY <1>8, <3>1 DEF Main, WriteHeader, Launch, ReadFirst, Advance, Divide, Split, Enqueue,
            CloseQueue, JoinThreads, WriteTrailer, ReadError, WriteError, MainAt, mainVars
      <3> QED BY <3>3, <3>4 DEF Next, Terminated, vars, workerVars, writerVars
    <2> QED BY <2>1, <2>2 DEF Geometry, AtAdvance, AtDivide, AtSplit, AtEnqueue, DictReaches,
                              HasRead, Waiting, Fresh
  <1> QED
    BY <1>1, <1>2, <1>3, <1>4, <1>5, <1>6, <1>7, <1>8
    DEF Next, Main, Worker, WorkerInit, WorkerTake, WorkerWait, WorkerExit, WorkerCompress,
        WorkerPublish, WorkerCheck, Writer, WriterTake, WriterWait, WriterWrite, WriterError,
        WriterCombine, Terminated, vars

\* TypeOK is an invariant for any constants that satisfy the assumptions; the
\* buffer positions are natural numbers, the copied history included.
THEOREM TypeCorrect == Spec => []TypeOK
  <1>1. TypeOK /\ Geometry /\ [Next]_vars => (TypeOK /\ Geometry)'
    BY MainTypeStep, JobTypeStep, WorkerTypeStep, WriterTypeStep, GeometryStep DEF TypeOK
  <1> QED BY TypeInit, <1>1, PTL DEF Spec

\* Type and geometry together are the inductive invariant.
LEMMA GeometryInvariant == Spec => [](TypeOK /\ Geometry)
  <1>1. TypeOK /\ Geometry /\ [Next]_vars => (TypeOK /\ Geometry)'
    BY MainTypeStep, JobTypeStep, WorkerTypeStep, WriterTypeStep, GeometryStep DEF TypeOK
  <1> QED BY TypeInit, <1>1, PTL DEF Spec

\* The copy at compress.cpp:1110-1111 stays within the dictionary it takes the
\* history from, whatever the sizes and wherever the rolling hash cuts.
THEOREM DictionaryCopyInBounds == Spec => CopyWithinDict
  <1>1. TypeOK /\ Geometry /\ [Next]_vars =>
          (mpc = "enqueue" /\ dict' # dict /\ dict'.pool = "dict" =>
             dict.from <= dict'.from /\ dict.to = curr.from)
    <2> SUFFICES ASSUME TypeOK, Geometry, [Next]_vars, mpc = "enqueue", dict' # dict,
                        dict'.pool = "dict"
                 PROVE  dict.from <= dict'.from /\ dict.to = curr.from
      OBVIOUS
    <2>1. Enqueue
      BY DEF Next, Main, WriteHeader, Launch, ReadFirst, Advance, Divide, Split, CloseQueue, JoinThreads,
          WriteTrailer, ReadError, WriteError, MainAt, Worker, WorkerInit, WorkerTake,
          WorkerWait, WorkerExit, WorkerCompress, WorkerPublish, WorkerCheck, Writer,
          WriterTake, WriterWait, WriterWrite, WriterError, WriterCombine, Terminated,
          vars, mainVars
    <2>2. /\ DictReaches(curr.from) /\ AtEnqueue /\ curr.pool = "in"
          /\ dict' = IF Size(next) # 0 /\ SetDict THEN DictAfter(dict, curr) ELSE dict
      BY <2>1 DEF Enqueue, MainAt, Geometry
    <2>3. /\ Size(curr) < DictSize /\ Held(dict)
          /\ dict'.from = dict.to - (DictSize - Size(curr)) /\ next.from <= next.to
          /\ Size(next) # 0
      BY <2>2, SizesAssumption
      DEF DictAfter, Size, AtEnqueue, Waiting, Fresh, TypeOK, MainTypeOK, Buffers
    <2>4. /\ dict.to = curr.from /\ dict.from <= dict.to
          /\ dict.from = 0 \/ DictSize <= dict.to - dict.from
          /\ Block <= curr.to /\ curr.from <= curr.to
      BY <2>2, <2>3 DEF DictReaches, AtEnqueue, Size, TypeOK, MainTypeOK, Buffers
    <2>5. dict'.from = curr.to - DictSize
      BY <2>3, <2>4, SizesAssumption DEF Size, TypeOK, MainTypeOK, Buffers
    <2> QED BY <2>3, <2>4, <2>5, SizesAssumption, BlockAssumption
        DEF Size, TypeOK, MainTypeOK, Buffers
  <1>2. TypeOK /\ Geometry /\ [Next]_vars =>
          [mpc = "enqueue" /\ dict' # dict /\ dict'.pool = "dict" =>
             dict.from <= dict'.from /\ dict.to = curr.from]_vars
    BY <1>1
  <1> QED BY GeometryInvariant, <1>2, PTL DEF Spec, CopyWithinDict

-------------------------------------------------------------------------------
(* Where the jobs are: in the queue, with a compress thread, in the ring, with
   the write thread, or done with. *)

\* How many jobs have left the queue.
Taken == seq - Len(queue)

QueueInOrder ==
  /\ Len(queue) <= seq
  /\ \A i \in 1 .. Len(queue) : queue[i] = Taken + i - 1
  /\ \A s \in Taken .. seq - 1 : ~job[s].checked

\* The compress threads have different jobs, which cannot be done with as
\* long as their check value is missing.
WorkersApart ==
  /\ \A w \in Workers : wjob[w] # NoJob => /\ wseq <= wjob[w] /\ wjob[w] < Taken
                                          /\ ~job[wjob[w]].checked
  /\ \A v, w \in Workers : v # w /\ wjob[v] # NoJob => wjob[v] # wjob[w]

Unpublished ==
  \A w \in Workers : wpc[w] \in {"compress", "publish"} =>
    /\ \A i \in 0 .. Slots - 1 : ring[i] # wjob[w]
    /\ xjob # wjob[w]
    /\ wpc[w] = "publish" => job[wjob[w]].out # NoBlock

RingInOrder ==
  \A i \in 0 .. Slots - 1 : ring[i] # NoJob =>
    /\ wseq <= ring[i] /\ ring[i] < Taken
    /\ ring[i] % Slots = i /\ ring[i] # xjob
    /\ job[ring[i]].out # NoBlock

WriterInTurn ==
  /\ wseq <= Taken
  /\ xjob # NoJob => /\ xjob = wseq /\ wseq < Taken
                     /\ xpc = "write" => job[xjob].out # NoBlock

Pipeline == QueueInOrder /\ WorkersApart /\ Unpublished /\ RingInOrder /\ WriterInTurn

-------------------------------------------------------------------------------
(* Which buffers are out of the pool. *)

Apart(b1, b2) == b1.pool = "in" /\ b2.pool = "in" => b1.id # b2.id

Known(b) == b.pool = "in" => b.id <= gets

\* No two jobs share an input buffer, and no job shares one with the main
\* thread (but for its dictionary).
Ownership ==
  /\ Known(curr) /\ Known(next) /\ Known(hold)
  /\ \A s \in 0 .. seq - 1 : Known(job[s].in)
  /\ \A s, t \in 0 .. seq - 1 : s # t => Apart(job[s].in, job[t].in)
  /\ \A s \in 0 .. seq - 1 : Apart(job[s].in, curr) /\ Apart(job[s].in, next)
                             /\ Apart(job[s].in, hold)
  /\ Apart(curr, next) /\ Apart(curr, hold)
  /\ mpc # "split" => Apart(next, hold)

\* A job that is not done with has its input.
InFlightHeld == \A s \in 0 .. seq - 1 : wseq <= s => job[s].in.pool = "in"

PoolLimit == IsFiniteSet(InUse) /\ Cardinality(InUse) <= InBufs

Buffering == Ownership /\ InFlightHeld /\ PoolLimit

-------------------------------------------------------------------------------
(* The ring is larger than the pool. *)

\* The pool has fewer buffers than the ring has slots, for any number of threads.
LEMMA PoolBelowRing == InBufs < Slots /\ Slots \in Nat \ {0} /\ InBufs \in Nat
  BY WorkersAssumption, FS_CardinalityType DEF Procs, InBufs, Slots

\* Numbers that share a remainder are a whole divisor apart.
LEMMA RemainderGap ==
  ASSUME NEW N \in Nat \ {0}, NEW s \in Nat, NEW t \in Nat, s % N = t % N, t < s
  PROVE  s - t >= N
  <1>1. /\ s = N * (s \div N) + (s % N) /\ t = N * (t \div N) + (t % N)
        /\ s \div N \in Int /\ t \div N \in Int
    OBVIOUS
  <1>2. s - t = N * ((s \div N) - (t \div N))
    BY <1>1
  <1>3. (s \div N) - (t \div N) >= 1
    BY <1>1, <1>2
  <1> QED BY <1>1, <1>2, <1>3

\* Every job in flight occupies a buffer of its own.
LEMMA FewInFlight ==
  ASSUME TypeOK, Buffering, wseq <= seq
  PROVE  seq - wseq <= InBufs
  <1> DEFINE flight == wseq .. seq - 1
             buffer == [s \in flight |-> job[s].in.id]
  <1>1. seq \in Nat /\ wseq \in Nat
    BY DEF TypeOK, JobTypeOK, WriterTypeOK
  <1>2. \A s \in flight : s \in 0 .. seq - 1 /\ job[s].in.pool = "in"
    BY <1>1 DEF Buffering, InFlightHeld
  <1>3. \A s \in flight : job[s].in.id \in InUse
    BY <1>2 DEF InUse, Refs
  <1>4. \A s, t \in flight : s # t => job[s].in.id # job[t].in.id
    BY <1>2 DEF Buffering, Ownership, Apart
  <1>5. buffer \in Injection(flight, InUse)
    BY <1>3, <1>4 DEF Injection, IsInjective
  <1>6. Cardinality(flight) <= Cardinality(InUse)
    BY <1>5, FS_Injection DEF Buffering, PoolLimit
  <1>7. Cardinality(flight) = seq - wseq
    <2>1. wseq \in Int /\ seq - 1 \in Int
      BY <1>1
    <2>2. Cardinality(flight) = IF wseq > seq - 1 THEN 0 ELSE seq - 1 - wseq + 1
      BY <2>1, FS_Interval
    <2> HIDE DEF flight
    <2> QED BY <1>1, <2>2
  <1>8. Cardinality(InUse) \in Nat
    BY FS_CardinalityType DEF Buffering, PoolLimit
  <1> QED BY <1>1, <1>6, <1>7, <1>8, PoolBelowRing DEF Buffering, PoolLimit

\* So two jobs in flight never share a slot.
LEMMA OwnSlot ==
  ASSUME TypeOK, Buffering, NEW s \in wseq .. seq - 1, NEW t \in wseq .. seq - 1,
         s % Slots = t % Slots
  PROVE  s = t
  <1>1. seq \in Nat /\ wseq \in Nat /\ wseq <= seq
    BY DEF TypeOK, JobTypeOK, WriterTypeOK
  <1>2. seq - wseq < Slots
    BY <1>1, FewInFlight, PoolBelowRing
  <1>3. s \in Nat /\ t \in Nat
    BY <1>1
  <1>4. CASE t < s
    <2>1. s - t >= Slots
      BY <1>3, <1>4, RemainderGap, PoolBelowRing
    <2> QED BY <1>1, <1>2, <2>1, PoolBelowRing
  <1>5. CASE s < t
    <2>1. t - s >= Slots
      BY <1>3, <1>5, RemainderGap, PoolBelowRing
    <2> QED BY <1>1, <1>2, <2>1, PoolBelowRing
  <1> QED BY <1>3, <1>4, <1>5

-------------------------------------------------------------------------------
(* The steps, by what they can do to a job. *)

\* A step of the main thread, or one that leaves its variables alone.
LEMMA StepKinds ==
  ASSUME [Next]_vars
  PROVE  \/ WriteHeader \/ ReadFirst \/ Advance \/ Divide \/ Split \/ Enqueue
         \/ CloseQueue \/ JoinThreads \/ WriteTrailer \/ ReadError \/ WriteError
         \/ UNCHANGED <<mainVars, seq>> /\
              \/ \E w \in Workers : \/ WorkerTake(w) \/ WorkerCompress(w)
                                     \/ WorkerPublish(w) \/ WorkerCheck(w)
              \/ WriterTake \/ WriterWrite \/ WriterCombine
              \/ UNCHANGED <<job, queue, ring, wjob, xjob, wseq>>
  <1>1. CASE Main
    BY <1>1 DEF Main
  <1>2. ASSUME NEW w \in Workers, Worker(w)
        PROVE  /\ UNCHANGED <<mainVars, seq>>
               /\ \/ WorkerTake(w) \/ WorkerCompress(w) \/ WorkerPublish(w) \/ WorkerCheck(w)
                  \/ UNCHANGED <<job, queue, ring, wjob, xjob, wseq>>
    BY <1>2 DEF Worker, WorkerInit, WorkerTake, WorkerWait, WorkerExit, WorkerCompress,
                WorkerPublish, WorkerCheck, writerVars
  <1>3. CASE Writer
    BY <1>3 DEF Writer, WriterTake, WriterWait, WriterWrite, WriterError, WriterCombine,
                workerVars
  <1>4. CASE UNCHANGED vars
    BY <1>4 DEF vars, workerVars, writerVars
  <1> QED BY <1>1, <1>2, <1>3, <1>4 DEF Next, Terminated

-------------------------------------------------------------------------------
(* The buffers. *)

\* What each step that changes a job does to it, and to the others.
LEMMA CompressEffect ==
  ASSUME TypeOK, NEW w \in Workers, WorkerCompress(w)
  PROVE  /\ wjob[w] \in 0 .. seq - 1
         /\ job'[wjob[w]].out # NoBlock
         /\ \A s \in 0 .. seq - 1 : /\ job'[s].in = job[s].in
                                    /\ job'[s].checked = job[s].checked
                                    /\ job'[s].dict \in {job[s].dict, NoBuf}
                                    /\ s # wjob[w] => job'[s].out = job[s].out
  <1> DEFINE out == Compressed(job[wjob[w]])
  <1>1. wjob[w] \in 0 .. seq - 1
    BY DEF WorkerCompress, WorkerAt, TypeOK, WorkerTypeOK
  <1>2. out # NoBlock
    BY DEF Compressed, Stream!Deflated, NoBlock
  <1>3. job' = [job EXCEPT ![wjob[w]].out = out, ![wjob[w]].dict = NoBuf]
    BY DEF WorkerCompress
  <1> HIDE DEF out
  <1> QED BY <1>1, <1>2, <1>3 DEF TypeOK, JobTypeOK, Jobs

\* A check value is stored: the buffers stay.
LEMMA CheckEffect ==
  ASSUME TypeOK, NEW w \in Workers, WorkerCheck(w)
  PROVE  /\ wjob[w] \in 0 .. seq - 1
         /\ \A s \in 0 .. seq - 1 : /\ job'[s].in = job[s].in
                                    /\ job'[s].dict = job[s].dict
                                    /\ job'[s].out = job[s].out
                                    /\ s # wjob[w] => job'[s].checked = job[s].checked
  <1> DEFINE chk == Stream!Interval(job[wjob[w]].in.from, job[wjob[w]].in.to)
  <1>1. wjob[w] \in 0 .. seq - 1
    BY DEF WorkerCheck, WorkerAt, TypeOK, WorkerTypeOK
  <1>2. job' = [job EXCEPT ![wjob[w]].check = chk, ![wjob[w]].checked = TRUE]
    BY DEF WorkerCheck
  <1> HIDE DEF chk
  <1> QED BY <1>1, <1>2 DEF TypeOK, JobTypeOK, Jobs

\* A block is written: only its output goes.
LEMMA WriteEffect ==
  ASSUME TypeOK, WriterWrite
  PROVE  /\ xjob \in 0 .. seq - 1
         /\ \A s \in 0 .. seq - 1 : /\ job'[s].in = job[s].in
                                    /\ job'[s].dict = job[s].dict
                                    /\ job'[s].checked = job[s].checked
                                    /\ s # xjob => job'[s].out = job[s].out
  BY DEF WriterWrite, WriterAt, TypeOK, WriterTypeOK, JobTypeOK, Jobs

\* A job is combined: only its input goes, and its check value was there.
LEMMA CombineEffect ==
  ASSUME TypeOK, WriterCombine
  PROVE  /\ xjob \in 0 .. seq - 1 /\ job[xjob].checked
         /\ \A s \in 0 .. seq - 1 : /\ job'[s].dict = job[s].dict
                                    /\ job'[s].out = job[s].out
                                    /\ job'[s].checked = job[s].checked
                                    /\ s # xjob => job'[s].in = job[s].in
                                    /\ s = xjob => job'[s].in = NoBuf
  BY DEF WriterCombine, TypeOK, WriterTypeOK, JobTypeOK, Jobs

\* A compress thread or the write thread takes a job's buffers away at most.
LEMMA BuffersOnlyLeave ==
  ASSUME TypeOK, [Next]_vars, UNCHANGED <<mainVars, seq>>
  PROVE  \A s \in 0 .. seq - 1 : /\ job'[s].in \in {job[s].in, NoBuf}
                                 /\ job'[s].dict \in {job[s].dict, NoBuf}
  <1>1. CASE \E w \in Workers : WorkerCompress(w)
    BY <1>1, CompressEffect
  <1>2. CASE \E w \in Workers : WorkerCheck(w)
    BY <1>2, CheckEffect
  <1>3. CASE WriterWrite
    BY <1>3, WriteEffect
  <1>4. CASE WriterCombine
    BY <1>4, CombineEffect
  <1>5. CASE UNCHANGED job
    BY <1>5
  <1>6. CASE Enqueue
    BY <1>6 DEF Enqueue, TypeOK, JobTypeOK
  <1> QED BY <1>1, <1>2, <1>3, <1>4, <1>5, <1>6, StepKinds
          DEF WriteHeader, Launch, ReadFirst, Advance, Divide, Split, CloseQueue, JoinThreads,
              WriteTrailer, ReadError, WriteError, WorkerTake, WorkerPublish, WriterTake

\* The actions that hand out a buffer or move one.
LEMMA PoolLimitStep ==
  ASSUME TypeOK, Buffering, [Next]_vars
  PROVE  PoolLimit'
  <1>1. ASSUME InUse' \subseteq InUse PROVE PoolLimit'
    <2>1. IsFiniteSet(InUse') /\ Cardinality(InUse') <= Cardinality(InUse)
      BY <1>1, FS_Subset DEF Buffering, PoolLimit
    <2>2. Cardinality(InUse) \in Nat /\ Cardinality(InUse') \in Nat
      BY <2>1, FS_CardinalityType DEF Buffering, PoolLimit
    <2> QED BY <2>1, <2>2, PoolBelowRing DEF Buffering, PoolLimit
  <1>2. ASSUME Available, InUse' \subseteq InUse \cup {gets'} PROVE PoolLimit'
    <2>1. /\ IsFiniteSet(InUse \cup {gets'})
          /\ Cardinality(InUse \cup {gets'}) <= InBufs
      <3>1. Cardinality(InUse) \in Nat /\ Cardinality(InUse) < InBufs
        BY <1>2, FS_CardinalityType DEF Available, Buffering, PoolLimit
      <3> QED BY <3>1, FS_AddElement, PoolBelowRing DEF Buffering, PoolLimit
    <2>2. IsFiniteSet(InUse') /\ Cardinality(InUse') <= Cardinality(InUse \cup {gets'})
      BY <1>2, <2>1, FS_Subset
    <2>3. Cardinality(InUse \cup {gets'}) \in Nat /\ Cardinality(InUse') \in Nat
      BY <2>1, <2>2, FS_CardinalityType
    <2> QED BY <2>1, <2>2, <2>3, PoolBelowRing DEF PoolLimit
  <1> USE DEF InUse, Refs
  <1>3. CASE ReadFirst
    BY <1>2, <1>3 DEF ReadFirst, ReadNext, workerVars
  <1>4. CASE Advance
    <2>1. CASE Held(hold)
      BY <1>1, <1>4, <2>1 DEF Advance, NoBuf
    <2>2. CASE ~Held(hold)
      BY <1>2, <1>4, <2>2 DEF Advance, ReadNext, NoBuf
    <2> QED BY <2>1, <2>2
  <1>5. CASE Divide
    <2>1. /\ curr'.id = curr.id /\ curr'.pool = curr.pool
          /\ next'.id = next.id /\ next'.pool = next.pool
          /\ hold' = hold \/ hold' = next
      BY <1>5 DEF Divide, TypeOK, MainTypeOK, Buffers
    <2> QED BY <1>1, <1>5, <2>1 DEF Divide
  <1>6. CASE Split
    <2>1. curr'.id = curr.id /\ curr'.pool = curr.pool
      BY <1>6 DEF Split, TypeOK, MainTypeOK, Buffers
    <2>2. next'.id = gets' /\ UNCHANGED <<hold, dict, seq, job>> /\ Available
      BY <1>6 DEF Split
    <2>3. InUse' \subseteq InUse \cup {gets'}
      BY <2>1, <2>2
    <2> QED BY <1>2, <2>2, <2>3
  <1>7. CASE Enqueue
    <2>1. dict' \in {dict, curr} \/ dict'.pool = "dict"
      BY <1>7 DEF Enqueue, DictAfter
    <2>2. \A s \in 0 .. seq : job'[s] = IF s = seq THEN Job(curr, dict, Size(next) # 0) ELSE job[s]
      BY <1>7 DEF Enqueue
    <2>3. seq \in Nat /\ seq' = seq + 1 /\ curr' = NoBuf /\ next' = next /\ hold' = hold
      BY <1>7 DEF Enqueue, TypeOK, JobTypeOK
    <2>4. ASSUME NEW s \in 0 .. seq' - 1
          PROVE  /\ job'[s].in \in {curr} \cup {job[t].in : t \in 0 .. seq - 1}
                 /\ job'[s].dict \in {dict} \cup {job[t].dict : t \in 0 .. seq - 1}
      <3>1. CASE s = seq
        BY <2>2, <2>3, <3>1 DEF Job
      <3>2. CASE s \in 0 .. seq - 1
        BY <2>2, <2>3, <3>2
      <3> QED BY <2>3, <3>1, <3>2
    <2>5. \A r \in Refs' : r.pool = "in" => r \in Refs
      BY <2>1, <2>3, <2>4 DEF NoBuf
    <2> HIDE DEF Refs
    <2> QED BY <1>1, <2>5
  <1>8. CASE JoinThreads \/ WriteHeader \/ CloseQueue
    BY <1>1, <1>8 DEF JoinThreads, WriteHeader, Launch, CloseQueue
  <1>9. CASE WriteTrailer \/ ReadError \/ WriteError
    BY <1>1, <1>9 DEF WriteTrailer, ReadError, WriteError, NoBuf
  <1>10. ASSUME UNCHANGED <<mainVars, seq>>,
                \A s \in 0 .. seq - 1 : job'[s].in \in {job[s].in, NoBuf}
                                        /\ job'[s].dict \in {job[s].dict, NoBuf}
         PROVE  PoolLimit'
    BY <1>1, <1>10 DEF mainVars, NoBuf
  <1>11. CASE UNCHANGED <<mainVars, seq>>
    BY <1>10, <1>11, BuffersOnlyLeave
  <1> QED BY <1>3, <1>4, <1>5, <1>6, <1>7, <1>8, <1>9, <1>11, StepKinds

\* No step puts an input buffer into two jobs, or into a job and a hand of the main thread.
LEMMA OwnershipStep ==
  ASSUME TypeOK, Buffering, [Next]_vars
  PROVE  Ownership'
  <1> USE DEF Apart, Known
  <1>1. Ownership /\ gets \in Nat /\ seq \in Nat
    BY DEF Buffering, TypeOK, MainTypeOK, JobTypeOK
  <1>2. ASSUME ReadNext PROVE /\ next'.id = gets + 1 /\ gets' = gets + 1
                              /\ next'.pool = "in"
    BY <1>2 DEF ReadNext
  <1>3. /\ curr.id \in Nat /\ next.id \in Nat /\ hold.id \in Nat
        /\ \A s \in 0 .. seq - 1 : job[s].in.id \in Nat
    BY DEF TypeOK, MainTypeOK, JobTypeOK, Jobs, Buffers
  <1>4. CASE ReadFirst
    <2>1. UNCHANGED <<curr, hold, seq, job>> /\ ReadNext
      BY <1>4 DEF ReadFirst
    <2> QED BY <1>1, <1>2, <1>3, <2>1 DEF Ownership
  <1>5. CASE Advance
    <2>1. UNCHANGED <<seq, job>> /\ curr' = next /\ hold' = NoBuf /\ mpc # "split"
      BY <1>5 DEF Advance, MainAt
    <2>2. CASE Held(hold)
      <3>1. next' = hold /\ gets' = gets
        BY <1>5, <2>2 DEF Advance
      <3> QED BY <1>1, <2>1, <3>1 DEF Ownership, NoBuf
    <2>3. CASE ~Held(hold)
      <3>1. ReadNext
        BY <1>5, <2>3 DEF Advance
      <3> QED BY <1>1, <1>2, <1>3, <2>1, <3>1 DEF Ownership, NoBuf
    <2> QED BY <2>2, <2>3
  <1>6. CASE Divide
    <2>1. /\ curr'.id = curr.id /\ curr'.pool = curr.pool
          /\ next'.id = next.id /\ next'.pool = next.pool
          /\ \/ hold' = hold
             \/ hold' = next /\ mpc' = "split"
          /\ mpc # "split" /\ UNCHANGED <<gets, seq, job>>
      BY <1>6 DEF Divide, TypeOK, MainTypeOK, Buffers
    <2> QED BY <1>1, <2>1 DEF Ownership
  <1>7. CASE Split
    <2>1. /\ curr'.id = curr.id /\ curr'.pool = curr.pool
          /\ next'.id = gets + 1 /\ gets' = gets + 1 /\ UNCHANGED <<hold, seq, job>>
      BY <1>7 DEF Split, TypeOK, MainTypeOK, Buffers
    <2> QED BY <1>1, <1>3, <2>1 DEF Ownership
  <1>8. CASE Enqueue
    <2>1. /\ UNCHANGED <<gets, next, hold>> /\ curr' = NoBuf /\ seq' = seq + 1
          /\ mpc # "split" /\ job'[seq].in = curr
          /\ \A s \in 0 .. seq - 1 : job'[s] = job[s]
      BY <1>1, <1>8 DEF Enqueue, MainAt, Job
    <2> QED BY <1>1, <2>1 DEF Ownership, NoBuf
  <1>9. CASE UNCHANGED <<mainVars, seq>>
    <2>1. \A s \in 0 .. seq - 1 : job'[s].in \in {job[s].in, NoBuf}
      BY <1>9, BuffersOnlyLeave
    <2> QED BY <1>1, <1>9, <2>1 DEF Ownership, NoBuf, mainVars
  <1>10. CASE WriteHeader \/ CloseQueue \/ JoinThreads
    BY <1>1, <1>10 DEF WriteHeader, Launch, CloseQueue, JoinThreads, MainAt, Ownership
  <1>11. CASE WriteTrailer \/ ReadError \/ WriteError
    BY <1>1, <1>11 DEF WriteTrailer, ReadError, WriteError, MainAt, Ownership, NoBuf
  <1> QED BY <1>4, <1>5, <1>6, <1>7, <1>8, <1>9, <1>10, <1>11, StepKinds

\* No step takes the input from a job whose turn is still to come.
LEMMA InFlightHeldStep ==
  ASSUME TypeOK, Geometry, Buffering, WriterInTurn, [Next]_vars
  PROVE  InFlightHeld'
  <1>1. CASE Enqueue
    <2>1. /\ curr.pool = "in" /\ seq' = seq + 1 /\ wseq' = wseq /\ seq \in Nat
          /\ job'[seq].in = curr
          /\ \A s \in 0 .. seq - 1 : job'[s] = job[s]
      BY <1>1 DEF Enqueue, MainAt, Geometry, Job, TypeOK, JobTypeOK, writerVars
    <2> QED BY <2>1 DEF Buffering, InFlightHeld
  <1>2. CASE WriterCombine
    <2>1. /\ xjob \in 0 .. seq - 1 /\ xjob = wseq /\ wseq' = wseq + 1 /\ seq' = seq
          /\ \A s \in 0 .. seq - 1 : s # xjob => job'[s].in = job[s].in
      BY <1>2, CombineEffect DEF WriterCombine, WriterInTurn, NoJob
    <2> QED BY <2>1 DEF Buffering, InFlightHeld
  <1>3. ASSUME UNCHANGED <<seq, wseq>>, \A s \in 0 .. seq - 1 : job'[s].in = job[s].in
        PROVE  InFlightHeld'
    BY <1>3 DEF Buffering, InFlightHeld
  <1>4. ASSUME NEW w \in Workers, WorkerCompress(w) \/ WorkerCheck(w) PROVE InFlightHeld'
    <2>1. UNCHANGED <<seq, wseq>>
      BY <1>4 DEF WorkerCompress, WorkerCheck, writerVars
    <2> QED BY <1>3, <1>4, <2>1, CompressEffect, CheckEffect
  <1>5. CASE WriterWrite
    BY <1>3, <1>5, WriteEffect DEF WriterWrite
  <1>6. CASE UNCHANGED <<seq, wseq, job>>
    BY <1>3, <1>6
  <1> QED BY <1>1, <1>2, <1>4, <1>5, <1>6, StepKinds
      DEF WriteHeader, Launch, ReadFirst, Advance, Divide, Split, CloseQueue, JoinThreads, WriteTrailer,
          ReadError, WriteError, WorkerTake, WorkerPublish, WriterTake, writerVars

-------------------------------------------------------------------------------
(* The jobs. *)

\* The types of what the lemmas below count with.
LEMMA PipelineTypes ==
  ASSUME TypeOK
  PROVE  /\ seq \in Nat /\ wseq \in Nat
         /\ queue \in Seq(0 .. seq - 1) /\ Len(queue) \in Nat /\ Taken \in Int
         /\ \A i \in 0 .. Slots - 1 : ring[i] \in 0 .. seq - 1 \cup {NoJob}
         /\ \A w \in Workers : /\ wjob[w] \in 0 .. seq - 1 \cup {NoJob}
                               /\ wjob[w] # NoJob <=> wpc[w] \in {"compress", "publish", "check"}
         /\ xjob \in 0 .. seq - 1 \cup {NoJob} 
         /\ xjob # NoJob <=> xpc \in {"write", "combine", "aborted"}
         /\ NoJob \notin Nat
  <1>1. seq \in Nat /\ queue \in Seq(0 .. seq - 1)
    BY DEF TypeOK, JobTypeOK
  <1>2. Len(queue) \in Nat /\ Taken \in Int
    BY <1>1 DEF Taken
  <1>3. \A i \in 0 .. Slots - 1 : ring[i] \in 0 .. seq - 1 \cup {NoJob}
    BY DEF TypeOK, JobTypeOK
  <1>4. \A w \in Workers :
          /\ wjob[w] \in 0 .. seq - 1 \cup {NoJob}
          /\ wjob[w] # NoJob <=> wpc[w] \in {"compress", "publish", "check"}
    BY DEF TypeOK, WorkerTypeOK
  <1> QED BY <1>1, <1>2, <1>3, <1>4 DEF TypeOK, WriterTypeOK, NoJob

\* Making a job puts it at the end of the queue and nowhere else.
LEMMA PipelineEnqueue ==
  ASSUME TypeOK, Pipeline, Enqueue
  PROVE  Pipeline'
  <1> USE DEF Pipeline
  <1> USE PipelineTypes
  <1>1. /\ seq' = seq + 1 /\ queue' = Append(queue, seq)
        /\ UNCHANGED <<ring, wjob, xpc, xjob, wseq>>
        /\ \A s \in 0 .. seq - 1 : job'[s] = job[s]
        /\ ~job'[seq].checked
    BY DEF Enqueue, Job, writerVars
  <1>2. Len(queue') = Len(queue) + 1 /\ Taken' = Taken
    BY <1>1 DEF Taken, TypeOK, JobTypeOK
  <1>3. QueueInOrder'
    <2>1. \A i \in 1 .. Len(queue') : queue'[i] = Taken' + i - 1
      <3>1. \A i \in 1 .. Len(queue) : queue'[i] = queue[i]
        BY <1>1
      <3>2. queue'[Len(queue) + 1] = seq /\ seq = Taken + (Len(queue) + 1) - 1
        BY <1>1 DEF Taken
      <3> QED BY <1>2, <3>1, <3>2 DEF QueueInOrder
    <2>2. \A s \in Taken' .. seq' - 1 : s = seq \/ (s \in Taken .. seq - 1 /\ s \in 0 .. seq - 1)
      BY <1>1, <1>2 DEF QueueInOrder, Taken
    <2>3. Len(queue') <= seq'
      BY <1>1, <1>2 DEF QueueInOrder
    <2> QED BY <1>1, <2>1, <2>2, <2>3 DEF QueueInOrder
  <1>4. WorkersApart'
    BY <1>1, <1>2 DEF WorkersApart
  <1>5. Unpublished'
    <2>1. \A w \in Workers : wpc'[w] \in {"compress", "publish"} => wpc'[w] = wpc[w]
      BY DEF Enqueue, Wake, TypeOK, WorkerTypeOK
    <2> QED BY <1>1, <2>1 DEF Unpublished
  <1>6. RingInOrder' /\ WriterInTurn'
    BY <1>1, <1>2 DEF RingInOrder, WriterInTurn
  <1> QED BY <1>3, <1>4, <1>5, <1>6

\* The job at the head of the queue is the first one nobody has taken.
LEMMA PipelineTake ==
  ASSUME TypeOK, Pipeline, NEW w \in Workers, WorkerTake(w)
  PROVE  Pipeline'
  <1> USE PipelineTypes DEF Pipeline
  <1>1. /\ Len(queue) > 0 /\ queue' = Tail(queue) /\ wpc[w] = "idle"
        /\ wjob' = [wjob EXCEPT ![w] = Head(queue)] /\ wpc' = [wpc EXCEPT ![w] = "compress"]
        /\ UNCHANGED <<seq, job, ring, xpc, xjob, wseq>>
    BY DEF WorkerTake, WorkerAt, writerVars, TypeOK, JobTypeOK
  <1>2. /\ Len(queue') = Len(queue) - 1 /\ Taken' = Taken + 1 /\ Head(queue) = Taken
        /\ \A i \in 1 .. Len(queue') : queue'[i] = queue[i + 1]
    <2>1. /\ Len(queue') = Len(queue) - 1 /\ Head(queue) = queue[1]
          /\ \A i \in 1 .. Len(queue') : queue'[i] = queue[i + 1]
      BY <1>1
    <2>2. queue[1] = Taken
      <3>1. 1 \in 1 .. Len(queue) /\ Taken \in Int
        BY <1>1
      <3> QED BY <3>1 DEF QueueInOrder
    <2>3. Taken' = Taken + 1
      BY <1>1, <2>1 DEF Taken
    <2> QED BY <2>1, <2>2, <2>3
  <1>3. QueueInOrder'
    <2>1. Len(queue') <= seq' /\ \A s \in Taken' .. seq' - 1 : ~job'[s].checked
      BY <1>1, <1>2 DEF QueueInOrder
    <2>2. ASSUME NEW i \in 1 .. Len(queue') PROVE queue'[i] = Taken' + i - 1
      <3>1. i + 1 \in 1 .. Len(queue)
        BY <1>1, <1>2
      <3>2. queue[i + 1] = Taken + (i + 1) - 1
        BY <3>1 DEF QueueInOrder
      <3>3. queue'[i] = queue[i + 1] /\ Taken' = Taken + 1
        BY <1>2
      <3>4. i \in Int /\ Taken \in Int
        OBVIOUS
      <3> QED BY ONLY <3>2, <3>3, <3>4
    <2> QED BY <2>1, <2>2 DEF QueueInOrder
  <1>4. wjob'[w] = Taken /\ \A v \in Workers : v # w => wjob'[v] = wjob[v] /\ wpc'[v] = wpc[v]
    BY <1>1, <1>2 DEF TypeOK, WorkerTypeOK
  <1>5. Taken \in 0 .. seq - 1 /\ ~job[Taken].checked
    BY <1>1 DEF QueueInOrder, Taken
  <1>6. WorkersApart'
    BY <1>1, <1>2, <1>4, <1>5 DEF WorkersApart, WriterInTurn
  <1>7. Unpublished'
    <2>1. \A i \in 0 .. Slots - 1 : ring[i] # Taken
      BY <1>5 DEF RingInOrder
    <2>2. xjob # Taken
      BY <1>5 DEF WriterInTurn
    <2> QED BY <1>1, <1>4, <2>1, <2>2 DEF Unpublished, TypeOK, WorkerTypeOK
  <1>8. RingInOrder' /\ WriterInTurn'
    BY <1>1, <1>2 DEF RingInOrder, WriterInTurn
  <1> QED BY <1>3, <1>6, <1>7, <1>8

\* The queue is as good as before if its jobs are.
LEMMA QueueKept ==
  ASSUME TypeOK, QueueInOrder, UNCHANGED <<seq, queue>>,
         \A s \in 0 .. seq - 1 : Taken <= s => job'[s].checked = job[s].checked
  PROVE  QueueInOrder'
  <1>1. Taken' = Taken
    BY DEF Taken
  <1>2. \A s \in Taken .. seq - 1 : s \in 0 .. seq - 1 /\ Taken <= s
    BY PipelineTypes DEF QueueInOrder, Taken
  <1> QED BY <1>1, <1>2 DEF QueueInOrder

\* A compressed job is still with its thread.
LEMMA PipelineCompress ==
  ASSUME TypeOK, Pipeline, NEW w \in Workers, WorkerCompress(w)
  PROVE  Pipeline'
  <1> USE DEF Pipeline
  <1> USE PipelineTypes
  <1>1. /\ UNCHANGED <<seq, queue, ring, wjob, xpc, xjob, wseq>> /\ Taken' = Taken
        /\ wpc[w] = "compress" /\ wpc' = [wpc EXCEPT ![w] = "publish"]
    BY DEF WorkerCompress, WorkerAt, writerVars, Taken
  <1>2. QueueInOrder'
    BY <1>1, QueueKept, CompressEffect
  <1>3. WorkersApart'
    BY <1>1, CompressEffect DEF WorkersApart
  <1>4. Unpublished'
    <2>1. \A v \in Workers : /\ v # w => wpc'[v] = wpc[v]
                             /\ v # w /\ wjob[v] # NoJob => wjob[v] # wjob[w]
      BY <1>1 DEF WorkersApart, TypeOK, WorkerTypeOK
    <2> QED BY <1>1, <2>1, CompressEffect DEF Unpublished
  <1>5. RingInOrder'
    BY <1>1, CompressEffect DEF RingInOrder, Unpublished
  <1>6. WriterInTurn'
    BY <1>1, CompressEffect DEF WriterInTurn, Unpublished
  <1> QED BY <1>2, <1>3, <1>4, <1>5, <1>6

\* A published job is in its slot, and no other.
LEMMA PipelinePublish ==
  ASSUME TypeOK, Pipeline, NEW w \in Workers, WorkerPublish(w)
  PROVE  Pipeline'
  <1> USE DEF Pipeline
  <1> USE PipelineTypes
  <1>1. /\ UNCHANGED <<seq, job, queue, wjob, xjob, wseq>> /\ Taken' = Taken
        /\ wpc[w] = "publish" /\ wpc' = [wpc EXCEPT ![w] = "check"]
        /\ ring' = [ring EXCEPT ![wjob[w] % Slots] = wjob[w]]
        /\ xpc' = "write" => xpc = "write"
    BY DEF WorkerPublish, WorkerAt, Taken
  <1>2. wjob[w] # NoJob /\ wjob[w] \in Nat /\ wjob[w] % Slots \in 0 .. Slots - 1
    BY <1>1, PoolBelowRing
  <1>3. /\ ring'[wjob[w] % Slots] = wjob[w]
        /\ \A i \in 0 .. Slots - 1 : i # wjob[w] % Slots => ring'[i] = ring[i]
    BY <1>1, <1>2 DEF TypeOK, JobTypeOK
  <1>4. QueueInOrder' /\ WorkersApart' /\ WriterInTurn'
    BY <1>1 DEF QueueInOrder, WorkersApart, WriterInTurn
  <1>5. Unpublished'
    <2>1. \A v \in Workers : /\ v # w => wpc'[v] = wpc[v] /\ wjob[v] # wjob[w]
                             /\ wpc'[w] = "check"
      BY <1>1, <1>2 DEF WorkersApart, TypeOK, WorkerTypeOK
    <2> QED BY <1>1, <1>3, <2>1 DEF Unpublished
  <1>6. RingInOrder'
    <2>1. /\ wseq <= wjob[w] /\ wjob[w] < Taken /\ wjob[w] # xjob
          /\ job[wjob[w]].out # NoBlock
      BY <1>1, <1>2 DEF WorkersApart, Unpublished
    <2> QED BY <1>1, <1>3, <2>1 DEF RingInOrder
  <1> QED BY <1>4, <1>5, <1>6

\* A thread done with its job leaves it in the ring or with the write thread.
LEMMA PipelineCheck ==
  ASSUME TypeOK, Pipeline, NEW w \in Workers, WorkerCheck(w)
  PROVE  Pipeline'
  <1> USE DEF Pipeline
  <1> USE PipelineTypes
  <1>1. /\ UNCHANGED <<seq, queue, ring, xpc, xjob, wseq>> /\ Taken' = Taken
        /\ wpc[w] = "check" /\ wpc' = [wpc EXCEPT ![w] = "idle"]
        /\ wjob' = [wjob EXCEPT ![w] = NoJob]
    BY DEF WorkerCheck, WorkerAt, writerVars, Taken
  <1>2. wjob[w] # NoJob /\ wjob[w] < Taken
    BY <1>1 DEF WorkersApart
  <1>3. /\ wpc'[w] = "idle" /\ wjob'[w] = NoJob
        /\ \A v \in Workers : v # w => /\ wpc'[v] = wpc[v] /\ wjob'[v] = wjob[v]
                                       /\ wjob[v] # NoJob => wjob[v] # wjob[w]
    BY <1>1, <1>2 DEF WorkersApart, TypeOK, WorkerTypeOK
  <1>4. QueueInOrder'
    BY <1>1, <1>2, QueueKept, CheckEffect
  <1>5. WorkersApart'
    BY SMTT(30), <1>1, <1>3, CheckEffect DEF WorkersApart
  <1>6. Unpublished'
    BY SMTT(30), <1>1, <1>3, CheckEffect DEF Unpublished
  <1>7. RingInOrder' /\ WriterInTurn'
    BY <1>1, CheckEffect DEF RingInOrder, WriterInTurn
  <1> QED BY <1>4, <1>5, <1>6, <1>7

\* What the write thread finds in its slot is the job whose turn it is.
LEMMA TakesItsTurn ==
  ASSUME TypeOK, Pipeline, Buffering, WriterTake
  PROVE  xjob' = wseq
  <1>1. ring[wseq % Slots] # NoJob /\ xjob' = ring[wseq % Slots]
    BY DEF WriterTake
  <1>2. wseq % Slots \in 0 .. Slots - 1
    BY PipelineTypes, PoolBelowRing
  <1>3. /\ ring[wseq % Slots] \in wseq .. seq - 1
        /\ ring[wseq % Slots] % Slots = wseq % Slots
    BY <1>1, <1>2, PipelineTypes DEF Pipeline, RingInOrder
  <1>4. wseq \in wseq .. seq - 1
    BY <1>3, PipelineTypes
  <1> QED BY <1>1, <1>3, <1>4, OwnSlot

\* Taking a job moves it from its slot to the write thread.
LEMMA PipelineWriterTake ==
  ASSUME TypeOK, Pipeline, Buffering, WriterTake
  PROVE  Pipeline'
  <1> USE DEF Pipeline
  <1> USE PipelineTypes
  <1>1. /\ UNCHANGED <<seq, job, queue, wpc, wjob, wseq>> /\ Taken' = Taken
        /\ ring[wseq % Slots] # NoJob /\ xjob' = ring[wseq % Slots] /\ xjob' = wseq
        /\ ring' = [ring EXCEPT ![wseq % Slots] = NoJob]
    BY TakesItsTurn DEF WriterTake, workerVars, Taken
  <1>2. wseq % Slots \in 0 .. Slots - 1
    BY PoolBelowRing
  <1>3. \A i \in 0 .. Slots - 1 : ring'[i] = IF i = wseq % Slots THEN NoJob ELSE ring[i]
    BY <1>1, <1>2 DEF TypeOK, JobTypeOK
  <1>4. QueueInOrder' /\ WorkersApart'
    BY <1>1 DEF QueueInOrder, WorkersApart
  <1>5. Unpublished'
    <2>1. \A w \in Workers : wpc[w] \in {"compress", "publish"} => wjob[w] # wseq
      BY <1>1, <1>2 DEF Unpublished
    <2>2. \A w \in Workers : wpc[w] \in {"compress", "publish"} => wjob[w] # NoJob
      OBVIOUS
    <2> QED BY <1>1, <1>3, <2>1, <2>2 DEF Unpublished
  <1>6. RingInOrder'
    BY <1>1, <1>2, <1>3 DEF RingInOrder
  <1>7. WriterInTurn'
    BY <1>1, <1>2 DEF RingInOrder, WriterInTurn
  <1> QED BY <1>4, <1>5, <1>6, <1>7

\* A written job is still the one whose turn it is.
LEMMA PipelineWriterWrite ==
  ASSUME TypeOK, Pipeline, WriterWrite
  PROVE  Pipeline'
  <1> USE DEF Pipeline
  <1> USE PipelineTypes
  <1>1. /\ UNCHANGED <<seq, queue, ring, wpc, wjob, xjob, wseq>> /\ Taken' = Taken
        /\ xpc' = "combine"
    BY DEF WriterWrite, WriterAt, workerVars, Taken
  <1>2. QueueInOrder' /\ WorkersApart'
    BY <1>1, QueueKept, WriteEffect DEF WorkersApart
  <1>3. Unpublished'
    BY <1>1, WriteEffect DEF Unpublished
  <1>4. RingInOrder' /\ WriterInTurn'
    BY <1>1, WriteEffect DEF RingInOrder, WriterInTurn
  <1> QED BY <1>2, <1>3, <1>4

\* The next turn: nobody is left with the job that is done with.
LEMMA PipelineWriterCombine ==
  ASSUME TypeOK, Pipeline, WriterCombine
  PROVE  Pipeline'
  <1> USE DEF Pipeline
  <1> USE PipelineTypes
  <1>1. /\ UNCHANGED <<seq, queue, ring, wpc, wjob>> /\ Taken' = Taken
        /\ xjob' = NoJob /\ xjob # NoJob /\ wseq' = wseq + 1 /\ xpc' # "write"
    BY DEF WriterCombine, workerVars, Taken
  <1>2. xjob = wseq /\ wseq < Taken
    BY <1>1 DEF WriterInTurn
  <1>3. QueueInOrder'
    BY <1>1, QueueKept, CombineEffect
  <1>4. WorkersApart'
    BY <1>1, <1>2, CombineEffect DEF WorkersApart
  <1>5. Unpublished'
    BY <1>1, CombineEffect DEF Unpublished
  <1>6. RingInOrder' /\ WriterInTurn'
    BY <1>1, <1>2, CombineEffect DEF RingInOrder, WriterInTurn
  <1> QED BY <1>3, <1>4, <1>5, <1>6

\* A step that moves no job leaves the pipeline as it was.
LEMMA PipelineQuiet ==
  ASSUME TypeOK, Pipeline, UNCHANGED <<seq, job, queue, ring, wjob, xjob, wseq>>,
         xpc' = "write" => xpc = "write",
         \A w \in Workers : wpc'[w] \in {"compress", "publish"} => wpc'[w] = wpc[w]
  PROVE  Pipeline'
  <1>1. Taken' = Taken
    BY DEF Taken
  <1>2. QueueInOrder' /\ WorkersApart'
    BY <1>1, QueueKept DEF Pipeline, WorkersApart
  <1>3. Unpublished' /\ RingInOrder' /\ WriterInTurn'
    BY <1>1 DEF Pipeline, Unpublished, RingInOrder, WriterInTurn
  <1> QED BY <1>2, <1>3 DEF Pipeline

\* No step breaks the pipeline.
LEMMA PipelineStep ==
  ASSUME TypeOK, Pipeline, Buffering, [Next]_vars
  PROVE  Pipeline'
  <1>1. CASE WriteHeader \/ CloseQueue
    <2>1. /\ UNCHANGED <<seq, job, queue, ring, wjob, xjob, wseq>>
          /\ xpc' = "write" => xpc = "write"
      BY <1>1 DEF WriteHeader, Launch, CloseQueue, writerVars
    <2>2. \A w \in Workers : wpc'[w] \in {"compress", "publish"} => wpc'[w] = wpc[w]
      BY <1>1 DEF WriteHeader, Launch, CloseQueue
    <2> QED BY <1>1, <2>1, <2>2, PipelineQuiet DEF WriteHeader, Launch, CloseQueue, writerVars
  <1>2. CASE \/ ReadFirst \/ Advance \/ Divide \/ Split \/ JoinThreads \/ WriteTrailer
             \/ ReadError \/ WriteError
    BY <1>2, PipelineQuiet DEF ReadFirst, Advance, Divide, Split, JoinThreads, WriteTrailer,
       ReadError, WriteError, workerVars, writerVars
  <1>3. CASE Enqueue
    BY <1>3, PipelineEnqueue
  <1>4. ASSUME NEW w \in Workers, WorkerInit(w) \/ WorkerWait(w) \/ WorkerExit(w)
        PROVE  Pipeline'
    <2>1. UNCHANGED <<seq, job, queue, ring, wjob, xpc, xjob, wseq>>
      BY <1>4 DEF WorkerInit, WorkerWait, WorkerExit, writerVars
    <2>2. \A v \in Workers : wpc'[v] \in {"compress", "publish"} => wpc'[v] = wpc[v]
      BY <1>4 DEF WorkerInit, WorkerWait, WorkerExit, WorkerAt, TypeOK, WorkerTypeOK
    <2> QED BY <2>1, <2>2, PipelineQuiet
  <1>5. ASSUME NEW w \in Workers, Worker(w) PROVE Pipeline'
    BY <1>4, <1>5, PipelineTake, PipelineCompress, PipelinePublish, PipelineCheck DEF Worker
  <1>6. CASE WriterWait \/ WriterError
    BY <1>6, PipelineQuiet DEF WriterWait, WriterError, WriterAt, workerVars
  <1>7. CASE Writer
    BY <1>6, <1>7, PipelineWriterTake, PipelineWriterWrite, PipelineWriterCombine DEF Writer
  <1>8. CASE UNCHANGED vars
    BY <1>8, PipelineQuiet DEF vars, workerVars, writerVars
  <1> QED BY <1>1, <1>2, <1>3, <1>5, <1>7, <1>8 DEF Next, Main, Terminated

-------------------------------------------------------------------------------
(* The theorems. *)

IndInv == TypeOK /\ Geometry /\ Pipeline /\ Buffering

\* At the start the pipeline is empty and so are the buffers.
LEMMA PipelineInit == Init => Pipeline /\ Buffering
  <1> SUFFICES ASSUME Init PROVE Pipeline /\ Buffering
    OBVIOUS
  <1>1. /\ seq = 0 /\ queue = <<>> /\ Len(queue) = 0 /\ Taken = 0 /\ wseq = 0 /\ xjob = NoJob
        /\ \A w \in Workers : wjob[w] = NoJob /\ wpc[w] = "unborn"
        /\ \A i \in 0 .. Slots - 1 : ring[i] = NoJob
    <2>1. seq = 0 /\ queue = <<>> /\ wseq = 0 /\ xjob = NoJob
      BY DEF Init
    <2>2. Len(queue) = 0 /\ Taken = 0
      <3>1. Len(queue) = 0
        BY <2>1
      <3>2. seq = 0
        BY <2>1
      <3> QED BY <3>1, <3>2 DEF Taken
    <2>3. \A w \in Workers : wjob[w] = NoJob /\ wpc[w] = "unborn"
      BY DEF Init
    <2>4. \A i \in 0 .. Slots - 1 : ring[i] = NoJob
      BY DEF Init
    <2> QED BY <2>1, <2>2, <2>3, <2>4
  <1>2. Pipeline
    BY <1>1 DEF Pipeline, QueueInOrder, WorkersApart, Unpublished, RingInOrder, WriterInTurn
  <1>3. Ownership /\ InFlightHeld
    BY <1>1 DEF Init, Ownership, InFlightHeld, Known, Apart, NoBuf
  <1>4. InUse = {}
    BY <1>1 DEF Init, InUse, Refs, NoBuf
  <1>5. PoolLimit
    BY <1>4, FS_EmptySet, PoolBelowRing DEF PoolLimit
  <1> QED BY <1>2, <1>3, <1>5 DEF Buffering

\* The inductive invariant holds of every behaviour.
LEMMA Inductive == Spec => []IndInv
  <1>1. Init => IndInv
    BY TypeInit, PipelineInit DEF IndInv
  <1>2. IndInv /\ [Next]_vars => IndInv'
    <2> SUFFICES ASSUME IndInv, [Next]_vars PROVE IndInv'
      OBVIOUS
    <2>1. TypeOK' /\ Geometry'
      BY MainTypeStep, JobTypeStep, WorkerTypeStep, WriterTypeStep, GeometryStep
      DEF IndInv, TypeOK
    <2>2. Pipeline'
      BY PipelineStep DEF IndInv
    <2>3. Buffering'
      BY OwnershipStep, InFlightHeldStep, PoolLimitStep DEF IndInv, Pipeline, Buffering
    <2> QED BY <2>1, <2>2, <2>3 DEF IndInv
  <1> QED BY <1>1, <1>2, PTL DEF Spec

\* A compress thread always finds its slot of the write ring empty
\* (compress.cpp:940): the pool, at 2 procs + 3 buffers, runs dry before the
\* ring, at 4 procs slots, can be lapped.
THEOREM NoOverwrite == Spec => []RingSlotFree
  <1>1. IndInv => RingSlotFree
    <2> SUFFICES ASSUME IndInv, NEW w \in Workers, wpc[w] = "publish",
                        ring[wjob[w] % Slots] # NoJob
                 PROVE  FALSE
      BY DEF RingSlotFree
    <2> DEFINE s == wjob[w]
               t == ring[s % Slots]
    <2>1. s \in wseq .. seq - 1
      BY PipelineTypes DEF IndInv, Pipeline, WorkersApart
    <2>2. s % Slots \in 0 .. Slots - 1
      BY <2>1, PipelineTypes, PoolBelowRing DEF IndInv
    <2>3. t \in wseq .. seq - 1 /\ t % Slots = s % Slots
      BY <2>2, PipelineTypes DEF IndInv, Pipeline, RingInOrder
    <2>4. t # s
      BY <2>2 DEF IndInv, Pipeline, Unpublished
    <2> HIDE DEF s, t
    <2> QED BY <2>1, <2>3, <2>4, OwnSlot DEF IndInv
  <1> QED BY <1>1, Inductive, PTL

\* No thread finds the buffers of its job gone, and the write thread's job is
\* always the one whose turn it is (compress.cpp:936-956 and 981-1003).
THEOREM JobsStayIntact == Spec => []JobIntact
  <1>1. IndInv => JobIntact
    <2> SUFFICES ASSUME IndInv PROVE JobIntact
      OBVIOUS
    <2> USE PipelineTypes DEF IndInv, Pipeline
    <2>1. ASSUME NEW w \in Workers, wpc[w] \in {"compress", "publish", "check"}
          PROVE  Held(job[wjob[w]].in)
      <3>1. wjob[w] \in 0 .. seq - 1 /\ wseq <= wjob[w]
        BY <2>1 DEF WorkersApart
      <3> QED BY <3>1 DEF Buffering, InFlightHeld, Held
    <2>2. ASSUME xpc \in {"write", "combine"} PROVE xjob = wseq /\ Held(job[xjob].in)
      <3>1. xjob = wseq /\ xjob \in 0 .. seq - 1
        BY <2>2 DEF WriterInTurn
      <3> QED BY <3>1 DEF Buffering, InFlightHeld, Held
    <2>3. ASSUME xpc = "write" PROVE job[xjob].out # NoBlock
      BY <2>3 DEF WriterInTurn
    <2> QED BY <2>1, <2>2, <2>3 DEF JobIntact
  <1> QED BY <1>1, Inductive, PTL

-------------------------------------------------------------------------------
(* The main thread's way through the input. *)

\* A buffer that read_fd filled, or stopped short of filling at the end.
Full(b) == rd = Total \/ b.to - b.from = Block

\* The main thread has thrown: what it had in its hands is gone.
Lost == mpc \in {"unwind", "threw"}

\* It is through with the input.
Through == mpc \in {"close", "join", "trailer", "returned"}

\* Where the job to be made next begins.
MakerPos ==
  CASE mpc \in {"header", "first"} -> 0
    [] mpc = "advance" -> next.from
    [] mpc \in {"divide", "split", "enqueue"} -> curr.from
    [] OTHER -> Total

\* The hash has not reached the end of what fills a buffer after a split, so
\* that a boundary never eats a full buffer up.
ScanWithin(b) == Full(b) /\ scan < b.from + Block

NotEmpty(b) == b.from < b.to \/ (Total = 0 /\ seq = 0)

Reading ==
  /\ mpc \in {"header", "first"} => seq = 0
  /\ mpc = "advance" => NotEmpty(next)
  /\ mpc = "divide" => Full(next) /\ (left # 0 => ScanWithin(next))
  /\ mpc = "split" => ScanWithin(hold)
  /\ mpc \in {"advance", "enqueue"} /\ Held(hold) => ScanWithin(hold)
  /\ mpc = "enqueue" => NotEmpty(curr) /\ (next.from = next.to => rd = Total)
  /\ mpc \in {"advance", "divide", "split", "enqueue"} /\ seq > 0 => MakerPos > 0

-------------------------------------------------------------------------------
(* The jobs cover the input. *)

\* Where job s begins, which for the job still to be made is up to the main
\* thread, unless it has thrown.
Start(s) == IF s < seq THEN job[s].in.from ELSE MakerPos

Determined(s) == s < seq \/ ~Lost

\* One job after the other, the last one and only the last one said to be so.
Chain ==
  \A s \in wseq .. seq - 1 :
    /\ Determined(s + 1) => job[s].in.to = Start(s + 1)
    /\ job[s].in.from < job[s].in.to \/ (Total = 0 /\ s = 0)
    /\ job[s].in.to <= Total /\ (job[s].more <=> job[s].in.to < Total)
    /\ ~job[s].more => s = seq - 1 /\ (Through \/ mpc = "threw")

\* The jobs before wseq have been written and nothing of them is left.
Gone ==
  \A s \in 0 .. wseq - 1 : ~Held(job[s].in) /\ ~Held(job[s].dict) /\ job[s].out = NoBlock

\* What a job holds is what can be made of its input and its dictionary.
DictEnds(j) ==
  Held(j.dict) => /\ j.dict.from <= j.dict.to /\ j.dict.to = j.in.from
                  /\ j.dict.from = 0 \/ DictSize <= j.dict.to - j.dict.from

OutMatches(j) ==
  j.out # NoBlock =>
    /\ ~Held(j.dict)
    /\ \E df \in 0 .. j.in.from :
         j.out = Stream!Deflated(j.in.from, j.in.to, df, j.in.from, ~j.more)

SumMatches(j) == j.checked => j.check = Stream!Interval(j.in.from, j.in.to)

Contents ==
  \A s \in wseq .. seq - 1 : DictEnds(job[s]) /\ OutMatches(job[s]) /\ SumMatches(job[s])

\* A job waits in the queue, or its thread is about to compress it.
Uncompressed(s) == Taken <= s \/ \E w \in Workers : wpc[w] = "compress" /\ wjob[w] = s

Primed ==
  SetDict => \A s \in 1 .. seq - 1 : wseq <= s /\ Uncompressed(s) => Held(job[s].dict)

-------------------------------------------------------------------------------
(* The write thread's way through the jobs. *)

\* The length and the sum of what has been written and combined.
Progress ==
  /\ xpc = "combine" => /\ ulen = job[xjob].in.to
                        /\ checkVal = Stream!Interval(0, job[xjob].in.from)
                        /\ job[xjob].out = NoBlock /\ ~Held(job[xjob].dict)
  /\ xpc # "combine" => /\ Determined(wseq) => ulen = Start(wseq)
                        /\ checkVal = Stream!Interval(0, ulen)
  /\ xpc = "exited" => wseq = seq /\ (Through \/ mpc = "threw")
  /\ mpc \in {"trailer", "returned"} => xpc = "exited"

\* What the sink ends with.
Ends(kind) == sink # <<>> /\ sink[Len(sink)].kind = kind

Sunk ==
  /\ xpc = "unborn" => sink = <<>> /\ ulen = 0
  /\ xpc \in {"idle", "asleep", "write", "aborted"} => Stream!Unfinished /\ Stream!Restored = ulen
  /\ xpc = "combine" => /\ Ends("block") /\ sink[Len(sink)].to = ulen
                        /\ sink[Len(sink)].last = ~job[xjob].more
  /\ xpc = "exited" /\ mpc # "returned" => Ends("block") /\ sink[Len(sink)].last

-------------------------------------------------------------------------------
(* Sleep. *)

Awake ==
  /\ queue # <<>> /\ (\E w \in Workers : wpc[w] = "asleep") =>
       \E w \in Workers : wpc[w] \in {"idle", "compress", "publish", "check"}
  /\ xpc = "asleep" => ring[wseq % Slots] = NoJob

StreamInv == Reading /\ Chain /\ Gone /\ Contents /\ Primed /\ Progress /\ Sunk /\ Awake

-------------------------------------------------------------------------------
(* Lemmas on the main thread. *)

\* The types of what the lemmas below measure.
LEMMA MainTypes ==
  ASSUME TypeOK
  PROVE  /\ rd \in Nat /\ scan \in Nat /\ left \in Nat /\ gets \in Nat /\ rd <= Total
         /\ curr \in Buffers /\ next \in Buffers /\ hold \in Buffers /\ dict \in Buffers
         /\ curr.from \in Nat /\ curr.to \in Nat /\ next.from \in Nat /\ next.to \in Nat
         /\ hold.from \in Nat /\ hold.to \in Nat /\ dict.from \in Nat /\ dict.to \in Nat
         /\ Total \in Nat /\ Block \in Nat \ {0} /\ DictSize \in Nat \ {0} /\ seq \in Nat
  BY SizesAssumption, BlockAssumption DEF TypeOK, MainTypeOK, JobTypeOK, Buffers

\* Where the next job begins is a position.
LEMMA MakerPosType == TypeOK => MakerPos \in Nat
  BY MainTypes DEF MakerPos

\* While a block is being made, what has been read fills its buffer or is all there is.
LEMMA ReadingStep ==
  ASSUME TypeOK, Geometry, Reading, [Next]_vars
  PROVE  Reading'
  <1> USE MainTypes DEF NotEmpty, Full, ScanWithin
  <1>1. CASE WriteHeader
    BY <1>1 DEF WriteHeader, MainAt, Reading
  <1>2. CASE ReadFirst
    <2>1. /\ mpc = "first" /\ mpc' = "advance" /\ seq' = seq /\ hold' = hold /\ hold = NoBuf
          /\ rd = 0 /\ seq = 0 /\ next'.from = rd /\ next'.to = rd'
          /\ rd' = Total \/ rd' = rd + Block
      BY <1>2, ReadNextTypes DEF ReadFirst, MainAt, Geometry, Reading, TypeOK
    <2> QED BY <2>1, EmptyBuffer DEF Reading
  <1>3. CASE Advance
    <2>1. /\ mpc = "advance" /\ AtAdvance /\ curr' = next /\ hold' = NoBuf
          /\ UNCHANGED <<seq, scan, left>> /\ ~Held(hold')
          /\ mpc' = IF Rsync /\ next.from < next.to THEN "divide" ELSE "enqueue"
      <3>1. Size(next) > 0 <=> next.from < next.to
        BY DEF Size
      <3> QED BY <1>3, <3>1, EmptyBuffer DEF Advance, MainAt, Geometry
    <2>2. next.from < next.to \/ (Total = 0 /\ seq = 0)
      BY <2>1 DEF Reading
    <2>3. seq' > 0 => MakerPos' > 0
      BY <2>1 DEF Reading, MakerPos
    <2>4. CASE Held(hold)
      <3>1. Waiting /\ next' = hold /\ rd' = rd /\ mpc' = "divide"
        BY <1>3, <2>1, <2>4, EmptyBuffer DEF Advance, AtAdvance, Waiting, Fresh
      <3> QED BY <2>1, <2>3, <2>4, <3>1 DEF Reading
    <2>5. CASE ~Held(hold)
      <3>1. Fresh /\ left = 0
        BY <2>1, <2>5 DEF AtAdvance, Waiting, Fresh, Held
      <3>2. /\ next'.from = rd /\ next'.to = rd'
            /\ rd' = Total \/ rd' = rd + Block
        BY <1>3, <2>5, ReadNextTypes DEF Advance, TypeOK
      <3> QED BY <2>1, <2>2, <2>3, <3>1, <3>2 DEF Reading
    <2> QED BY <2>4, <2>5
  <1>4. CASE Divide
    <2> DEFINE fresh == left = 0
               scanA == IF fresh THEN curr.to ELSE scan
               end   == next.from + Smaller(Block - Size(curr), Size(next))
               scanB == Larger(scanA, end)
    <2>1. /\ mpc = "divide" /\ AtDivide /\ Full(next) /\ (left # 0 => ScanWithin(next))
          /\ UNCHANGED <<rd, seq>> /\ (seq > 0 => curr.from > 0)
          /\ ~Held(hold) /\ Rsync /\ hold = NoBuf
      BY <1>4, EmptyBuffer DEF Divide, Geometry, Reading, AtDivide, MakerPos
    <2>2. PICK lastA \in {curr.from} \cup (IF fresh THEN scan + 1 .. curr.to ELSE {}),
               lastB \in {next.from} \cup (Larger(scanA, next.from) + 1 .. end) :
            LET hit    == lastA # curr.from \/ lastB # next.from
                leftA  == IF fresh THEN curr.to - lastA ELSE left
                cut    == IF hit THEN lastB ELSE scanB
                splits == hit /\ leftA > 0 /\ Size(next) > 0
            IN /\ scan' = scanB
               /\ \/ /\ cut > next.from
                     /\ curr' = [curr EXCEPT !.to = cut]
                     /\ next' = [next EXCEPT !.from = cut]
                     /\ left' = 0
                     /\ hold' = hold
                     /\ mpc' = "enqueue"
                  \/ /\ cut <= next.from /\ splits
                     /\ hold' = next
                     /\ left' = leftA
                     /\ UNCHANGED <<curr, next>>
                     /\ mpc' = "split"
                  \/ /\ cut <= next.from /\ ~splits
                     /\ left' = 0
                     /\ UNCHANGED <<curr, next, hold>>
                     /\ mpc' = "enqueue"
      BY <1>4 DEF Divide
    <2>3. /\ curr.from < curr.to /\ curr.to = next.from /\ next.from <= next.to
          /\ next.to = rd
      BY <2>1 DEF AtDivide
    <2>4. end \in Int /\ end < next.from + Block /\ end <= next.to
      BY <2>3 DEF Smaller, Size
    <2>5. scanB \in Int /\ (scanB < next.from + Block) /\ scanA \in Int
      BY <2>1, <2>3, <2>4 DEF Larger
    <2>6. lastB \in Int /\ lastB < next.from + Block
      BY <2>2, <2>3, <2>4, <2>5 DEF Larger
    <2> HIDE DEF end, scanA, scanB
    <2>7. CASE mpc' = "split"
      <3>1. hold' = next /\ scan' = scanB /\ curr' = curr
        BY <2>2, <2>7
      <3> QED BY <2>1, <2>5, <2>7, <3>1 DEF Reading, MakerPos
    <2>8. CASE mpc' = "enqueue"
      <3>1. hold' = hold /\ curr'.from = curr.from
        BY <2>2, <2>8 DEF Buffers
      <3>2. \/ curr' = curr /\ next' = next
            \/ \E cut \in Int : /\ next.from < cut /\ cut < next.from + Block
                                /\ curr'.to = cut /\ next'.from = cut /\ next'.to = next.to
        <4>1. \/ UNCHANGED <<curr, next>>
              \/ \E cut \in {lastB, scanB} : /\ next.from < cut
                                             /\ curr' = [curr EXCEPT !.to = cut]
                                             /\ next' = [next EXCEPT !.from = cut]
          BY <2>2, <2>5, <2>6, <2>8
        <4> QED BY <4>1, <2>5, <2>6 DEF Buffers
      <3>3. curr'.from < curr'.to
        BY <2>3, <3>1, <3>2
      <3>4. next'.from = next'.to => rd = Total
        BY <2>1, <2>3, <3>2
      <3>5. seq' > 0 => MakerPos' > 0
        BY <2>1, <2>8, <3>1 DEF MakerPos
      <3>6. ~Held(hold')
        BY <2>1, <3>1
      <3> QED BY <2>1, <2>8, <3>3, <3>4, <3>5, <3>6 DEF Reading
    <2> QED BY <2>2, <2>7, <2>8
  <1>5. CASE Split
    <2>1. /\ mpc = "split" /\ mpc' = "enqueue" /\ AtSplit /\ ScanWithin(hold)
          /\ UNCHANGED <<rd, hold, scan, seq>> /\ (seq > 0 => curr.from > 0)
          /\ next'.from = curr.to - left /\ next'.to = curr.to
          /\ curr'.from = curr.from /\ curr'.to = curr.to - left
      BY <1>5 DEF Split, MainAt, Geometry, Reading, MakerPos, Buffers
    <2> QED BY <2>1 DEF AtSplit, Reading, MakerPos
  <1>6. CASE Enqueue
    <2>1. /\ mpc = "enqueue" /\ mpc' = IF next.from # next.to THEN "advance" ELSE "close"
          /\ AtEnqueue /\ UNCHANGED <<rd, next, hold, scan>>
          /\ Held(hold) => ScanWithin(hold)
          /\ NotEmpty(curr) /\ (next.from = next.to => rd = Total)
      <3>1. Size(next) # 0 <=> next.from # next.to
        BY DEF Size
      <3> QED BY <1>6, <3>1 DEF Enqueue, MainAt, Geometry, Reading
    <2>2. next.from <= next.to /\ curr.to = next.from /\ curr.from <= curr.to /\ next.to <= rd
      BY <2>1 DEF AtEnqueue, Waiting, Fresh
    <2>3. CASE mpc' = "advance"
      <3>1. next.from < next.to /\ next.from > 0
        BY <2>1, <2>2, <2>3
      <3> QED BY <2>1, <2>3, <3>1 DEF Reading, MakerPos, Held
    <2>4. CASE mpc' = "close"
      BY <2>4 DEF Reading
    <2> QED BY <2>1, <2>3, <2>4
  <1>7. CASE CloseQueue \/ JoinThreads \/ WriteTrailer \/ ReadError \/ WriteError
    BY <1>7 DEF CloseQueue, JoinThreads, WriteTrailer, ReadError, WriteError, MainAt, Reading
  <1>8. CASE UNCHANGED <<mainVars, seq>>
    BY <1>8 DEF mainVars, Reading, MakerPos, Held
  <1> QED BY <1>1, <1>2, <1>3, <1>4, <1>5, <1>6, <1>7, <1>8, StepKinds

\* Whatever the main thread does but make a job, the next one begins where it did.
LEMMA MakerMoves ==
  ASSUME TypeOK, Geometry, [Next]_vars
  PROVE  \/ Enqueue
         \/ /\ seq' = seq
            /\ Lost' \/ (~Lost /\ MakerPos' = MakerPos)
            /\ Through \/ mpc = "threw" => Through' \/ mpc' = "threw"
  <1> USE DEF Lost, MakerPos, Through
  <1>1. CASE WriteHeader \/ CloseQueue \/ JoinThreads \/ WriteTrailer
    BY <1>1 DEF WriteHeader, CloseQueue, JoinThreads, WriteTrailer, MainAt
  <1>2. CASE ReadFirst
    <2>1. next'.from = rd /\ rd = 0
      BY <1>2, ReadNextTypes DEF ReadFirst, MainAt, Geometry, TypeOK
    <2> QED BY <1>2, <2>1 DEF ReadFirst, MainAt
  <1>3. CASE Advance
    BY <1>3 DEF Advance, MainAt
  <1>4. CASE Divide
    <2>1. curr'.from = curr.from
      BY <1>4, MainTypes DEF Divide, Buffers
    <2> QED BY <1>4, <2>1 DEF Divide
  <1>5. CASE Split
    <2>1. curr'.from = curr.from
      BY <1>5, MainTypes DEF Split, Buffers
    <2> QED BY <1>5, <2>1 DEF Split, MainAt
  <1>6. CASE ReadError \/ WriteError
    BY <1>6 DEF ReadError, WriteError
  <1>7. CASE UNCHANGED <<mainVars, seq>>
    BY <1>7 DEF mainVars
  <1> QED BY <1>1, <1>2, <1>3, <1>4, <1>5, <1>6, <1>7, StepKinds

-------------------------------------------------------------------------------
(* Lemmas on the jobs: what each step leaves of every one of them. *)

\* The types of a job's parts.
LEMMA JobParts ==
  ASSUME TypeOK, NEW s \in 0 .. seq - 1
  PROVE  /\ job[s] \in Jobs /\ job[s].in \in Buffers /\ job[s].dict \in Buffers
         /\ job[s].in.from \in Nat /\ job[s].in.to \in Nat
         /\ job[s].dict.from \in Nat /\ job[s].dict.to \in Nat
         /\ job[s].more \in BOOLEAN /\ job[s].checked \in BOOLEAN
         /\ job[s].out \in Blocks \cup {NoBlock}
  BY DEF TypeOK, JobTypeOK, Jobs, Buffers

\* Enqueue adds a job with what the main thread has in its hands.
LEMMA EnqueueEffect ==
  ASSUME TypeOK, Enqueue
  PROVE  /\ seq' = seq + 1 /\ UNCHANGED <<writerVars, ring, sink, wjob>>
         /\ job'[seq].in = curr /\ job'[seq].dict = dict /\ job'[seq].out = NoBlock
         /\ ~job'[seq].checked /\ (job'[seq].more <=> next.from # next.to)
         /\ \A s \in 0 .. seq - 1 : job'[s] = job[s]
         /\ mpc = "enqueue" /\ mpc' = IF next.from # next.to THEN "advance" ELSE "close"
         /\ UNCHANGED <<next, hold, rd>>
  <1>1. Size(next) # 0 <=> next.from # next.to
    BY MainTypes DEF Size
  <1>2. seq' = seq + 1 /\ UNCHANGED <<writerVars, ring, sink, wjob, next, hold, rd>>
    BY DEF Enqueue, writerVars
  <1>3. mpc = "enqueue" /\ mpc' = IF next.from # next.to THEN "advance" ELSE "close"
    BY <1>1 DEF Enqueue, MainAt
  <1>4. \A s \in 0 .. seq :
          job'[s] = IF s = seq THEN Job(curr, dict, next.from # next.to) ELSE job[s]
    BY <1>1 DEF Enqueue
  <1>5. \A s \in 0 .. seq - 1 : job'[s] = job[s]
    BY <1>4, MainTypes
  <1>6. job'[seq] = Job(curr, dict, next.from # next.to)
    BY <1>4, MainTypes
  <1>7. /\ job'[seq].in = curr /\ job'[seq].dict = dict /\ job'[seq].out = NoBlock
        /\ ~job'[seq].checked
    BY <1>6 DEF Job
  <1>8. job'[seq].more <=> next.from # next.to
    <2> DEFINE more == next.from # next.to
    <2>1. job'[seq].more = more
      <3>1. job'[seq] = Job(curr, dict, more)
        BY <1>6
      <3> HIDE DEF more
      <3> QED BY <3>1 DEF Job
    <2> QED BY <2>1
  <1> QED BY <1>2, <1>3, <1>5, <1>7, <1>8

\* A compressed job is Compressed(j), and has no dictionary any more.
LEMMA CompressFields ==
  ASSUME TypeOK, NEW w \in Workers, WorkerCompress(w)
  PROVE  /\ wjob[w] \in 0 .. seq - 1
         /\ job'[wjob[w]].out = Compressed(job[wjob[w]]) /\ job'[wjob[w]].dict = NoBuf
         /\ \A s \in 0 .. seq - 1 : /\ UNCHANGED <<job[s].in, job[s].more, job[s].check,
                                                   job[s].checked>>
                                    /\ s # wjob[w] => job'[s] = job[s]
  <1> DEFINE out == Compressed(job[wjob[w]])
  <1>1. wjob[w] \in 0 .. seq - 1
    BY DEF WorkerCompress, WorkerAt, TypeOK, WorkerTypeOK
  <1>2. job' = [job EXCEPT ![wjob[w]].out = out, ![wjob[w]].dict = NoBuf]
    BY DEF WorkerCompress
  <1> HIDE DEF out
  <1>3. /\ job'[wjob[w]].out = out /\ job'[wjob[w]].dict = NoBuf
        /\ \A s \in 0 .. seq - 1 : /\ UNCHANGED <<job[s].in, job[s].more, job[s].check,
                                                  job[s].checked>>
                                   /\ s # wjob[w] => job'[s] = job[s]
    BY <1>1, <1>2 DEF TypeOK, JobTypeOK, Jobs
  <1> QED BY <1>1, <1>3 DEF out

\* A job's check value is that of its input.
LEMMA CheckFields ==
  ASSUME TypeOK, NEW w \in Workers, WorkerCheck(w)
  PROVE  /\ wjob[w] \in 0 .. seq - 1
         /\ job'[wjob[w]].check = Stream!Interval(job[wjob[w]].in.from, job[wjob[w]].in.to)
         /\ \A s \in 0 .. seq - 1 : /\ UNCHANGED <<job[s].in, job[s].more, job[s].dict,
                                                   job[s].out>>
                                    /\ s # wjob[w] => job'[s] = job[s]
  <1> DEFINE chk == Stream!Interval(job[wjob[w]].in.from, job[wjob[w]].in.to)
  <1>1. wjob[w] \in 0 .. seq - 1
    BY DEF WorkerCheck, WorkerAt, TypeOK, WorkerTypeOK
  <1>2. job' = [job EXCEPT ![wjob[w]].check = chk, ![wjob[w]].checked = TRUE]
    BY DEF WorkerCheck
  <1> HIDE DEF chk
  <1>3. /\ job'[wjob[w]].check = chk
        /\ \A s \in 0 .. seq - 1 : /\ UNCHANGED <<job[s].in, job[s].more, job[s].dict,
                                                  job[s].out>>
                                   /\ s # wjob[w] => job'[s] = job[s]
    BY <1>1, <1>2 DEF TypeOK, JobTypeOK, Jobs
  <1> QED BY <1>1, <1>3 DEF chk

\* The write thread takes the output of its job, then the input.
LEMMA WriteFields ==
  ASSUME TypeOK, WriterWrite
  PROVE  /\ xjob \in 0 .. seq - 1 /\ job'[xjob].out = NoBlock
         /\ \A s \in 0 .. seq - 1 : /\ UNCHANGED <<job[s].in, job[s].more, job[s].dict,
                                                   job[s].check, job[s].checked>>
                                    /\ s # xjob => job'[s] = job[s]
  BY DEF WriterWrite, WriterAt, TypeOK, WriterTypeOK, JobTypeOK, Jobs

\* See WriteFields.
LEMMA CombineFields ==
  ASSUME TypeOK, WriterCombine
  PROVE  /\ xjob \in 0 .. seq - 1 /\ job'[xjob].in = NoBuf
         /\ \A s \in 0 .. seq - 1 : /\ UNCHANGED <<job[s].more, job[s].dict, job[s].out,
                                                   job[s].check, job[s].checked>>
                                    /\ s # xjob => job'[s] = job[s]
  BY DEF WriterCombine, TypeOK, WriterTypeOK, JobTypeOK, Jobs

\* The five actions that change a job or what is waiting for whom.
LEMMA JobSteps ==
  ASSUME TypeOK, [Next]_vars
  PROVE  \/ Enqueue
         \/ seq' = seq /\ \/ \E w \in Workers : WorkerCompress(w) \/ WorkerCheck(w)
                          \/ WriterWrite \/ WriterCombine
                          \/ UNCHANGED <<job, wseq>>
  BY StepKinds DEF WriteHeader, ReadFirst, Advance, Divide, Split, CloseQueue, JoinThreads,
     WriteTrailer, ReadError, WriteError, WorkerTake, WorkerPublish, WriterTake, writerVars

\* As long as its turn is not over a job keeps its place in the input.
LEMMA PlacesKept ==
  ASSUME TypeOK, Pipeline, [Next]_vars
  PROVE  /\ wseq' \in Nat /\ wseq <= wseq' /\ seq <= seq'
         /\ wseq' # wseq => WriterCombine /\ xjob = wseq /\ wseq' = wseq + 1 /\ wseq < seq
         /\ \A s \in 0 .. seq - 1 : /\ job'[s].more = job[s].more
                                    /\ wseq' <= s => job'[s].in = job[s].in
  <1> USE PipelineTypes
  <1>1. CASE Enqueue
    BY <1>1, EnqueueEffect DEF writerVars
  <1>2. ASSUME NEW w \in Workers, WorkerCompress(w) \/ WorkerCheck(w), seq' = seq
        PROVE  /\ wseq' = wseq
               /\ \A s \in 0 .. seq - 1 : UNCHANGED <<job[s].in, job[s].more>>
    BY <1>2, CompressFields, CheckFields DEF WorkerCompress, WorkerCheck, writerVars
  <1>3. CASE WriterWrite /\ seq' = seq
    BY <1>3, WriteFields DEF WriterWrite
  <1>4. CASE WriterCombine /\ seq' = seq
    <2>1. xjob = wseq /\ wseq' = wseq + 1 /\ wseq < seq
      BY <1>4, CombineFields DEF WriterCombine, Pipeline, WriterInTurn
    <2> QED BY <1>4, <2>1, CombineFields
  <1>5. CASE UNCHANGED <<job, wseq, seq>>
    BY <1>5
  <1> QED BY <1>1, <1>2, <1>3, <1>4, <1>5, JobSteps

-------------------------------------------------------------------------------
(* The jobs cover the input, and what they hold comes from where it should. *)

\* Where the jobs not done with begin does not move, and a job is made where
\* the last one ended.
LEMMA StartKept ==
  ASSUME TypeOK, Geometry, Pipeline, [Next]_vars, NEW s \in Nat,
         wseq' <= s, s <= seq, Determined(s)'
  PROVE  Determined(s) /\ Start(s)' = Start(s)
  <1> USE DEF Start, Determined
  <1>1. CASE Enqueue
    <2>1. mpc = "enqueue" /\ MakerPos = curr.from /\ ~Lost
      BY <1>1, EnqueueEffect DEF MakerPos, Lost
    <2>2. CASE s = seq
      BY <1>1, <2>1, <2>2, EnqueueEffect, PipelineTypes
    <2>3. CASE s # seq
      BY <1>1, <2>3, EnqueueEffect, PipelineTypes
    <2> QED BY <2>2, <2>3
  <1>2. CASE ~Enqueue
    <2>1. seq' = seq /\ (Lost' \/ (~Lost /\ MakerPos' = MakerPos))
      BY <1>2, MakerMoves
    <2>2. s < seq => job'[s].in = job[s].in
      BY PlacesKept, PipelineTypes
    <2> QED BY <2>1, <2>2, PipelineTypes
  <1> QED BY <1>1, <1>2

\* The new job goes from where the last one ended to where the next begins,
\* and is the last one just when that is the end.
LEMMA NewJobFits ==
  ASSUME TypeOK, Geometry, Reading, Enqueue
  PROVE  /\ job'[seq].in.to = MakerPos' /\ ~Lost'
         /\ job'[seq].in.from < job'[seq].in.to \/ (Total = 0 /\ seq = 0)
         /\ job'[seq].in.to <= Total /\ (job'[seq].more <=> job'[seq].in.to < Total)
         /\ ~job'[seq].more => Through'
  <1> USE MainTypes, EnqueueEffect
  <1>1. AtEnqueue /\ NotEmpty(curr) /\ (next.from = next.to => rd = Total)
    BY DEF Geometry, Reading
  <1>2. /\ curr.to = next.from /\ next.from <= next.to /\ next.to <= rd
        /\ next.from = next.to => next.to = rd
    BY <1>1 DEF AtEnqueue, Waiting, Fresh
  <1>3. job'[seq].in = curr /\ (job'[seq].more <=> next.from # next.to)
    OBVIOUS
  <1>4. CASE next.from # next.to
    <2>1. mpc' = "advance" /\ MakerPos' = next.from
      BY <1>4 DEF MakerPos
    <2> QED BY <1>1, <1>2, <1>3, <1>4, <2>1 DEF NotEmpty, Lost
  <1>5. CASE next.from = next.to
    <2>1. mpc' = "close" /\ MakerPos' = Total
      BY <1>5 DEF MakerPos
    <2> QED BY <1>1, <1>2, <1>3, <1>5, <2>1 DEF NotEmpty, Lost, Through
  <1> QED BY <1>4, <1>5

\* No step opens a gap between two jobs.
LEMMA ChainStep ==
  ASSUME TypeOK, Geometry, Pipeline, Reading, Chain, [Next]_vars
  PROVE  Chain'
  <1> SUFFICES ASSUME NEW s \in wseq' .. seq' - 1
               PROVE  /\ Determined(s + 1)' => job'[s].in.to = Start(s + 1)'
                      /\ job'[s].in.from < job'[s].in.to \/ (Total = 0 /\ s = 0)
                      /\ job'[s].in.to <= Total /\ (job'[s].more <=> job'[s].in.to < Total)
                      /\ ~job'[s].more => s = seq' - 1 /\ (Through' \/ mpc' = "threw")
    BY DEF Chain
  <1> USE PipelineTypes
  <1>1. wseq' \in Nat /\ wseq <= wseq' /\ seq <= seq' /\ seq' \in Nat
    BY PlacesKept, EnqueueEffect, MakerMoves
  <1>2. CASE s < seq
    <2>1. s \in wseq .. seq - 1 /\ s \in 0 .. seq - 1 /\ s + 1 \in Nat
      BY <1>1, <1>2
    <2>2. job'[s].in = job[s].in /\ job'[s].more = job[s].more
      BY <2>1, PlacesKept
    <2>3. Determined(s + 1)' => Determined(s + 1) /\ Start(s + 1)' = Start(s + 1)
      BY <1>1, <2>1, StartKept
    <2>4. ~job[s].more => s = seq' - 1 /\ (Through' \/ mpc' = "threw")
      <3>1. CASE Enqueue
        BY <2>1, <3>1, EnqueueEffect DEF Chain, Through
      <3>2. CASE ~Enqueue
        BY <2>1, <3>2, MakerMoves DEF Chain
      <3> QED BY <3>1, <3>2
    <2> QED BY <2>1, <2>2, <2>3, <2>4 DEF Chain
  <1>3. CASE ~(s < seq)
    <2>1. Enqueue /\ s = seq /\ seq' = seq + 1
      BY <1>1, <1>3, MakerMoves, EnqueueEffect
    <2>2. Start(s + 1)' = MakerPos'
      BY <2>1 DEF Start
    <2> QED BY <2>1, <2>2, NewJobFits
  <1> QED BY <1>2, <1>3

\* What has been written stays released, and the write thread releases its job.
LEMMA GoneStep ==
  ASSUME TypeOK, Pipeline, Gone, Progress, [Next]_vars
  PROVE  Gone'
  <1> SUFFICES ASSUME NEW s \in 0 .. wseq' - 1
               PROVE  ~Held(job'[s].in) /\ ~Held(job'[s].dict) /\ job'[s].out = NoBlock
    BY DEF Gone
  <1> USE PipelineTypes, EmptyBuffer
  <1>1. wseq <= seq
    BY DEF Pipeline, WriterInTurn, QueueInOrder, Taken
  <1>2. CASE s < wseq
    <2>1. s \in 0 .. seq - 1 /\ ~Held(job[s].in) /\ ~Held(job[s].dict) /\ job[s].out = NoBlock
      BY <1>1, <1>2 DEF Gone
    <2>2. CASE Enqueue
      BY <2>1, <2>2, EnqueueEffect
    <2>3. ASSUME NEW w \in Workers, WorkerCompress(w) \/ WorkerCheck(w)
          PROVE  job'[s] = job[s]
      <3>1. wseq <= wjob[w]
        BY <2>3 DEF WorkerCompress, WorkerCheck, WorkerAt, Pipeline, WorkersApart
      <3> QED BY <1>2, <2>1, <2>3, <3>1, CompressFields, CheckFields
    <2>4. CASE WriterWrite
      BY <2>1, <2>4, WriteFields
    <2>5. CASE WriterCombine
      BY <2>1, <2>5, CombineFields
    <2> QED BY <2>1, <2>2, <2>3, <2>4, <2>5, JobSteps
  <1>3. CASE ~(s < wseq)
    <2>1. WriterCombine /\ s = wseq /\ xjob = wseq /\ s \in 0 .. seq - 1
      BY <1>1, <1>3, PlacesKept
    <2>2. xpc = "combine"
      BY <2>1 DEF WriterCombine
    <2> QED BY <2>1, <2>2, CombineFields DEF Progress
  <1> QED BY <1>2, <1>3

\* Compressing a job gives a block of its input, primed with what is before it.
LEMMA CompressedMatches ==
  ASSUME NEW j \in Jobs, DictEnds(j)
  PROVE  \E df \in 0 .. j.in.from :
           Compressed(j) = Stream!Deflated(j.in.from, j.in.to, df, j.in.from, ~j.more)
  <1>1. /\ j.in.from \in Nat /\ j.dict.from \in Nat /\ j.dict.to \in Nat
        /\ DictSize \in Nat
    BY SizesAssumption DEF Jobs, Buffers
  <1>2. CASE Held(j.dict)
    <2> DEFINE df == Larger(j.dict.from, j.dict.to - DictSize)
    <2>1. df \in 0 .. j.in.from /\ j.dict.to = j.in.from
      BY <1>1, <1>2 DEF DictEnds, Larger
    <2>2. Compressed(j) = Stream!Deflated(j.in.from, j.in.to, df, j.in.from, ~j.more)
      BY <1>2, <2>1 DEF Compressed
    <2> QED BY <2>1, <2>2
  <1>3. CASE ~Held(j.dict)
    <2>1. Compressed(j) = Stream!Deflated(j.in.from, j.in.to, j.in.from, j.in.from, ~j.more)
      BY <1>3 DEF Compressed
    <2> QED BY <1>1, <2>1
  <1> QED BY <1>2, <1>3

\* No step leaves a job with a dictionary, an output or a sum that is not its own.
LEMMA ContentsStep ==
  ASSUME TypeOK, Geometry, Pipeline, Contents, [Next]_vars
  PROVE  Contents'
  <1> SUFFICES ASSUME NEW s \in wseq' .. seq' - 1
               PROVE  /\ DictEnds(job[s])' /\ OutMatches(job[s])' /\ SumMatches(job[s])'
    BY DEF Contents
  <1> USE PipelineTypes, EmptyBuffer
  <1>1. wseq' \in Nat /\ wseq <= wseq' /\ seq <= seq' /\ seq' \in Nat
    BY PlacesKept, EnqueueEffect, MakerMoves
  <1>2. CASE Enqueue /\ s = seq
    <2>1. DictReaches(curr.from)
      BY <1>2, EnqueueEffect DEF Geometry
    <2> QED BY <1>2, <2>1, EnqueueEffect DEF DictReaches, DictEnds, OutMatches, SumMatches
  <1>3. CASE s \in 0 .. seq - 1
    <2>1. DictEnds(job[s]) /\ OutMatches(job[s]) /\ SumMatches(job[s]) /\ job[s] \in Jobs
      BY <1>1, <1>3, JobParts DEF Contents
    <2> USE DEF DictEnds, OutMatches, SumMatches
    <2>2. CASE job'[s] = job[s]
      BY <2>1, <2>2
    <2>3. ASSUME NEW w \in Workers, WorkerCompress(w), s = wjob[w]
          PROVE  DictEnds(job[s])' /\ OutMatches(job[s])' /\ SumMatches(job[s])'
      <3>1. /\ job'[s].out = Compressed(job[s]) /\ ~Held(job'[s].dict)
            /\ UNCHANGED <<job[s].in, job[s].more, job[s].check, job[s].checked>>
        BY <2>3, CompressFields
      <3>2. \E df \in 0 .. job[s].in.from :
              Compressed(job[s]) =
                Stream!Deflated(job[s].in.from, job[s].in.to, df, job[s].in.from, ~job[s].more)
        BY <2>1, CompressedMatches
      <3> QED BY <2>1, <3>1, <3>2
    <2>4. ASSUME NEW w \in Workers, WorkerCheck(w), s = wjob[w]
          PROVE  DictEnds(job[s])' /\ OutMatches(job[s])' /\ SumMatches(job[s])'
      BY SMTT(30), <2>1, <2>4, CheckFields
    <2>5. CASE WriterWrite /\ s = xjob
      BY <2>1, <2>5, WriteFields
    <2>6. CASE WriterCombine
      <3>1. s # xjob
        BY <1>1, <2>6, PlacesKept, CombineFields DEF WriterCombine, Pipeline, WriterInTurn
      <3> QED BY <1>3, <2>2, <2>6, <3>1, CombineFields
    <2> QED BY <1>3, <2>2, <2>3, <2>4, <2>5, <2>6, JobSteps, EnqueueEffect, CompressFields,
               CheckFields, WriteFields
  <1> QED BY <1>1, <1>2, <1>3, EnqueueEffect, MakerMoves

\* A thread comes to compress a job by taking it from the queue.
LEMMA CompressAfterTake ==
  ASSUME TypeOK, [Next]_vars, NEW w \in Workers, wpc'[w] = "compress", ~WorkerTake(w)
  PROVE  wpc[w] = "compress" /\ wjob'[w] = wjob[w]
  <1> USE DEF TypeOK, WorkerTypeOK
  <1>1. CASE Main
    <2>1. wjob' = wjob
      BY <1>1 DEF Main, WriteHeader, ReadFirst, Advance, Divide, Split, Enqueue, CloseQueue,
         JoinThreads, WriteTrailer, ReadError, WriteError, workerVars
    <2>2. wpc[w] = "compress"
      BY <1>1 DEF Main, WriteHeader, Launch, ReadFirst, Advance, Divide, Split, Enqueue, Wake,
         CloseQueue, JoinThreads, WriteTrailer, ReadError, WriteError, workerVars
    <2> QED BY <2>1, <2>2
  <1>2. ASSUME NEW v \in Workers, Worker(v) PROVE wpc[w] = "compress" /\ wjob'[w] = wjob[w]
    BY <1>2 DEF Worker, WorkerInit, WorkerTake, WorkerWait, WorkerExit, WorkerCompress,
                WorkerPublish, WorkerCheck, WorkerAt
  <1>3. CASE Writer
    BY <1>3 DEF Writer, WriterTake, WriterWait, WriterWrite, WriterError, WriterCombine,
                workerVars
  <1> QED BY <1>1, <1>2, <1>3 DEF Next, Terminated, vars, workerVars

\* What leaves the queue is its first job.
LEMMA TakeEffect ==
  ASSUME TypeOK, Pipeline, NEW w \in Workers, WorkerTake(w)
  PROVE  /\ Taken' = Taken + 1 /\ wjob'[w] = Taken /\ wpc'[w] = "compress"
         /\ UNCHANGED <<seq, job>>
  <1>1. /\ queue # <<>> /\ queue' = Tail(queue) /\ UNCHANGED <<seq, job>>
        /\ wjob' = [wjob EXCEPT ![w] = Head(queue)] /\ wpc' = [wpc EXCEPT ![w] = "compress"]
    BY DEF WorkerTake, WorkerAt
  <1>2. Len(queue) > 0 /\ Len(queue') = Len(queue) - 1 /\ Head(queue) = queue[1]
    BY <1>1, PipelineTypes
  <1>3. queue[1] = Taken
    <2>1. 1 \in 1 .. Len(queue)
      BY <1>2, PipelineTypes
    <2> QED BY <2>1, PipelineTypes DEF Pipeline, QueueInOrder
  <1>4. Taken' = Taken + 1
    BY <1>1, <1>2, PipelineTypes DEF Taken
  <1> QED BY <1>1, <1>2, <1>3, <1>4 DEF TypeOK, WorkerTypeOK

\* Nothing else leaves the queue.
LEMMA TakenKept ==
  ASSUME TypeOK, Pipeline, [Next]_vars
  PROVE  Taken' \in {Taken, Taken + 1} /\ (Taken' # Taken => \E w \in Workers : WorkerTake(w))
  <1> USE PipelineTypes
  <1>1. CASE Enqueue
    BY <1>1 DEF Enqueue, Taken
  <1>2. CASE \E w \in Workers : WorkerTake(w)
    BY <1>2, TakeEffect
  <1>3. CASE UNCHANGED <<seq, queue>>
    BY <1>3 DEF Taken
  <1> QED BY <1>1, <1>2, <1>3, StepKinds
      DEF WriteHeader, ReadFirst, Advance, Divide, Split, CloseQueue, JoinThreads, WriteTrailer,
          ReadError, WriteError, WorkerCompress, WorkerPublish, WorkerCheck, WriterTake,
          WriterWrite, WriterCombine

\* A job that is still to be compressed was so before, unless it is new.
LEMMA UncompressedBefore ==
  ASSUME TypeOK, Pipeline, [Next]_vars, NEW s \in 0 .. seq - 1, Uncompressed(s)'
  PROVE  Uncompressed(s) /\ job'[s].dict = job[s].dict
  <1> USE PipelineTypes
  <1>1. Uncompressed(s)
    <2>1. CASE Taken' <= s
      BY <2>1, TakenKept DEF Uncompressed
    <2>2. ASSUME NEW w \in Workers, wpc'[w] = "compress", wjob'[w] = s PROVE Uncompressed(s)
      <3>1. CASE WorkerTake(w)
        BY <2>2, <3>1, TakeEffect DEF Uncompressed
      <3>2. CASE ~WorkerTake(w)
        BY <2>2, <3>2, CompressAfterTake DEF Uncompressed
      <3> QED BY <3>1, <3>2
    <2> QED BY <2>1, <2>2 DEF Uncompressed
  <1>2. job'[s].dict = job[s].dict
    <2>1. ASSUME NEW w \in Workers, WorkerCompress(w) PROVE s # wjob[w]
      <3> SUFFICES ASSUME s = wjob[w] PROVE FALSE
        OBVIOUS
      <3>1. /\ wpc[w] = "compress" /\ wpc' = [wpc EXCEPT ![w] = "publish"] /\ wjob' = wjob
            /\ seq' = seq /\ queue' = queue
        BY <2>1 DEF WorkerCompress, WorkerAt
      <3>2. wjob[w] < Taken /\ Taken' = Taken
        BY <3>1 DEF Pipeline, WorkersApart, Taken
      <3>3. PICK v \in Workers : wpc'[v] = "compress" /\ wjob'[v] = s
        BY <3>2 DEF Uncompressed
      <3>4. v # w /\ wjob[v] = wjob[w] /\ wjob[v] # NoJob
        BY <3>1, <3>3 DEF TypeOK, WorkerTypeOK
      <3> QED BY <3>4 DEF Pipeline, WorkersApart
    <2> QED BY <2>1, JobSteps, EnqueueEffect, CompressFields, CheckFields, WriteFields,
               CombineFields
  <1> QED BY <1>1, <1>2

\* No step lets a job go to a thread without the history it needs.
LEMMA PrimedStep ==
  ASSUME TypeOK, Geometry, Pipeline, Reading, Primed, [Next]_vars
  PROVE  Primed'
  <1> SUFFICES ASSUME SetDict, NEW s \in 1 .. seq' - 1, wseq' <= s, Uncompressed(s)'
               PROVE  Held(job'[s].dict)
    BY DEF Primed
  <1> USE PipelineTypes
  <1>1. wseq' \in Nat /\ wseq <= wseq' /\ seq <= seq' /\ seq' \in Nat
    BY PlacesKept, EnqueueEffect, MakerMoves
  <1>2. CASE s < seq
    BY <1>1, <1>2, UncompressedBefore DEF Primed
  <1>3. CASE ~(s < seq)
    <2>1. Enqueue /\ s = seq /\ seq > 0
      BY <1>1, <1>3, MakerMoves, EnqueueEffect
    <2>2. mpc = "enqueue" /\ DictReaches(curr.from) /\ curr.from > 0 /\ job'[s].dict = dict
      BY <2>1, EnqueueEffect DEF Geometry, Reading, MakerPos
    <2> QED BY <2>2 DEF DictReaches
  <1> QED BY <1>2, <1>3

-------------------------------------------------------------------------------
(* The write thread counts, sums and writes what the jobs hold. *)

\* The steps, by what they do to the write thread and the output.
LEMMA WriterKinds ==
  ASSUME TypeOK, Geometry, [Next]_vars
  PROVE  \/ WriterWrite \/ WriterCombine
         \/ /\ WriterTake \/ WriterWait \/ WriterError
            /\ UNCHANGED <<mpc, seq, job, wseq, ulen, checkVal, sink>>
         \/ /\ UNCHANGED <<wseq, ulen, checkVal, xjob>>
            /\ \/ xpc' = xpc /\ ~WriteHeader
               \/ xpc = "unborn" /\ xpc' = "idle" /\ WriteHeader
               \/ xpc = "asleep" /\ xpc' = "idle" /\ UNCHANGED <<mpc, sink>>
            /\ WriteHeader \/ WriteTrailer \/ sink' = sink
            /\ mpc' \in {"trailer", "returned"} =>
                 xpc = "exited" \/ mpc \in {"trailer", "returned"}
            /\ mpc = "returned" => mpc' = "returned"
  <1>1. CASE Writer
    BY <1>1 DEF Writer, WriterTake, WriterWait, WriterError, mainVars
  <1>2. CASE WriteHeader
    BY <1>2 DEF WriteHeader, MainAt, Launch, Geometry
  <1>3. CASE \/ ReadFirst \/ Advance \/ Divide \/ Split \/ Enqueue \/ CloseQueue
             \/ ReadError \/ WriteError
    BY <1>3 DEF ReadFirst, Advance, Divide, Split, Enqueue, CloseQueue, ReadError, WriteError,
                MainAt, writerVars, WriteHeader
  <1>4. CASE JoinThreads \/ WriteTrailer
    BY <1>4 DEF JoinThreads, WriteTrailer, MainAt, writerVars, WriteHeader
  <1>5. ASSUME NEW w \in Workers, Worker(w)
        PROVE  /\ UNCHANGED <<wseq, ulen, checkVal, xjob, mpc, sink>>
               /\ xpc' = xpc \/ (xpc = "asleep" /\ xpc' = "idle")
    BY <1>5 DEF Worker, WorkerInit, WorkerTake, WorkerWait, WorkerExit, WorkerCompress,
                WorkerPublish, WorkerCheck, writerVars, mainVars
  <1>6. CASE \E w \in Workers : Worker(w)
    BY <1>5, <1>6 DEF WriteHeader, MainAt
  <1>7. CASE UNCHANGED vars
    BY <1>7 DEF vars, mainVars, writerVars, WriteHeader, MainAt
  <1> QED BY <1>1, <1>2, <1>3, <1>4, <1>6, <1>7 DEF Next, Main, Terminated

\* Nobody touches the output or the dictionary of a job that has been written.
LEMMA WrittenStays ==
  ASSUME TypeOK, Pipeline, [Next]_vars, xpc = "combine",
         job[xjob].out = NoBlock, ~Held(job[xjob].dict)
  PROVE  job'[xjob].out = NoBlock /\ ~Held(job'[xjob].dict)
  <1>1. xjob \in 0 .. seq - 1
    BY PipelineTypes
  <1>2. ASSUME NEW w \in Workers, WorkerCompress(w) PROVE xjob # wjob[w]
    BY <1>2 DEF WorkerCompress, WorkerAt, Pipeline, Unpublished
  <1> QED BY <1>1, <1>2, JobSteps, EnqueueEffect, CompressFields, CheckFields, WriteFields,
             CombineFields

\* As long as the write thread does nothing its counts stay right.
LEMMA ProgressQuiet ==
  ASSUME TypeOK, Geometry, Pipeline, Progress, [Next]_vars,
         UNCHANGED <<wseq, ulen, checkVal>>,
         xpc' = "combine" <=> xpc = "combine", xpc = "combine" => xjob' = xjob,
         xpc' = "exited" <=> xpc = "exited",
         mpc' \in {"trailer", "returned"} => xpc = "exited" \/ mpc \in {"trailer", "returned"}
  PROVE  Progress'
  <1> USE PipelineTypes
  <1>1. wseq \in Nat /\ wseq <= seq
    BY DEF Pipeline, WriterInTurn, QueueInOrder, Taken
  <1>2. ASSUME xpc = "combine"
        PROVE  /\ ulen' = job'[xjob'].in.to
               /\ checkVal' = Stream!Interval(0, job'[xjob'].in.from)
               /\ job'[xjob'].out = NoBlock /\ ~Held(job'[xjob'].dict)
    <2>1. xjob = wseq /\ xjob \in 0 .. seq - 1
      BY <1>2 DEF Pipeline, WriterInTurn
    <2> QED BY <1>2, <2>1, WrittenStays, PlacesKept DEF Progress
  <1>3. ASSUME xpc # "combine"
        PROVE  /\ Determined(wseq)' => ulen' = Start(wseq)'
               /\ checkVal' = Stream!Interval(0, ulen')
    <2>1. ASSUME Determined(wseq)' PROVE ulen' = Start(wseq)'
      <3>1. PICK s \in Nat : s = wseq
        BY <1>1
      <3>2. Determined(s)' /\ Start(s)' = Start(wseq)' /\ Start(s) = Start(wseq)
        BY <2>1, <3>1 DEF Determined, Start
      <3>3. Determined(s) /\ Start(s)' = Start(s)
        BY <1>1, <3>1, <3>2, StartKept
      <3>4. Determined(wseq)
        BY <3>1, <3>3
      <3> QED BY <1>3, <3>2, <3>3, <3>4 DEF Progress
    <2> QED BY <1>3, <2>1 DEF Progress
  <1>4. ASSUME xpc = "exited" PROVE wseq' = seq' /\ (Through' \/ mpc' = "threw")
    <2>1. wseq = seq /\ (Through \/ mpc = "threw")
      BY <1>4 DEF Progress
    <2>2. ~Enqueue
      BY <2>1 DEF Enqueue, MainAt, Through
    <2> QED BY <2>1, <2>2, MakerMoves
  <1> QED BY <1>2, <1>3, <1>4 DEF Progress

\* The length and the sum follow the blocks that are written.
LEMMA ProgressStep ==
  ASSUME TypeOK, Geometry, Pipeline, Chain, Contents, Progress, [Next]_vars
  PROVE  Progress'
  <1> USE PipelineTypes
  <1>1. CASE WriterWrite
    <2>1. /\ xpc = "write" /\ xpc' = "combine" /\ ulen' = ulen + Size(job[xjob].in)
          /\ UNCHANGED <<mpc, seq, xjob, wseq, checkVal>>
      BY <1>1 DEF WriterWrite, WriterAt, mainVars
    <2>2. xjob = wseq /\ xjob \in 0 .. seq - 1 /\ xjob \in wseq .. seq - 1 /\ job[xjob].out # NoBlock
      BY <2>1 DEF Pipeline, WriterInTurn
    <2>3. ulen = job[xjob].in.from /\ checkVal = Stream!Interval(0, ulen)
      BY <2>1, <2>2 DEF Progress, Determined, Start
    <2>4. job'[xjob].in = job[xjob].in /\ job'[xjob].dict = job[xjob].dict /\ job'[xjob].out = NoBlock
      BY <1>1, <2>2, WriteFields
    <2>5. ~Held(job[xjob].dict)
      BY <2>2 DEF Contents, OutMatches
    <2>6. ulen' = job[xjob].in.to
      BY <2>1, <2>2, <2>3, JobParts DEF Size
    <2>7. mpc \notin {"trailer", "returned"}
      BY <2>1 DEF Progress
    <2> QED BY <2>1, <2>3, <2>4, <2>5, <2>6, <2>7 DEF Progress
  <1>2. CASE WriterCombine
    <2>1. /\ xpc = "combine" /\ job[xjob].checked /\ wseq' = wseq + 1
          /\ xpc' = IF job[xjob].more THEN "idle" ELSE "exited"
          /\ checkVal' = Combine(checkVal, job[xjob].check, Size(job[xjob].in))
          /\ UNCHANGED <<mpc, seq, ulen>>
      BY <1>2 DEF WriterCombine, mainVars
    <2>2. xjob = wseq /\ xjob \in 0 .. seq - 1 /\ xjob \in wseq .. seq - 1
      BY <2>1 DEF Pipeline, WriterInTurn
    <2>3. /\ ulen = job[xjob].in.to /\ checkVal = Stream!Interval(0, job[xjob].in.from)
          /\ job[xjob].check = Stream!Interval(job[xjob].in.from, job[xjob].in.to)
      BY <2>1, <2>2 DEF Progress, Contents, SumMatches
    <2>4. checkVal' = Stream!Interval(0, ulen')
      BY <2>1, <2>2, <2>3, JobParts DEF Combine, Stream!Interval, Size
    <2>5. ASSUME Determined(wseq)' PROVE ulen' = Start(wseq)'
      <3>1. PICK s \in Nat : s = wseq + 1
        OBVIOUS
      <3>2. Determined(s)' /\ Start(s)' = Start(wseq)' /\ s = wseq' /\ s <= seq
        BY <2>1, <2>2, <2>5, <3>1 DEF Determined, Start
      <3>3. Determined(s) /\ Start(s)' = Start(s)
        BY <3>2, StartKept
      <3>4. job[xjob].in.to = Start(s)
        BY <2>2, <3>1, <3>3 DEF Chain
      <3> QED BY <2>1, <2>3, <3>2, <3>3, <3>4
    <2>6. xpc' = "exited" => wseq' = seq /\ (Through \/ mpc = "threw")
      BY <2>1, <2>2 DEF Chain
    <2>7. mpc \notin {"trailer", "returned"}
      BY <2>1 DEF Progress
    <2>8. UNCHANGED <<Through, mpc>>
      BY <2>1 DEF Through
    <2> QED BY <2>1, <2>4, <2>5, <2>6, <2>7, <2>8 DEF Progress
  <1>3. CASE /\ WriterTake \/ WriterWait \/ WriterError
             /\ UNCHANGED <<mpc, seq, job, wseq, ulen, checkVal, sink>>
    <2>1. xpc \notin {"combine", "exited"} /\ xpc' \notin {"combine", "exited"}
      BY <1>3 DEF WriterTake, WriterWait, WriterError, WriterAt
    <2> QED BY <1>3, <2>1, ProgressQuiet
  <1>4. CASE /\ UNCHANGED <<wseq, ulen, checkVal, xjob>>
             /\ \/ xpc' = xpc /\ ~WriteHeader
                \/ xpc = "unborn" /\ xpc' = "idle" /\ WriteHeader
                \/ xpc = "asleep" /\ xpc' = "idle" /\ UNCHANGED <<mpc, sink>>
             /\ mpc' \in {"trailer", "returned"} =>
                  xpc = "exited" \/ mpc \in {"trailer", "returned"}
    BY <1>4, ProgressQuiet
  <1> QED BY <1>1, <1>2, <1>3, <1>4, WriterKinds

-------------------------------------------------------------------------------
(* The output. *)

\* What has been appended is what a sequence ends with.
LEMMA LastAppended ==
  ASSUME NEW S, NEW q \in Seq(S), NEW e \in S
  PROVE  /\ Append(q, e) # <<>>
         /\ Append(q, e)[Len(Append(q, e))] = e
  <1>1. Len(Append(q, e)) = Len(q) + 1 /\ Append(q, e)[Len(q) + 1] = e
    OBVIOUS
  <1> QED BY <1>1

\* The header is written when nothing has been.
LEMMA HeaderWritten ==
  ASSUME TypeOK, Geometry, Sunk, WriteHeader
  PROVE  Stream!Begin /\ ulen = 0 /\ ulen' = ulen /\ xpc' = "idle"
  <1>1. xpc = "unborn" /\ sink' = Append(sink, Stream!Header)
    BY DEF WriteHeader, MainAt, Geometry
  <1>2. sink = <<>> /\ ulen = 0
    BY <1>1 DEF Sunk
  <1>3. sink' = <<Stream!Header>>
    BY <1>1, <1>2
  <1> QED BY <1>2, <1>3 DEF Stream!Begin, WriteHeader, Launch, writerVars

\* A block is written where the last one ended, with what its job says of it.
LEMMA BlockWritten ==
  ASSUME TypeOK, Geometry, Pipeline, Chain, Contents, Progress, Sunk, WriterWrite
  PROVE  /\ Stream!AddBlock
         /\ Ends("block")' /\ sink'[Len(sink')].to = ulen'
         /\ sink'[Len(sink')].last = ~job'[xjob'].more
  <1> USE PipelineTypes
  <1>1. /\ xpc = "write" /\ xpc' = "combine" /\ ulen' = ulen + Size(job[xjob].in)
        /\ sink' = Append(sink, job[xjob].out) /\ xjob' = xjob
    BY DEF WriterWrite, WriterAt
  <1>2. xjob = wseq /\ xjob \in 0 .. seq - 1 /\ xjob \in wseq .. seq - 1 /\ job[xjob].out # NoBlock
    BY <1>1 DEF Pipeline, WriterInTurn
  <1>3. ulen = job[xjob].in.from
    BY <1>1, <1>2 DEF Progress, Determined, Start
  <1>4. PICK df \in 0 .. job[xjob].in.from :
          job[xjob].out = Stream!Deflated(job[xjob].in.from, job[xjob].in.to, df,
                                          job[xjob].in.from, ~job[xjob].more)
    BY <1>2 DEF Contents, OutMatches
  <1>5. /\ job[xjob].in.from < job[xjob].in.to \/ Total = 0
        /\ job[xjob].in.to <= Total /\ (job[xjob].more <=> job[xjob].in.to < Total)
    BY <1>2 DEF Chain
  <1>6. /\ job[xjob].in.from \in Nat /\ job[xjob].in.to \in Nat /\ job[xjob].more \in BOOLEAN
        /\ job[xjob].in.from <= job[xjob].in.to /\ Total \in Nat
    BY <1>2, JobParts, SizesAssumption DEF Geometry
  <1>7. job'[xjob].more = job[xjob].more
    BY <1>2, WriteFields
  <1>8. Stream!Unfinished /\ Stream!Restored = ulen
    BY <1>1 DEF Sunk
  <1>9. sink \in Seq(Written) /\ job[xjob].out \in Written
    BY <1>2, JobParts DEF TypeOK, WriterTypeOK, Written
  <1>10. sink' # <<>> /\ sink'[Len(sink')] = job[xjob].out
    <2> DEFINE item == job[xjob].out
    <2>1. Append(sink, item) # <<>> /\ Append(sink, item)[Len(Append(sink, item))] = item
      <3> HIDE DEF item
      <3> QED BY <1>9, LastAppended DEF item
    <2> QED BY <1>1, <2>1
  <1> DEFINE from == job[xjob].in.from
             to   == job[xjob].in.to
  <1>11. (to = Total) = ~job[xjob].more
    BY <1>5, <1>6
  <1>12. Stream!AddBlock
    <2>1. to \in Stream!Restored .. Total /\ (to = Stream!Restored => Total = 0)
      BY <1>3, <1>5, <1>6, <1>8
    <2>2. df \in 0 .. Stream!Restored
      BY <1>3, <1>8
    <2>3. sink' = Append(sink, Stream!Deflated(Stream!Restored, to, df, Stream!Restored, to = Total))
      BY <1>1, <1>3, <1>4, <1>8, <1>11
    <2> QED BY <1>8, <2>1, <2>2, <2>3 DEF Stream!AddBlock
  <1>13. ulen' = to
    BY SMTT(30), <1>1, <1>3, <1>6 DEF Size
  <1>14. Ends("block")' /\ sink'[Len(sink')].to = to /\ sink'[Len(sink')].last = ~job[xjob].more
    BY <1>4, <1>10 DEF Ends, Stream!Deflated
  <1> QED BY <1>1, <1>7, <1>12, <1>13, <1>14

\* The trailer is written after the last block, with the length and the sum of the input.
LEMMA TrailerWritten ==
  ASSUME TypeOK, Geometry, Pipeline, Progress, Sunk, WriteTrailer
  PROVE  Stream!End /\ xpc = "exited" /\ xpc' = "exited" /\ mpc' = "returned"
  <1>1. /\ mpc = "trailer" /\ mpc' = "returned" /\ xpc' = xpc
        /\ sink' = Append(sink, Stream!Trailer(ulen, checkVal))
    BY DEF WriteTrailer, MainAt, writerVars
  <1>2. xpc = "exited" /\ wseq = seq
    BY <1>1 DEF Progress
  <1>3. ulen = Total /\ checkVal = Stream!Interval(0, Total)
    BY <1>1, <1>2, PipelineTypes DEF Progress, Determined, Start, Lost, MakerPos
  <1>4. Ends("block") /\ sink[Len(sink)].last
    BY <1>1, <1>2 DEF Sunk
  <1> QED BY <1>1, <1>2, <1>3, <1>4 DEF Stream!End, Ends

\* What the sink ends with says how far the write thread is.
LEMMA SunkStep ==
  ASSUME TypeOK, Geometry, Pipeline, Chain, Contents, Progress, Sunk, [Next]_vars
  PROVE  Sunk'
  <1> USE PipelineTypes
  <1>1. CASE WriterWrite
    <2>1. xpc' = "combine"
      BY <1>1 DEF WriterWrite, WriterAt
    <2> QED BY <1>1, <2>1, BlockWritten DEF Sunk
  <1>2. CASE WriterCombine
    <2>1. /\ xpc = "combine" /\ UNCHANGED <<ulen, sink, mpc>>
          /\ xpc' = IF job[xjob].more THEN "idle" ELSE "exited"
      BY <1>2 DEF WriterCombine, mainVars
    <2>2. /\ sink # <<>> /\ sink[Len(sink)].kind = "block" /\ sink[Len(sink)].to = ulen
          /\ sink[Len(sink)].last = ~job[xjob].more
      BY <2>1 DEF Sunk, Ends
    <2>3. CASE job[xjob].more
      BY <2>1, <2>2, <2>3 DEF Sunk, Stream!Unfinished, Stream!Restored
    <2>4. CASE ~job[xjob].more
      BY <2>1, <2>2, <2>4 DEF Sunk, Ends
    <2> QED BY <2>3, <2>4
  <1>3. CASE /\ WriterTake \/ WriterWait \/ WriterError
             /\ UNCHANGED <<mpc, seq, job, wseq, ulen, checkVal, sink>>
    <2>1. xpc \in {"idle", "write"} /\ xpc' \in {"idle", "asleep", "write", "aborted"}
      BY <1>3 DEF WriterTake, WriterWait, WriterError, WriterAt
    <2> QED BY <1>3, <2>1 DEF Sunk, Stream!Unfinished, Stream!Restored
  <1>4. CASE WriteHeader
    <2>1. sink' = <<Stream!Header>> /\ ulen' = 0 /\ xpc' = "idle"
      BY <1>4, HeaderWritten DEF Stream!Begin
    <2>2. Len(sink') = 1 /\ sink'[1].kind = "header" /\ sink' # <<>>
      BY <2>1 DEF Stream!Header
    <2> QED BY <2>1, <2>2 DEF Sunk, Stream!Unfinished, Stream!Restored
  <1>5. CASE WriteTrailer
    BY <1>5, TrailerWritten DEF Sunk
  <1>6. CASE /\ UNCHANGED <<ulen, xjob, sink>>
             /\ xpc' = xpc \/ (xpc = "asleep" /\ xpc' = "idle")
             /\ mpc = "returned" => mpc' = "returned"
    <2>1. xpc = "combine" => job'[xjob].more = job[xjob].more
      BY PlacesKept
    <2> QED BY <1>6, <2>1 DEF Sunk, Ends, Stream!Unfinished, Stream!Restored
  <1> QED BY <1>1, <1>2, <1>3, <1>4, <1>5, <1>6, WriterKinds

\* Every step writes what CompressStream allows, or nothing.
LEMMA StreamStep ==
  ASSUME TypeOK, Geometry, Pipeline, Chain, Contents, Progress, Sunk, [Next]_vars
  PROVE  [Stream!Next]_sink
  <1>1. CASE WriterWrite
    BY <1>1, BlockWritten DEF Stream!Next
  <1>2. CASE WriteHeader
    BY <1>2, HeaderWritten DEF Stream!Next
  <1>3. CASE WriteTrailer
    BY <1>3, TrailerWritten DEF Stream!Next
  <1>4. CASE WriterCombine
    BY <1>4 DEF WriterCombine
  <1> QED BY <1>1, <1>2, <1>3, <1>4, WriterKinds

-------------------------------------------------------------------------------
(* Notifications. *)

\* Nobody goes to sleep while there is something for him, and who has
\* something for him is woken.
LEMMA AwakeStep ==
  ASSUME TypeOK, Geometry, Pipeline, Awake, [Next]_vars
  PROVE  Awake'
  <1> USE PipelineTypes DEF TypeOK, WorkerTypeOK
  <1>1. queue' # <<>> /\ (\E w \in Workers : wpc'[w] = "asleep") =>
          \E w \in Workers : wpc'[w] \in {"idle", "compress", "publish", "check"}
    <2> DEFINE Busy(v) == wpc[v] \in {"idle", "compress", "publish", "check"}
    <2> SUFFICES ASSUME queue' # <<>>, NEW w \in Workers, wpc'[w] = "asleep"
                 PROVE  \E v \in Workers : Busy(v)'
      OBVIOUS
    <2>1. CASE Enqueue
      <3>1. Wake(wpc)
        BY <2>1 DEF Enqueue
      <3> QED BY <3>1 DEF Wake
    <2>2. CASE WriteHeader \/ CloseQueue
      BY <2>2 DEF WriteHeader, Launch, CloseQueue
    <2>3. ASSUME NEW v \in Workers, Worker(v) PROVE \E u \in Workers : Busy(u)'
      <3>1. CASE WorkerTake(v)
        BY <3>1 DEF WorkerTake, WorkerAt
      <3>2. CASE WorkerWait(v) \/ WorkerExit(v)
        BY <3>2 DEF WorkerWait, WorkerExit
      <3>3. CASE WorkerCompress(v) \/ WorkerPublish(v) \/ WorkerCheck(v)
        BY <3>3 DEF WorkerCompress, WorkerPublish, WorkerCheck, WorkerAt
      <3>4. CASE WorkerInit(v)
        <4>1. /\ queue' = queue /\ wpc[v] = "init"
              /\ \A u \in Workers : u # v => wpc'[u] = wpc[u]
              /\ wpc'[v] \in {"idle", "exited"}
          BY <3>4 DEF WorkerInit, WorkerAt
        <4> QED BY <4>1 DEF Awake
      <3> QED BY <2>3, <3>1, <3>2, <3>3, <3>4 DEF Worker
    <2>4. CASE UNCHANGED <<queue, wpc>>
      BY <2>4 DEF Awake
    <2> QED BY <2>1, <2>2, <2>3, <2>4 DEF Next, Main, ReadFirst, Advance, Divide, Split,
            JoinThreads, WriteTrailer, ReadError, WriteError, Writer, WriterTake, WriterWait,
            WriterWrite, WriterError, WriterCombine, Terminated, vars, workerVars
  <1>2. xpc' = "asleep" => ring'[wseq' % Slots] = NoJob
    <2> SUFFICES ASSUME xpc' = "asleep" PROVE ring'[wseq' % Slots] = NoJob
      OBVIOUS
    <2>1. CASE Writer
      BY <2>1 DEF Writer, WriterTake, WriterWait, WriterWrite, WriterError, WriterCombine, WriterAt
    <2>2. ASSUME NEW w \in Workers, Worker(w) PROVE ring' = ring /\ wseq' = wseq /\ xpc' = xpc
      BY <2>2 DEF Worker, WorkerInit, WorkerTake, WorkerWait, WorkerExit, WorkerCompress,
                  WorkerPublish, WorkerCheck, writerVars
    <2>3. CASE Main
      BY <2>3 DEF Awake, Main, WriteHeader, Launch, ReadFirst, Advance, Divide, Split, Enqueue,
         CloseQueue, JoinThreads, WriteTrailer, ReadError, WriteError, writerVars
    <2>4. CASE UNCHANGED vars
      BY <2>4 DEF Awake, vars, writerVars
    <2> QED BY <2>1, <2>2, <2>3, <2>4 DEF Next, Terminated, Awake
  <1> QED BY <1>1, <1>2 DEF Awake

-------------------------------------------------------------------------------
(* The theorems. *)

\* At the start there is nothing to be said of any job.
LEMMA StreamInit == Init => StreamInv
  <1> SUFFICES ASSUME Init PROVE StreamInv
    OBVIOUS
  <1>1. /\ seq = 0 /\ wseq = 0 /\ mpc = "header" /\ xpc = "unborn" /\ queue = <<>>
        /\ ulen = 0 /\ checkVal = Stream!Interval(0, 0) /\ sink = <<>>
    BY DEF Init
  <1>2. Reading
    BY <1>1 DEF Reading
  <1>3. Chain /\ Gone /\ Contents /\ Primed
    BY <1>1 DEF Chain, Gone, Contents, Primed
  <1>4. Progress
    BY <1>1 DEF Progress, Determined, Start, MakerPos
  <1>5. Sunk /\ Awake
    BY <1>1 DEF Sunk, Awake
  <1> QED BY <1>2, <1>3, <1>4, <1>5 DEF StreamInv

\* The inductive invariant of the stream, on top of the one of the pipeline.
LEMMA StreamInductive == Spec => [](IndInv /\ StreamInv)
  <1>1. IndInv /\ StreamInv /\ [Next]_vars => StreamInv'
    BY ReadingStep, ChainStep, GoneStep, ContentsStep, PrimedStep, ProgressStep, SunkStep,
       AwakeStep DEF IndInv, StreamInv
  <1> QED BY StreamInit, <1>1, Inductive, PTL DEF Spec

\* The output is a header, the blocks of the input in order, each primed with
\* what precedes it, the last one said to be so, and a trailer with the length
\* and the sum of it all, or as much of that as a failure lets it be.
THEOREM StreamWritten == Spec => WritesStream
  <1>1. Init => Stream!Init
    BY DEF Init, Stream!Init
  <1>2. IndInv /\ StreamInv /\ [Next]_vars => [Stream!Next]_sink
    BY StreamStep DEF IndInv, StreamInv
  <1> QED BY <1>1, <1>2, StreamInductive, PTL DEF Spec, WritesStream, Stream!Spec

\* History that reaches back a window, or to the start, is all there is to have.
LEMMA WindowFull ==
  ASSUME NEW from \in Nat, NEW to \in Nat, NEW window \in Nat, from <= to,
         from = 0 \/ window <= to - from
  PROVE  Smaller(to - from, window) = Smaller(window, to)
  BY DEF Smaller

\* Every job but the first goes to its thread with all the history the window
\* can hold, right before its input (compress.cpp:1104-1115).
THEOREM HistoryFull == Spec => []FullHistory
  <1>1. IndInv /\ StreamInv => FullHistory
    <2> SUFFICES ASSUME IndInv, StreamInv, SetDict, NEW s \in 1 .. seq - 1,
                        \/ \E i \in 1 .. Len(queue) : queue[i] = s
                        \/ \E w \in Workers : wpc[w] = "compress" /\ wjob[w] = s
                 PROVE  LET d == job[s].dict
                            b == job[s].in
                        IN Held(d) /\ d.to = b.from
                           /\ Smaller(Size(d), DictSize) = Smaller(DictSize, b.from)
      BY DEF FullHistory
    <2> USE PipelineTypes DEF IndInv, StreamInv, Pipeline
    <2>1. Uncompressed(s) /\ wseq <= s
      <3>1. ASSUME NEW i \in 1 .. Len(queue), queue[i] = s PROVE Taken <= s
        BY <3>1 DEF QueueInOrder
      <3>2. ASSUME NEW w \in Workers, wpc[w] = "compress", wjob[w] = s PROVE wseq <= s
        BY <3>2 DEF WorkersApart
      <3> QED BY <3>1, <3>2 DEF Uncompressed, WriterInTurn
    <2>2. s \in 0 .. seq - 1 /\ s \in wseq .. seq - 1
      BY <2>1
    <2>3. Held(job[s].dict) /\ DictEnds(job[s])
      BY <2>1, <2>2 DEF Primed, Contents
    <2>4. /\ job[s].dict.to = job[s].in.from /\ job[s].dict.from <= job[s].dict.to
          /\ job[s].dict.from = 0 \/ DictSize <= job[s].dict.to - job[s].dict.from
      BY <2>3 DEF DictEnds
    <2>5. /\ job[s].dict.from \in Nat /\ job[s].dict.to \in Nat /\ job[s].in.from \in Nat
          /\ DictSize \in Nat
      BY <2>2, JobParts, SizesAssumption
    <2>6. Smaller(job[s].dict.to - job[s].dict.from, DictSize) = Smaller(DictSize, job[s].in.from)
      <3>1. Smaller(job[s].dict.to - job[s].dict.from, DictSize) = Smaller(DictSize, job[s].dict.to)
        BY ONLY <2>4, <2>5, WindowFull
      <3> QED BY ONLY <2>4, <3>1
    <2> QED BY <2>3, <2>4, <2>6 DEF Size
  <1> QED BY <1>1, StreamInductive, PTL

\* A job in the queue has a thread coming for it and the job whose turn it is
\* has the write thread coming (compress.cpp:775, 941, 978 and 1123).
THEOREM NobodySleepsOn == Spec => []NoLostWakeup
  <1>1. IndInv /\ StreamInv => NoLostWakeup
    BY DEF StreamInv, Awake, NoLostWakeup
  <1> QED BY <1>1, StreamInductive, PTL

\* The trailer is written when the write thread has taken every job and
\* nothing is held by any of them.
THEOREM EverythingReleased == Spec => []AllReleased
  <1>1. IndInv /\ StreamInv => AllReleased
    <2> SUFFICES ASSUME IndInv, StreamInv, mpc = "trailer" PROVE AllReleased
      BY DEF AllReleased
    <2> USE PipelineTypes DEF IndInv, StreamInv, Pipeline
    <2>1. wseq = seq
      BY DEF Progress
    <2>2. Len(queue) = 0
      BY <2>1 DEF QueueInOrder, WriterInTurn, Taken
    <2>3. queue = <<>>
      BY <2>2
    <2>4. \A i \in 0 .. Slots - 1 : ring[i] = NoJob
      BY <2>1, <2>2 DEF RingInOrder, Taken
    <2>5. \A s \in 0 .. seq - 1 :
            ~Held(job[s].in) /\ ~Held(job[s].dict) /\ job[s].out = NoBlock
      BY <2>1 DEF Gone
    <2> QED BY <2>1, <2>3, <2>4, <2>5 DEF AllReleased
  <1> QED BY <1>1, StreamInductive, PTL
===============================================================================
