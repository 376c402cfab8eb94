--------------------------- MODULE ParallelCompress ---------------------------
(***************************************************************************)
(* Compressor::parallel_compress (src/src/pigzpp/compress.cpp): the main   *)
(* thread reads the input into pooled buffers and queues one job per       *)
(* block, cfg_.procs compress threads take jobs from the queue and put the *)
(* results into a ring of slots indexed by sequence number, and one write  *)
(* thread takes them from the ring in order, writes them and combines      *)
(* their check values.                                                     *)
(*                                                                         *)
(* Data is abstracted to positions in the input: a buffer holds an         *)
(* interval of it, a compressed block names the intervals it was made      *)
(* from, and a check value is the interval it covers.  Each critical       *)
(* section is one action, and so is each run of statements that touches    *)
(* no state another thread reads.                                          *)
(***************************************************************************)
EXTENDS Integers, Sequences, FiniteSets

CONSTANTS
  Workers,    \* the compress threads, cfg_.procs of them
  Total,      \* length of the input
  Block,      \* cfg_.block, the size of an input buffer
  DictSize,   \* DICT_SIZE, the reach of the DEFLATE window
  SetDict,    \* cfg_.setdict: prime each block with the one before it
  Rsync,      \* cfg_.rsync: let the rolling hash choose the block boundaries
  Faults      \* which of "read", "write" and "init" may fail

\* With a single thread compress() takes another way.
ASSUME WorkersAssumption == IsFiniteSet(Workers) /\ Cardinality(Workers) > 1
ASSUME SizesAssumption ==
  Total \in Nat /\ Block \in Nat /\ DictSize \in Nat \ {0}
\* The command line and the documentation of Config::block demand it.
ASSUME BlockAssumption == DictSize <= Block
ASSUME SwitchesAssumption ==
  SetDict \in BOOLEAN /\ Rsync \in BOOLEAN /\ Faults \subseteq {"read", "write", "init"}

Procs  == Cardinality(Workers)
InBufs == 2 * Procs + 3           \* limit of the pool of input buffers
RingPerThread == Procs            \* mutant of Slots: one slot for each thread
Slots  == 4 * Procs               \* capacity of the write ring

Smaller(a, b) == IF a <= b THEN a ELSE b
Larger(a, b)  == IF a <= b THEN b ELSE a

VARIABLES
  mpc,      \* main thread: where it is
  rd,       \* main thread: how much input it has read
  gets,     \* main thread: how many input buffers it has obtained so far
  curr,     \* main thread: buffer of the job being made
  next,     \* main thread: buffer after curr
  hold,     \* main thread: buffer after next, while a block is being split
  dict,     \* main thread: dictionary for the next job
  scan,     \* main thread: input position the rolling hash has reached
  left,     \* main thread: rsync_left, bytes of curr after the last hash hit
  seq,      \* number of jobs made so far
  job,      \* the jobs, by sequence number
  queue,    \* compress_queue
  done,     \* compress_done
  ring,     \* write_ring
  wpc,      \* compress threads: where each one is
  wjob,     \* compress threads: the job each one has taken
  xpc,      \* write thread: where it is
  xjob,     \* write thread: the job it has taken
  wseq,     \* write thread: write_seq, the job it wants next
  ulen,     \* write thread: uncompressed length so far
  checkVal, \* write thread: check value of what it has combined
  sink      \* what has been written to the output

mainVars   == <<mpc, rd, gets, curr, next, hold, dict, scan, left>>
workerVars == <<wpc, wjob>>
writerVars == <<xpc, xjob, wseq, ulen, checkVal>>
vars == <<mainVars, seq, job, queue, done, ring, workerVars, writerVars, sink>>

NoJob == -1

-------------------------------------------------------------------------------
(* Buffers, jobs and check values. *)

\* A null BufferPtr.
NoBuf == [pool |-> "none", id |-> 0, from |-> 0, to |-> 0]

Held(b) == b.pool # "none"
Size(b) == b.to - b.from

\* The promise of CompressStream, which also says what is in the sink.
Stream == INSTANCE CompressStream

NoBlock == [kind |-> "none"]

Job(in, d, more) ==
  [in |-> in, dict |-> d, more |-> more, out |-> NoBlock,
   check |-> Stream!Interval(0, 0), checked |-> FALSE]

\* The check value of one interval followed by another of the given length.
\* Combined in any other order or with another length it is of no use.
BadCheck == Stream!Interval(1, 0)

\* Mutant of Combine: the operator for a full block, whatever the length.
CombineFullBlocks(c1, c2, len2) ==
  IF c1.to = c2.from /\ c2.to - c2.from = Block
  THEN Stream!Interval(c1.from, c2.to) ELSE BadCheck

Combine(c1, c2, len2) ==
  IF c1.to = c2.from /\ c2.to - c2.from = len2
  THEN Stream!Interval(c1.from, c2.to) ELSE BadCheck

\* An input buffer goes back to its pool when its last shared_ptr does, so
\* the pool can hand one out as long as fewer than its limit are referenced.
Refs == {curr, next, hold, dict}
          \cup {job[s].in : s \in 0 .. seq - 1} \cup {job[s].dict : s \in 0 .. seq - 1}
InUse == {b.id : b \in {r \in Refs : r.pool = "in"}}
Available == Cardinality(InUse) < InBufs

-------------------------------------------------------------------------------
(* Initial state: the call has been made, no thread has been launched. *)

Init ==
  /\ mpc = "header" /\ rd = 0 /\ gets = 0
  /\ curr = NoBuf /\ next = NoBuf /\ hold = NoBuf /\ dict = NoBuf
  /\ scan = 0 /\ left = 0
  /\ seq = 0 /\ job = [s \in {} |-> Job(NoBuf, NoBuf, FALSE)]
  /\ queue = <<>> /\ done = FALSE
  /\ ring = [i \in 0 .. Slots - 1 |-> NoJob]
  /\ wpc = [w \in Workers |-> "unborn"] /\ wjob = [w \in Workers |-> NoJob]
  /\ xpc = "unborn" /\ xjob = NoJob /\ wseq = 0
  /\ ulen = 0 /\ checkVal = Stream!Interval(0, 0)
  /\ sink = <<>>

-------------------------------------------------------------------------------
(* Main thread: reader of the input and maker of jobs. *)

MainAt(from, to) == mpc = from /\ mpc' = to

Launch == wpc' = [w \in Workers |-> "init"] /\ xpc' = "idle"

\* The header is written before the threads are launched.
WriteHeader ==
  /\ MainAt("header", "first")
  /\ sink' = Append(sink, Stream!Header)
  /\ Launch
  /\ UNCHANGED <<rd, gets, curr, next, hold, dict, scan, left, seq, job, queue, done,
                 ring, wjob, xjob, wseq, ulen, checkVal>>

\* in_pool.get() and read_fd() into the new buffer, which stops short of a
\* full block only at the end of the input.
ReadNext ==
  /\ Available
  /\ gets' = gets + 1
  /\ rd' = Smaller(rd + Block, Total)
  /\ next' = [pool |-> "in", id |-> gets + 1, from |-> rd, to |-> Smaller(rd + Block, Total)]

ReadFirst ==
  /\ MainAt("first", "advance")
  /\ ReadNext
  /\ UNCHANGED <<curr, hold, dict, scan, left, seq, job, queue, done, ring,
                 workerVars, writerVars, sink>>

\* The buffer after the current one becomes the current one. The one after
\* that is read, unless a split has left one in hold.
Advance ==
  /\ MainAt("advance", IF Rsync /\ Size(next) > 0 THEN "divide" ELSE "enqueue")
  /\ curr' = next
  /\ hold' = NoBuf
  /\ \/ Held(hold) /\ next' = hold /\ UNCHANGED <<rd, gets>>
     \/ ~Held(hold) /\ ReadNext
  /\ UNCHANGED <<dict, scan, left, seq, job, queue, done, ring,
                 workerVars, writerVars, sink>>

\* Block boundary by rolling hash. The hash looks at each byte of the input
\* once, so where it hits is any choice: lastA is the last hit in the rest of
\* curr, lastB the last one in that part of next for which curr has room (each
\* the start of its buffer if there is none). curr takes over next up to the
\* last hit, or all there is room for if there is no hit in either, and if
\* the last hit is in curr, what follows it is split off into another buffer.
Divide ==
  /\ mpc = "divide"
  /\ LET fresh == left = 0
         scanA == IF fresh THEN curr.to ELSE scan
         end   == next.from + Smaller(Block - Size(curr), Size(next))
         scanB == Larger(scanA, end)
     IN \E lastA \in {curr.from} \cup (IF fresh THEN scan + 1 .. curr.to ELSE {}),
           lastB \in {next.from} \cup (Larger(scanA, next.from) + 1 .. end) :
          LET hit    == lastA # curr.from \/ lastB # next.from
              leftA  == IF fresh THEN curr.to - lastA ELSE left
              cut    == IF hit THEN lastB ELSE scanB
              splits == hit /\ leftA > 0 /\ Size(next) > 0
          IN /\ scan' = scanB
             /\ \/ /\ cut > next.from
                   /\ curr' = [curr EXCEPT !.to = cut]
                   /\ next' = [next EXCEPT !.from = cut]
                   /\ left' = 0
                   /\ hold' = hold
                   /\ mpc' = "enqueue"
                \/ /\ cut <= next.from /\ splits
                   /\ hold' = next
                   /\ left' = leftA
                   /\ UNCHANGED <<curr, next>>
                   /\ mpc' = "split"
                \/ /\ cut <= next.from /\ ~splits
                   /\ left' = 0
                   /\ UNCHANGED <<curr, next, hold>>
                   /\ mpc' = "enqueue"
  /\ UNCHANGED <<rd, gets, dict, seq, job, queue, done, ring, workerVars, writerVars, sink>>

\* The part of curr after the last hit moves to a buffer of its own.
Split ==
  /\ MainAt("split", "enqueue")
  /\ Available
  /\ gets' = gets + 1
  /\ next' = [pool |-> "in", id |-> gets + 1, from |-> curr.to - left, to |-> curr.to]
  /\ curr' = [curr EXCEPT !.to = @ - left]
  /\ UNCHANGED <<rd, hold, dict, scan, left, seq, job, queue, done, ring,
                 workerVars, writerVars, sink>>

\* Mutants of DictAfter: no test for the first job, the last block alone,
\* a window of history whatever the last block adds to it.
DictWithoutFirst(d, b) ==
  IF Size(b) >= DictSize THEN b
  ELSE [pool |-> "dict", id |-> 0, from |-> d.to - (DictSize - Size(b)), to |-> b.to]
DictLastBlock(d, b) == b
DictWholeWindow(d, b) ==
  IF Size(b) >= DictSize \/ ~Held(d) THEN b
  ELSE [pool |-> "dict", id |-> 0, from |-> d.to - DictSize, to |-> b.to]

\* The dictionary for the job after the one made from b: b itself, or if b is
\* shorter than the window, a copy of as much history as the window holds.
DictAfter(d, b) ==
  IF Size(b) >= DictSize \/ ~Held(d) THEN b
  ELSE [pool |-> "dict", id |-> 0, from |-> d.to - (DictSize - Size(b)), to |-> b.to]

\* Mutant of Wake: the notification is forgotten.
WakeNobody(pcs) == wpc' = pcs

\* notify_one: one of the threads that wait on the condition, if any does.
Wake(pcs) ==
  \/ \E w \in Workers : pcs[w] = "asleep" /\ wpc' = [pcs EXCEPT ![w] = "idle"]
  \/ (\A w \in Workers : pcs[w] # "asleep") /\ wpc' = pcs

Enqueue ==
  LET more == Size(next) # 0
  IN /\ MainAt("enqueue", IF more THEN "advance" ELSE "close")
     /\ job' = [s \in 0 .. seq |-> IF s = seq THEN Job(curr, dict, more) ELSE job[s]]
     /\ dict' = IF more /\ SetDict THEN DictAfter(dict, curr) ELSE dict
     /\ seq' = seq + 1
     /\ queue' = Append(queue, seq)
     /\ Wake(wpc)
     /\ curr' = NoBuf
     /\ UNCHANGED <<rd, gets, next, hold, scan, left, done, ring, wjob, writerVars, sink>>

\* Mutant of CloseQueue: compress_done without a notification.
CloseQuietly ==
  /\ MainAt("close", "join")
  /\ done' = TRUE
  /\ UNCHANGED <<rd, gets, curr, next, hold, dict, scan, left, seq, job, queue, ring,
                 workerVars, writerVars, sink>>

\* compress_done and notify_all.
CloseQueue ==
  /\ MainAt("close", "join")
  /\ done' = TRUE
  /\ wpc' = [w \in Workers |-> IF wpc[w] = "asleep" THEN "idle" ELSE wpc[w]]
  /\ UNCHANGED <<rd, gets, curr, next, hold, dict, scan, left, seq, job, queue, ring,
                 wjob, writerVars, sink>>

\* Mutant of JoinThreads: the write thread is not waited for.
JoinCompressThreads ==
  /\ mpc \in {"join", "unwind"}
  /\ \A w \in Workers : wpc[w] = "exited"
  /\ mpc' = IF mpc = "join" THEN "trailer" ELSE "threw"
  /\ UNCHANGED <<rd, gets, curr, next, hold, dict, scan, left, seq, job, queue, done, ring,
                 workerVars, writerVars, sink>>

\* The threads are joined, by the statements at the end or by their destructors.
JoinThreads ==
  /\ mpc \in {"join", "unwind"}
  /\ \A w \in Workers : wpc[w] = "exited"
  /\ xpc = "exited"
  /\ mpc' = IF mpc = "join" THEN "trailer" ELSE "threw"
  /\ UNCHANGED <<rd, gets, curr, next, hold, dict, scan, left, seq, job, queue, done, ring,
                 workerVars, writerVars, sink>>

\* The locals are destroyed on return.
WriteTrailer ==
  /\ MainAt("trailer", "returned")
  /\ sink' = Append(sink, Stream!Trailer(ulen, checkVal))
  /\ next' = NoBuf /\ dict' = NoBuf
  /\ UNCHANGED <<rd, gets, curr, hold, scan, left, seq, job, queue, done, ring,
                 workerVars, writerVars>>

\* read_fd throws: the buffers are released and the destructors of the
\* threads join them, although compress_done is not set on this path.
ReadError ==
  /\ "read" \in Faults
  /\ mpc \in {"first", "advance"} /\ ~Held(hold) /\ Available
  /\ mpc' = "unwind"
  /\ curr' = NoBuf /\ next' = NoBuf /\ dict' = NoBuf
  /\ UNCHANGED <<rd, gets, hold, scan, left, seq, job, queue, done, ring,
                 workerVars, writerVars, sink>>

\* Writing the header or the trailer throws with no thread running.
WriteError ==
  /\ "write" \in Faults
  /\ mpc \in {"header", "trailer"}
  /\ mpc' = "threw"
  /\ next' = NoBuf /\ dict' = NoBuf
  /\ UNCHANGED <<rd, gets, curr, hold, scan, left, seq, job, queue, done, ring,
                 workerVars, writerVars, sink>>

Main ==
  \/ WriteHeader \/ ReadFirst \/ Advance \/ Divide \/ Split \/ Enqueue
  \/ CloseQueue \/ JoinThreads \/ WriteTrailer \/ ReadError \/ WriteError

-------------------------------------------------------------------------------
(* Compress threads. *)

WorkerAt(w, from, to) == wpc[w] = from /\ wpc' = [wpc EXCEPT ![w] = to]

\* deflateInit2; where it fails the thread returns without a word.
WorkerInit(w) ==
  /\ \/ WorkerAt(w, "init", "idle")
     \/ "init" \in Faults /\ WorkerAt(w, "init", "exited")
  /\ UNCHANGED <<mainVars, seq, job, queue, done, ring, wjob, writerVars, sink>>

WorkerTake(w) ==
  /\ queue # <<>>
  /\ WorkerAt(w, "idle", "compress")
  /\ wjob' = [wjob EXCEPT ![w] = Head(queue)]
  /\ queue' = Tail(queue)
  /\ UNCHANGED <<mainVars, seq, job, done, ring, writerVars, sink>>

WorkerWait(w) ==
  /\ queue = <<>> /\ ~done
  /\ WorkerAt(w, "idle", "asleep")
  /\ UNCHANGED <<mainVars, seq, job, queue, done, ring, wjob, writerVars, sink>>

WorkerExit(w) ==
  /\ queue = <<>> /\ done
  /\ WorkerAt(w, "idle", "exited")
  /\ UNCHANGED <<mainVars, seq, job, queue, done, ring, wjob, writerVars, sink>>

\* The job's input compressed with the end of its dictionary before it.
Compressed(j) ==
  Stream!Deflated(j.in.from, j.in.to,
                  IF Held(j.dict) THEN Larger(j.dict.from, j.dict.to - DictSize) ELSE j.in.from,
                  IF Held(j.dict) THEN j.dict.to ELSE j.in.from,
                  ~j.more)

WorkerCompress(w) ==
  /\ WorkerAt(w, "compress", "publish")
  /\ job' = [job EXCEPT ![wjob[w]].out = Compressed(job[wjob[w]]),
                        ![wjob[w]].dict = NoBuf]
  /\ UNCHANGED <<mainVars, seq, queue, done, ring, wjob, writerVars, sink>>

\* The job goes into its slot, whatever is there, and the writer is notified.
WorkerPublish(w) ==
  /\ WorkerAt(w, "publish", "check")
  /\ ring' = [ring EXCEPT ![wjob[w] % Slots] = wjob[w]]
  /\ xpc' = IF xpc = "asleep" THEN "idle" ELSE xpc
  /\ UNCHANGED <<mainVars, seq, job, queue, done, wjob, xjob, wseq, ulen, checkVal, sink>>

\* The check value of the job's input, which the write thread may be waiting for.
WorkerCheck(w) ==
  /\ WorkerAt(w, "check", "idle")
  /\ LET in == job[wjob[w]].in
     IN job' = [job EXCEPT ![wjob[w]].check = Stream!Interval(in.from, in.to),
                           ![wjob[w]].checked = TRUE]
  /\ wjob' = [wjob EXCEPT ![w] = NoJob]
  /\ UNCHANGED <<mainVars, seq, queue, done, ring, writerVars, sink>>

Worker(w) ==
  \/ WorkerInit(w) \/ WorkerTake(w) \/ WorkerWait(w) \/ WorkerExit(w)
  \/ WorkerCompress(w) \/ WorkerPublish(w) \/ WorkerCheck(w)

-------------------------------------------------------------------------------
(* Write thread. *)

WriterAt(from, to) == xpc = from /\ xpc' = to

WriterTake ==
  /\ WriterAt("idle", "write")
  /\ ring[wseq % Slots] # NoJob
  /\ xjob' = ring[wseq % Slots]
  /\ ring' = [ring EXCEPT ![wseq % Slots] = NoJob]
  /\ UNCHANGED <<mainVars, seq, job, queue, done, workerVars, wseq, ulen, checkVal, sink>>

WriterWait ==
  /\ WriterAt("idle", "asleep")
  /\ ring[wseq % Slots] = NoJob
  /\ UNCHANGED <<mainVars, seq, job, queue, done, ring, workerVars,
                 xjob, wseq, ulen, checkVal, sink>>

WriterWrite ==
  /\ WriterAt("write", "combine")
  /\ ulen' = ulen + Size(job[xjob].in)
  /\ sink' = Append(sink, job[xjob].out)
  /\ job' = [job EXCEPT ![xjob].out = NoBlock]
  /\ UNCHANGED <<mainVars, seq, queue, done, ring, workerVars, xjob, wseq, checkVal>>

\* The exception leaves the thread function: std::terminate.
WriterError ==
  /\ "write" \in Faults
  /\ WriterAt("write", "aborted")
  /\ UNCHANGED <<mainVars, seq, job, queue, done, ring, workerVars,
                 xjob, wseq, ulen, checkVal, sink>>

\* Mutant of WriterCombine: the check value is taken as it is.
WriterCombineAtOnce ==
  /\ xpc = "combine"
  /\ xpc' = IF job[xjob].more THEN "idle" ELSE "exited"
  /\ checkVal' = Combine(checkVal, job[xjob].check, Size(job[xjob].in))
  /\ job' = [job EXCEPT ![xjob].in = NoBuf]
  /\ wseq' = wseq + 1
  /\ xjob' = NoJob
  /\ UNCHANGED <<mainVars, seq, queue, done, ring, workerVars, ulen, sink>>

\* Once the check value is there, in_len being read before the write.
WriterCombine ==
  /\ xpc = "combine" /\ job[xjob].checked
  /\ xpc' = IF job[xjob].more THEN "idle" ELSE "exited"
  /\ checkVal' = Combine(checkVal, job[xjob].check, Size(job[xjob].in))
  /\ job' = [job EXCEPT ![xjob].in = NoBuf]
  /\ wseq' = wseq + 1
  /\ xjob' = NoJob
  /\ UNCHANGED <<mainVars, seq, queue, done, ring, workerVars, ulen, sink>>

Writer == WriterTake \/ WriterWait \/ WriterWrite \/ WriterError \/ WriterCombine

-------------------------------------------------------------------------------

Ended == mpc \in {"returned", "threw"} \/ xpc = "aborted"

Terminated == Ended /\ UNCHANGED vars

Next ==
  \/ /\ xpc # "aborted"
     /\ \/ Main
        \/ \E w \in Workers : Worker(w)
        \/ Writer
  \/ Terminated

Spec == Init /\ [][Next]_vars

\* Every thread is scheduled: none is kept from a step it can take for ever.
Running(A) == xpc # "aborted" /\ A
Fairness == /\ WF_vars(Running(Main))
            /\ \A w \in Workers : WF_vars(Running(Worker(w)))
            /\ WF_vars(Running(Writer))

FairSpec == Spec /\ Fairness

-------------------------------------------------------------------------------
(* Types. *)

Buffers == [pool : {"in", "dict", "none"}, id : Nat, from : Nat, to : Nat]

Checks == [from : Nat, to : Nat]

Blocks == [kind : {"block"}, from : Nat, to : Nat, dictFrom : Nat, dictTo : Nat,
           last : BOOLEAN]

Jobs == [in : Buffers, dict : Buffers, more : BOOLEAN, out : Blocks \cup {NoBlock},
         check : Checks, checked : BOOLEAN]

Written == {Stream!Header, NoBlock} \cup Blocks
             \cup [kind : {"trailer"}, len : Nat, check : Checks]

MainTypeOK ==
  /\ mpc \in {"header", "first", "advance", "divide", "split", "enqueue", "close",
              "join", "trailer", "returned", "unwind", "threw"}
  /\ rd \in 0 .. Total /\ gets \in Nat /\ scan \in Nat /\ left \in Nat
  /\ curr \in Buffers /\ next \in Buffers /\ hold \in Buffers /\ dict \in Buffers

JobTypeOK ==
  /\ seq \in Nat /\ job \in [0 .. seq - 1 -> Jobs]
  /\ queue \in Seq(0 .. seq - 1) /\ done \in BOOLEAN
  /\ ring \in [0 .. Slots - 1 -> 0 .. seq - 1 \cup {NoJob}]

WorkerTypeOK ==
  /\ wpc \in [Workers -> {"unborn", "init", "idle", "asleep", "compress", "publish",
                          "check", "exited"}]
  /\ wjob \in [Workers -> 0 .. seq - 1 \cup {NoJob}]
  /\ \A w \in Workers : wjob[w] # NoJob <=> wpc[w] \in {"compress", "publish", "check"}

WriterTypeOK ==
  /\ xpc \in {"unborn", "idle", "asleep", "write", "combine", "exited", "aborted"}
  /\ xjob \in 0 .. seq - 1 \cup {NoJob}
  /\ xjob # NoJob <=> xpc \in {"write", "combine", "aborted"}
  /\ wseq \in Nat /\ ulen \in Nat /\ checkVal \in Checks
  /\ sink \in Seq(Written)

\* Every variable has the type the declarations in parallel_compress give it,
\* buffers and check values being intervals of natural numbers, and a thread
\* holds a job exactly where its code does.
TypeOK == MainTypeOK /\ JobTypeOK /\ WorkerTypeOK /\ WriterTypeOK

-------------------------------------------------------------------------------
(* Safety. *)

\* No result is lost in the write ring: the slot a compress thread is about
\* to store its job in is empty, although parallel_compress does not look
\* (compress.cpp:940) and nothing but the limit of the input buffer pool
\* keeps the compress threads from lapping the write thread.
RingSlotFree ==
  \A w \in Workers : wpc[w] = "publish" => ring[wjob[w] % Slots] = NoJob

\* A job is worked on by a compress thread and by the write thread at once
\* (compress.cpp:936-956 and 985-1003). Neither finds its buffers gone: the
\* input is there until the check value has been computed from it and its
\* length read, the output until it has been written.
JobIntact ==
  /\ \A w \in Workers : wpc[w] \in {"compress", "publish", "check"} => Held(job[wjob[w]].in)
  /\ xpc \in {"write", "combine"} => xjob = wseq /\ Held(job[xjob].in)
  /\ xpc = "write" => job[xjob].out # NoBlock

\* A job in the queue has a compress thread coming for it, and a job in its
\* turn in the ring has the write thread coming: nobody sleeps through a
\* notification (compress.cpp:775, 941, 978, 1123).
NoLostWakeup ==
  /\ queue # <<>> /\ (\E w \in Workers : wpc[w] = "asleep") =>
       \E w \in Workers : wpc[w] \notin {"asleep", "exited"}
  /\ xpc = "asleep" => ring[wseq % Slots] = NoJob

\* Every block but the first is primed with all the history the window can
\* hold, and with nothing else: the dictionary that waits with the job ends
\* where the job's input begins (compress.cpp:1104-1115).
FullHistory ==
  SetDict => \A s \in 1 .. seq - 1 :
    (\/ \E i \in 1 .. Len(queue) : queue[i] = s
     \/ \E w \in Workers : wpc[w] = "compress" /\ wjob[w] = s) =>
      LET d == job[s].dict
          b == job[s].in
      IN Held(d) /\ d.to = b.from /\ Smaller(Size(d), DictSize) = Smaller(DictSize, b.from)

\* When a dictionary is put together from the one before and a short block,
\* the bytes taken from the one before are bytes it has: its length, read
\* without a check at compress.cpp:1110-1111, does not underflow.
CopyWithinDict ==
  [][mpc = "enqueue" /\ dict' # dict /\ dict'.pool = "dict" =>
       dict.from <= dict'.from /\ dict.to = curr.from]_vars

\* When the trailer is written everything borrowed has been given back: no job
\* has a buffer, the queue and the ring are empty, and the write thread
\* has taken every job.
AllReleased ==
  mpc = "trailer" =>
    /\ wseq = seq /\ queue = <<>>
    /\ \A i \in 0 .. Slots - 1 : ring[i] = NoJob
    /\ \A s \in 0 .. seq - 1 :
         ~Held(job[s].in) /\ ~Held(job[s].dict) /\ job[s].out = NoBlock

\* Whatever the threads do and wherever they fail, the output is the stream
\* that CompressStream promises, as far as it goes.
WritesStream == Stream!Spec

-------------------------------------------------------------------------------
(* Liveness. *)

\* The call comes to an end, by returning, by an exception or by terminating
\* the program.
CallEnds == <>Ended

\* As long as one compress thread could initialise its deflate state, the
\* call comes to an end, whichever of the others could not (compress.cpp:765),
\* unless the input cannot be read once the threads run: that is CallEnds' matter.
OneWorkerSuffices == (\E w \in Workers : wpc[w] = "idle") ~> (Ended \/ mpc = "unwind")
===============================================================================
