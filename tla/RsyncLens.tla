------------------------------- MODULE RsyncLens -------------------------------
(***************************************************************************)
(* How parallel_compress() (src/src/pigzpp/compress.cpp) tells a thread    *)
(* where the rsyncable hash has hit in a block: append_len() writes each   *)
(* distance into the list of a job in one to four bytes, decode_len()      *)
(* takes them out of it again, and the thread ends a piece of the deflate  *)
(* data at each.  ParallelCompress has the distances themselves.           *)
(***************************************************************************)
EXTENDS Integers, Sequences

CONSTANTS
  Gaps,     \* distances between hits
  MaxHits   \* bound on the hits in a block

LongestLen == 539000895

\* append_len() asserts that a distance fits its code.
ASSUME GapsAssumption == Gaps \subseteq 1 .. LongestLen /\ MaxHits \in Nat

VARIABLES
  lens,    \* job->lens
  hits,    \* places in the block where the hash has hit
  starts,  \* where in lens the code of each hit starts
  total,   \* job->in->len, 0 until the block is scanned
  next,    \* next, an index of lens
  left,    \* left
  cuts     \* places where the thread has ended a piece

lensVars == <<lens, hits, starts, total, next, left, cuts>>

Byte(v) == v % 256

\* The forms of append_len() that take more than one byte.
LongCode(len) ==
  IF len < 32832 THEN LET r == len - 64 IN <<Byte(r \div 256), Byte(r)>>
  ELSE IF len < 2129984 THEN
    LET r == len - 32832 IN <<Byte(r \div 65536 + 192), Byte(r \div 256), Byte(r)>>
  ELSE LET r == len - 2129984
       IN <<Byte(r \div 16777216 + 224), Byte(r \div 65536), Byte(r \div 256), Byte(r)>>

\* Mutant of Code: the limit of the one-byte form is one too high.
CodeWide(len) == IF len <= 64 THEN <<Byte(len + 128)>> ELSE LongCode(len)

\* append_len().
Code(len) == IF len < 64 THEN <<Byte(len + 128)>> ELSE LongCode(len)

\* A byte of the list; beyond it could be anything, but CutsWhereHit says that it is
\* never looked at.
ByteAt(i) == IF i <= Len(lens) THEN lens[i] ELSE 0

\* decode_len(): the code that starts at place p of the list.
Size(p) ==
  LET b == ByteAt(p)
  IN IF b < 128 THEN 2 ELSE IF b < 192 THEN 1 ELSE IF b < 224 THEN 3 ELSE 4

Decoded(p) ==
  LET b == ByteAt(p)
  IN IF b < 128 THEN b * 256 + ByteAt(p + 1) + 64
     ELSE IF b = 128 THEN left
     ELSE IF b < 192 THEN b % 64
     ELSE IF b < 224 THEN (b % 32) * 65536 + ByteAt(p + 1) * 256 + ByteAt(p + 2) + 32832
     ELSE (b % 32) * 16777216 + ByteAt(p + 1) * 65536 + ByteAt(p + 2) * 256 + ByteAt(p + 3) + 2129984

LastOf(s) == IF s = <<>> THEN 0 ELSE s[Len(s)]

LensInit ==
  lens = <<>> /\ hits = <<>> /\ starts = <<>> /\ total = 0 /\ next = 1 /\ left = 0 /\ cuts = <<>>

\* The hash hits.
Hit ==
  /\ total = 0 /\ Len(hits) < MaxHits
  /\ \E gap \in Gaps :
       /\ lens' = lens \o Code(gap)
       /\ hits' = Append(hits, LastOf(hits) + gap)
       /\ starts' = Append(starts, Len(lens) + 1)
  /\ UNCHANGED <<total, next, left, cuts>>

\* The block is scanned, and what follows the last hit belongs to it or to the
\* next one.
EndOfBlock ==
  /\ total = 0
  /\ \E rest \in Gaps \cup {0} : total' = LastOf(hits) + rest
  /\ total' # 0
  /\ lens' = lens \o Code(0) /\ left' = total'
  /\ UNCHANGED <<hits, starts, next, cuts>>

\* A thread compresses a piece.
Piece ==
  /\ total # 0 /\ left # 0
  /\ left' = left - Decoded(next)
  /\ next' = next + Size(next)
  /\ cuts' = Append(cuts, total - left')
  /\ UNCHANGED <<lens, hits, starts, total>>

LensNext == Hit \/ EndOfBlock \/ Piece

LensSpec == LensInit /\ [][LensNext]_lensVars

-------------------------------------------------------------------------------

\* The thread ends a piece exactly where the hash has hit and at the end of the
\* block, never beyond it, whatever the distances are; were a code misread by one
\* byte, all later pieces would end elsewhere, or left would wrap around and the
\* thread read beyond the block (compress.cpp:115-162, 830-934).
CutsWhereHit ==
  /\ left >= 0 /\ next <= Len(lens) + 1
  /\ \A i \in DOMAIN cuts : cuts[i] = IF i <= Len(hits) THEN hits[i] ELSE total
  /\ total # 0 /\ left = 0 => LastOf(cuts) = total /\ Len(cuts) >= Len(hits)
===============================================================================
