------------------------------ MODULE CodecProofs ------------------------------
(***************************************************************************)
(* What is written in a code of its own and read again: the list of the    *)
(* places where the rolling hash has hit, the data descriptor of a zip     *)
(* entry, and the numbers in a zip archive.  The three modules share no    *)
(* name, and their proofs next to nothing.                                 *)
(***************************************************************************)
EXTENDS RsyncLens, ZipDescriptor, ZipLayout, WellFoundedInduction, TLAPS

-------------------------------------------------------------------------------
(* RsyncLens: a compress thread cuts its block exactly where the hash has hit,
   for every set of distances append_len() accepts and any number of hits.

   CutsWhereHit is not inductive: it follows from what stands in the list.
   Coded says that the list is the codes of the gaps between the hits, one
   after the other, and InStep that the thread, which has no other knowledge
   of where a code starts, is always at the start of one. *)

\* The length of append_len()'s code.
CodeSize(len) ==
  IF len < 64 THEN 1 ELSE IF len < 32832 THEN 2 ELSE IF len < 2129984 THEN 3 ELSE 4

\* The code of a distance stands at place p of the list.
Stands(len, p) == \A k \in 1 .. CodeSize(len) : ByteAt(p + k - 1) = Code(len)[k]

\* The distance before the i-th hit.
Gap(i) == hits[i] - (IF i = 1 THEN 0 ELSE hits[i - 1])

\* Where the codes of the hits end and the end mark, if there is one, stands.
CodesEnd == IF total = 0 THEN Len(lens) + 1 ELSE Len(lens)

\* Where the i-th code of the list starts.
StartOf(i) == IF i <= Len(hits) THEN starts[i] ELSE CodesEnd

LensTypes ==
  /\ lens \in Seq(0 .. 255) /\ hits \in Seq(Nat \ {0}) /\ starts \in Seq(Nat \ {0})
  /\ total \in Nat /\ next \in Nat \ {0} /\ left \in Int /\ cuts \in Seq(Int)

Coded ==
  /\ Len(starts) = Len(hits)
  /\ StartOf(1) = 1
  /\ total # 0 => LastOf(hits) <= total /\ Len(lens) >= 1 /\ lens[Len(lens)] = 128
  /\ \A i \in 1 .. Len(hits) :
       /\ Gap(i) \in 1 .. LongestLen
       /\ hits[i] <= LastOf(hits)
       /\ starts[i] + CodeSize(Gap(i)) = StartOf(i + 1)
       /\ starts[i] + CodeSize(Gap(i)) <= CodesEnd
       /\ Stands(Gap(i), starts[i])

InStep ==
  /\ Len(cuts) <= Len(hits) + 1
  /\ \A i \in 1 .. Len(cuts) : cuts[i] = IF i <= Len(hits) THEN hits[i] ELSE total
  /\ total = 0 => cuts = <<>> /\ left = 0 /\ next = 1
  /\ total # 0 => left = total - LastOf(cuts)
  /\ IF Len(cuts) <= Len(hits) THEN next = StartOf(Len(cuts) + 1)
                               ELSE left = 0 /\ next = Len(lens) + 1

LensInv == LensTypes /\ Coded /\ InStep

-------------------------------------------------------------------------------
\* A code has the length of its form, and its bytes are bytes (append_len(),
\* compress.cpp:115-139).
LEMMA CodeForm ==
  ASSUME NEW len \in 0 .. LongestLen
  PROVE  Code(len) \in Seq(0 .. 255) /\ Len(Code(len)) = CodeSize(len)
  <1>1. \A v \in Nat : Byte(v) \in 0 .. 255
    BY DEF Byte
  <1>2. CASE len < 64
    <2>1. Code(len) = <<Byte(len + 128)>>
      BY <1>2 DEF Code
    <2> QED BY <1>1, <1>2, <2>1 DEF CodeSize
  <1>3. CASE len >= 64 /\ len < 32832
    <2> DEFINE r == len - 64
    <2>1. Code(len) = <<Byte(r \div 256), Byte(r)>>
      BY <1>3 DEF Code, LongCode
    <2>2. r \in Nat /\ r \div 256 \in Nat
      BY <1>3
    <2>3. Byte(r) \in 0 .. 255 /\ Byte(r \div 256) \in 0 .. 255
      BY <1>1, <2>2
    <2> QED BY <1>3, <2>1, <2>3 DEF CodeSize
  <1>4. CASE len >= 32832 /\ len < 2129984
    <2> DEFINE r == len - 32832
    <2>1. Code(len) = <<Byte(r \div 65536 + 192), Byte(r \div 256), Byte(r)>>
      BY <1>4 DEF Code, LongCode
    <2>2. r \in Nat /\ r \div 256 \in Nat /\ r \div 65536 + 192 \in Nat
      BY <1>4
    <2>3. Byte(r) \in 0 .. 255 /\ Byte(r \div 256) \in 0 .. 255 /\ Byte(r \div 65536 + 192) \in 0 .. 255
      BY <1>1, <2>2
    <2> QED BY <1>4, <2>1, <2>3 DEF CodeSize
  <1>5. CASE len >= 2129984
    <2> DEFINE r == len - 2129984
    <2>1. Code(len) = <<Byte(r \div 16777216 + 224), Byte(r \div 65536), Byte(r \div 256), Byte(r)>>
      BY <1>5 DEF Code, LongCode
    <2>2. r \in Nat /\ r \div 256 \in Nat /\ r \div 65536 \in Nat /\ r \div 16777216 + 224 \in Nat
      BY <1>5
    <2>3. /\ Byte(r) \in 0 .. 255 /\ Byte(r \div 256) \in 0 .. 255
          /\ Byte(r \div 65536) \in 0 .. 255 /\ Byte(r \div 16777216 + 224) \in 0 .. 255
      BY <1>1, <2>2
    <2> QED BY <1>5, <2>1, <2>3 DEF CodeSize
  <1> QED BY <1>2, <1>3, <1>4, <1>5

\* The prover does not take large numerals for members of a set.
LEMMA LongestIsNat == LongestLen \in Nat /\ LongestLen <= 539000895
  <1>1. LongestLen = 8421 * 64006 + 6369
    BY DEF LongestLen
  <1>2. 8421 * 64006 + 6369 \in Nat
    OBVIOUS
  <1>3. LongestLen <= 539000895
    BY DEF LongestLen
  <1> QED BY <1>1, <1>2, <1>3

\* Numbers of up to 15, 21 and 29 bits are put together again from their bytes.
LEMMA TwoBytes ==
  ASSUME NEW r \in Nat, r < 32768
  PROVE  Byte(r \div 256) < 128 /\ Byte(r \div 256) * 256 + Byte(r) = r
  <1>1. r \div 256 \in 0 .. 127
    OBVIOUS
  <1>2. (r \div 256) * 256 + (r % 256) = r
    OBVIOUS
  <1> QED BY <1>1, <1>2 DEF Byte

LEMMA ThreeBytes ==
  ASSUME NEW r \in Nat, r \div 65536 < 32
  PROVE  /\ Byte(r \div 65536 + 192) \in 192 .. 223
         /\ (Byte(r \div 65536 + 192) % 32) * 65536 + Byte(r \div 256) * 256 + Byte(r) = r
  <1>1. r \div 65536 \in 0 .. 31
    OBVIOUS
  <1>2. Byte(r \div 65536 + 192) = r \div 65536 + 192 /\ (r \div 65536 + 192) % 32 = r \div 65536
    BY <1>1 DEF Byte
  <1>3. (r \div 65536) * 65536 + ((r \div 256) % 256) * 256 + (r % 256) = r
    OBVIOUS
  <1> QED BY <1>1, <1>2, <1>3 DEF Byte

LEMMA FourBytes ==
  ASSUME NEW r \in Nat, r < 536870912
  PROVE  /\ Byte(r \div 16777216 + 224) \in 224 .. 255
         /\ (Byte(r \div 16777216 + 224) % 32) * 16777216 + Byte(r \div 65536) * 65536
              + Byte(r \div 256) * 256 + Byte(r) = r
  <1>1. r \div 16777216 \in 0 .. 31
    OBVIOUS
  <1>2. Byte(r \div 16777216 + 224) = r \div 16777216 + 224 /\ (r \div 16777216 + 224) % 32 = r \div 16777216
    BY <1>1 DEF Byte
  <1>3. (r \div 16777216) * 16777216 + ((r \div 65536) % 256) * 65536 + ((r \div 256) % 256) * 256 + (r % 256) = r
    OBVIOUS
  <1> QED BY <1>1, <1>2, <1>3 DEF Byte

\* decode_len() (compress.cpp:142-162) undoes append_len(): where the bytes of the
\* code of a distance stand, that distance is read, and as many bytes as it has.
LEMMA DecodesWhatWasCoded ==
  ASSUME NEW len \in 1 .. LongestLen, NEW p \in Nat \ {0},
         Stands(len, p)
  PROVE  Decoded(p) = len /\ Size(p) = CodeSize(len)
  <1>0. len \in Nat \ {0} /\ len <= 539000895
    <2>1. len \in Nat \ {0} /\ len <= LongestLen
      BY LongestIsNat
    <2> QED BY <2>1, LongestIsNat
  <1>2. CASE len < 64
    <2>1. ByteAt(p) = Code(len)[1]
      BY <1>2 DEF Stands, CodeSize
    <2>2. Code(len)[1] = len + 128
      BY <1>0, <1>2 DEF Code, Byte
    <2>3. (len + 128) % 64 = len
      BY <1>0, <1>2
    <2> QED BY <1>0, <2>1, <2>2, <2>3, <1>2 DEF Decoded, Size, CodeSize
  <1>3. CASE len >= 64 /\ len < 32832
    <2> DEFINE r == len - 64
    <2>1. Code(len) = <<Byte(r \div 256), Byte(r)>>
      BY <1>3 DEF Code, LongCode
    <2>2. ByteAt(p) = Byte(r \div 256) /\ ByteAt(p + 1) = Byte(r)
      <3>1. ByteAt(p) = Code(len)[1] /\ ByteAt(p + 1) = Code(len)[2]
        BY <1>0, <1>3 DEF Stands, CodeSize
      <3> QED BY <3>1, <2>1
    <2>3. r \in Nat /\ r < 32768
      BY <1>0, <1>3
    <2>4. len = r + 64
      BY <1>0
    <2> HIDE DEF r
    <2>5. Byte(r \div 256) < 128 /\ Byte(r \div 256) * 256 + Byte(r) = r
      BY TwoBytes, <2>3
    <2> QED BY <2>2, <2>3, <2>4, <2>5, <1>3 DEF Decoded, Size, CodeSize
  <1>4. CASE len >= 32832 /\ len < 2129984
    <2> DEFINE r == len - 32832
               b == Byte(r \div 65536 + 192)
    <2>1. Code(len) = <<b, Byte(r \div 256), Byte(r)>>
      BY <1>4 DEF Code, LongCode
    <2>2. ByteAt(p) = b /\ ByteAt(p + 1) = Byte(r \div 256) /\ ByteAt(p + 2) = Byte(r)
      <3>1. ByteAt(p) = Code(len)[1] /\ ByteAt(p + 1) = Code(len)[2] /\ ByteAt(p + 2) = Code(len)[3]
        BY <1>0, <1>4 DEF Stands, CodeSize
      <3> QED BY <3>1, <2>1
    <2>3. r \in Nat /\ r \div 65536 < 32
      BY <1>0, <1>4
    <2>4. len = r + 32832
      BY <1>0
    <2> HIDE DEF r
    <2>5. b \in 192 .. 223 /\ (b % 32) * 65536 + Byte(r \div 256) * 256 + Byte(r) = r
      BY ThreeBytes, <2>3
    <2> HIDE DEF b
    <2> QED BY <2>2, <2>3, <2>4, <2>5, <1>4 DEF Decoded, Size, CodeSize
  <1>5. CASE len >= 2129984
    <2> DEFINE r == len - 2129984
               b == Byte(r \div 16777216 + 224)
    <2>1. Code(len) = <<b, Byte(r \div 65536), Byte(r \div 256), Byte(r)>>
      BY <1>5 DEF Code, LongCode
    <2>2. /\ ByteAt(p) = b /\ ByteAt(p + 1) = Byte(r \div 65536)
          /\ ByteAt(p + 2) = Byte(r \div 256) /\ ByteAt(p + 3) = Byte(r)
      <3>1. /\ ByteAt(p) = Code(len)[1] /\ ByteAt(p + 1) = Code(len)[2]
            /\ ByteAt(p + 2) = Code(len)[3] /\ ByteAt(p + 3) = Code(len)[4]
        BY <1>0, <1>5 DEF Stands, CodeSize
      <3> QED BY <3>1, <2>1
    <2>3. r \in Nat /\ r < 536870912
      BY <1>0, <1>5
    <2>4. len = r + 2129984
      BY <1>0
    <2> HIDE DEF r
    <2>5. /\ b \in 224 .. 255
          /\ (b % 32) * 16777216 + Byte(r \div 65536) * 65536 + Byte(r \div 256) * 256 + Byte(r) = r
      BY FourBytes, <2>3
    <2> HIDE DEF b
    <2> QED BY <2>2, <2>3, <2>4, <2>5, <1>5 DEF Decoded, Size, CodeSize
  <1> QED BY <1>0, <1>2, <1>3, <1>4, <1>5

-------------------------------------------------------------------------------
\* What a hit appends: the list grows by the code of the gap, the rest of it stays.
LEMMA HitAppends ==
  ASSUME LensInv, NEW gap \in 1 .. LongestLen,
         lens' = lens \o Code(gap), hits' = Append(hits, LastOf(hits) + gap),
         starts' = Append(starts, Len(lens) + 1)
  PROVE  /\ lens' \in Seq(0 .. 255) /\ hits' \in Seq(Nat \ {0}) /\ starts' \in Seq(Nat \ {0})
         /\ Len(lens') = Len(lens) + CodeSize(gap) /\ CodeSize(gap) \in 1 .. 4
         /\ Len(hits') = Len(hits) + 1 /\ Len(starts') = Len(hits) + 1
         /\ LastOf(hits') = LastOf(hits) + gap /\ LastOf(hits) \in Nat
         /\ \A i \in 1 .. Len(lens) : lens'[i] = lens[i]
         /\ \A k \in 1 .. CodeSize(gap) : lens'[Len(lens) + k] = Code(gap)[k]
         /\ \A i \in 1 .. Len(hits) : hits'[i] = hits[i] /\ starts'[i] = starts[i]
         /\ hits'[Len(hits) + 1] = LastOf(hits) + gap /\ starts'[Len(hits) + 1] = Len(lens) + 1
  <1>1. Code(gap) \in Seq(0 .. 255) /\ Len(Code(gap)) = CodeSize(gap)
    BY CodeForm, LongestIsNat
  <1>2. lens \in Seq(0 .. 255) /\ hits \in Seq(Nat \ {0}) /\ starts \in Seq(Nat \ {0}) /\ Len(starts) = Len(hits)
    BY DEF LensInv, LensTypes, Coded
  <1>3. gap \in Nat \ {0}
    BY LongestIsNat
  <1>4. LastOf(hits) \in Nat
    BY <1>2 DEF LastOf
  <1>5. CodeSize(gap) \in 1 .. 4
    BY DEF CodeSize
  <1>6. LastOf(hits') = LastOf(hits) + gap
    <2>1. hits' # <<>> /\ Len(hits') = Len(hits) + 1 /\ hits'[Len(hits) + 1] = LastOf(hits) + gap
      BY <1>2, <1>3, <1>4
    <2> QED BY <2>1, <1>2 DEF LastOf
  <1>7. /\ lens' \in Seq(0 .. 255) /\ Len(lens') = Len(lens) + CodeSize(gap)
        /\ \A i \in 1 .. Len(lens) : lens'[i] = lens[i]
        /\ \A k \in 1 .. CodeSize(gap) : lens'[Len(lens) + k] = Code(gap)[k]
    <2>1. PICK c : c = Code(gap)
      OBVIOUS
    <2>2. c \in Seq(0 .. 255) /\ lens \in Seq(0 .. 255) /\ lens' = lens \o c
      BY <1>1, <1>2, <2>1
    <2>3. /\ lens \o c \in Seq(0 .. 255) /\ Len(lens \o c) = Len(lens) + Len(c)
          /\ \A i \in 1 .. Len(lens) : (lens \o c)[i] = lens[i]
      BY <2>2
    <2>4. \A k \in 1 .. Len(c) : (lens \o c)[Len(lens) + k] = c[k]
      <3>1. \A k \in 1 .. Len(c) : Len(lens) + k \in 1 .. Len(lens) + Len(c) /\ Len(lens) + k > Len(lens)
        BY <2>2
      <3> QED BY <2>2, <3>1
    <2>5. Len(c) = CodeSize(gap)
      BY <1>1, <2>1
    <2> QED BY <2>1, <2>2, <2>3, <2>4, <2>5
  <1>8. /\ hits' \in Seq(Nat \ {0}) /\ Len(hits') = Len(hits) + 1
        /\ \A i \in 1 .. Len(hits) : hits'[i] = hits[i]
        /\ hits'[Len(hits) + 1] = LastOf(hits) + gap
    BY <1>2, <1>3, <1>4
  <1>9. /\ starts' \in Seq(Nat \ {0}) /\ Len(starts') = Len(hits) + 1
        /\ \A i \in 1 .. Len(hits) : starts'[i] = starts[i]
        /\ starts'[Len(hits) + 1] = Len(lens) + 1
    <2>1. Len(lens) + 1 \in Nat \ {0}
      BY <1>2
    <2> DEFINE m == Len(lens) + 1
    <2> HIDE DEF m
    <2>2. starts' = Append(starts, m) /\ m \in Nat \ {0}
      BY <2>1 DEF m
    <2>3. /\ starts' \in Seq(Nat \ {0}) /\ Len(starts') = Len(hits) + 1
          /\ \A i \in 1 .. Len(hits) : starts'[i] = starts[i]
          /\ starts'[Len(hits) + 1] = m
      BY <1>2, <2>2
    <2> QED BY <2>3 DEF m
  <1> QED BY <1>4, <1>5, <1>6, <1>7, <1>8, <1>9

LEMMA HitStep == LensInv /\ Hit => LensInv'
  <1> SUFFICES ASSUME LensInv, Hit PROVE LensInv'
    OBVIOUS
  <1>1. PICK gap \in Gaps : /\ lens' = lens \o Code(gap)
                            /\ hits' = Append(hits, LastOf(hits) + gap)
                            /\ starts' = Append(starts, Len(lens) + 1)
    BY DEF Hit
  <1>2. total = 0 /\ total' = 0 /\ next' = next /\ left' = left /\ cuts' = cuts
    BY DEF Hit
  <1>3. gap \in 1 .. LongestLen
    BY GapsAssumption
  <1> DEFINE n == Len(hits)
  <1>4. /\ lens' \in Seq(0 .. 255) /\ hits' \in Seq(Nat \ {0}) /\ starts' \in Seq(Nat \ {0})
        /\ Len(lens') = Len(lens) + CodeSize(gap) /\ CodeSize(gap) \in 1 .. 4
        /\ Len(hits') = n + 1 /\ Len(starts') = n + 1
        /\ LastOf(hits') = LastOf(hits) + gap /\ LastOf(hits) \in Nat
        /\ \A i \in 1 .. Len(lens) : lens'[i] = lens[i]
        /\ \A k \in 1 .. CodeSize(gap) : lens'[Len(lens) + k] = Code(gap)[k]
        /\ \A i \in 1 .. n : hits'[i] = hits[i] /\ starts'[i] = starts[i]
        /\ hits'[n + 1] = LastOf(hits) + gap /\ starts'[n + 1] = Len(lens) + 1
    BY HitAppends, <1>1, <1>3
  <1>5. n \in Nat /\ Len(lens) \in Nat /\ Len(starts) = n /\ gap \in Nat \ {0}
    BY <1>3, LongestIsNat DEF LensInv, LensTypes, Coded
  <1> DEFINE c == CodeSize(gap)
  <1>0. /\ n \in Nat /\ Len(lens) \in Nat /\ c \in 1 .. 4 /\ Len(lens') = Len(lens) + c /\ Len(hits') = n + 1
        /\ LastOf(hits') = LastOf(hits) + gap /\ LastOf(hits) \in Nat /\ gap \in Nat \ {0}
        /\ starts'[n + 1] = Len(lens) + 1 /\ hits'[n + 1] = LastOf(hits) + gap
    BY <1>4, <1>5
  <1>6. CodesEnd = Len(lens) + 1 /\ CodesEnd' = Len(lens) + CodeSize(gap) + 1
    BY <1>2, <1>4, <1>5 DEF CodesEnd
  <1>7. \A i \in 1 .. n + 1 : StartOf(i)' = StartOf(i)
    <2> SUFFICES ASSUME NEW i \in 1 .. n + 1 PROVE StartOf(i)' = StartOf(i)
      OBVIOUS
    <2>1. Len(hits') = n + 1 /\ n + 1 \in Nat
      BY <1>0
    <2>2. CASE i <= n
      <3>1. starts'[i] = starts[i] /\ i <= Len(hits')
        <4>1. i \in 1 .. n /\ i <= Len(hits')
          BY <1>5, <2>1, <2>2
        <4>2. starts'[i] = starts[i]
          BY <1>4, <4>1, Zenon
        <4> QED BY <4>1, <4>2
      <3> QED BY <2>2, <3>1 DEF StartOf
    <2>3. CASE i = n + 1
      <3>1. starts'[i] = CodesEnd /\ i <= Len(hits') /\ ~ (i <= Len(hits))
        BY <1>0, <1>6, <2>3
      <3> QED BY <3>1 DEF StartOf
    <2> QED BY <1>5, <2>2, <2>3
  <1>8. \A i \in Nat : i > n + 1 => StartOf(i)' = CodesEnd'
    BY <1>4, <1>5 DEF StartOf
  <1>9. LensTypes'
    BY <1>2, <1>4 DEF LensInv, LensTypes
  <1>10. ASSUME NEW i \in 1 .. n + 1
         PROVE  /\ Gap(i)' \in 1 .. LongestLen /\ hits'[i] <= LastOf(hits')
                /\ starts'[i] + CodeSize(Gap(i)') = StartOf(i + 1)'
                /\ starts'[i] + CodeSize(Gap(i)') <= CodesEnd'
                /\ Stands(Gap(i), starts[i])'
    <2>1. CASE i \in 1 .. n
      <3>1. /\ Gap(i) \in 1 .. LongestLen /\ hits[i] <= LastOf(hits) /\ hits[i] \in Nat
            /\ starts[i] + CodeSize(Gap(i)) = StartOf(i + 1)
            /\ starts[i] + CodeSize(Gap(i)) <= CodesEnd
            /\ Stands(Gap(i), starts[i]) /\ starts[i] \in Nat \ {0}
        BY <2>1, <1>5 DEF LensInv, LensTypes, Coded
      <3>2. Gap(i)' = Gap(i)
        <4>1. i = 1 \/ i - 1 \in 1 .. n
          BY <2>1, <1>0
        <4>2. hits'[i] = hits[i] /\ (i # 1 => hits'[i - 1] = hits[i - 1])
          BY <4>1, <2>1, <1>4
        <4> QED BY <4>2 DEF Gap
      <3>3. starts'[i] = starts[i] /\ hits'[i] = hits[i] /\ StartOf(i + 1)' = StartOf(i + 1)
        BY SMTT(30), <2>1, <1>4, <1>5, <1>7
      <3>4. CodeSize(Gap(i)) \in 1 .. 4
        BY DEF CodeSize
      <3>5. ASSUME NEW k \in 1 .. CodeSize(Gap(i))
            PROVE  ByteAt(starts[i] + k - 1)' = Code(Gap(i))[k]
        <4>1. starts[i] + k - 1 \in 1 .. Len(lens)
          <5> DEFINE a == starts[i]
                     d == CodeSize(Gap(i))
          <5>1. a \in Nat \ {0} /\ d \in 1 .. 4 /\ a + d <= Len(lens) + 1 /\ k \in 1 .. d
            BY <3>1, <3>4, <1>6
          <5> HIDE DEF a, d
          <5>2. a + k - 1 \in 1 .. Len(lens)
            BY <5>1, <1>0
          <5> QED BY <5>2 DEF a
        <4>2. ByteAt(starts[i] + k - 1) = Code(Gap(i))[k]
          BY <3>1 DEF Stands
        <4>3. lens'[starts[i] + k - 1] = lens[starts[i] + k - 1]
          BY <4>1, <1>4
        <4>4. Len(lens') >= Len(lens)
          BY SMTT(30), <1>4, <1>5
        <4>5. ByteAt(starts[i] + k - 1) = lens[starts[i] + k - 1]
          BY <4>1 DEF ByteAt
        <4> DEFINE q == starts[i] + k - 1
        <4>6. ByteAt(q)' = lens'[q]
          <5>1. q \in 1 .. Len(lens') /\ q' = q
            BY <4>1, <4>4, <1>4, <3>3
          <5> QED BY <5>1 DEF ByteAt
        <4> QED BY <4>2, <4>3, <4>5, <4>6
      <3>6. Stands(Gap(i), starts[i])'
        BY <3>2, <3>3, <3>5 DEF Stands
      <3>7. hits'[i] <= LastOf(hits')
        BY <3>1, <3>3, <1>4, <1>5
      <3>8. starts'[i] + CodeSize(Gap(i)') <= CodesEnd'
        <4> DEFINE a == starts[i]
                   d == CodeSize(Gap(i))
        <4>1. a \in Nat \ {0} /\ d \in 1 .. 4 /\ a + d <= Len(lens) + 1
          BY <3>1, <3>4, <1>6
        <4> HIDE DEF a, d
        <4>2. a + d <= Len(lens) + c + 1
          BY <4>1, <1>0
        <4> QED BY <4>2, <3>2, <3>3, <1>6 DEF a, d
      <3> QED BY <3>1, <3>2, <3>3, <3>6, <3>7, <3>8
    <2>2. CASE i = n + 1
      <3>1. Gap(i)' = gap
        <4>1. n > 0 => LastOf(hits) = hits[n] /\ hits'[n] = hits[n]
          BY <1>4, <1>5 DEF LastOf
        <4>2. n = 0 => LastOf(hits) = 0
          BY DEF LastOf, LensInv, LensTypes
        <4>3. Gap(i)' = hits'[n + 1] - (IF n = 0 THEN 0 ELSE hits'[n])
          BY <2>2, <1>5 DEF Gap
        <4> QED BY SMTT(30), <4>1, <4>2, <4>3, <1>4, <1>5
      <3>2. starts'[i] = Len(lens) + 1 /\ StartOf(i + 1)' = CodesEnd'
        <4>1. i + 1 \in Nat /\ i + 1 > n + 1
          BY <2>2, <1>0
        <4>2. StartOf(i + 1)' = CodesEnd'
          BY <4>1, <1>8
        <4> QED BY <2>2, <4>2, <1>0
      <3>3. ASSUME NEW k \in 1 .. CodeSize(gap)
            PROVE  ByteAt(starts[i] + k - 1)' = Code(gap)[k]
        <4>1. starts'[i] + k - 1 = Len(lens) + k
          BY <3>2, <1>0
        <4>2. Len(lens) + k <= Len(lens')
          <5> HIDE DEF c
          <5>1. k \in 1 .. c
            BY DEF c
          <5> QED BY <5>1, <1>0
        <4> QED BY <4>1, <4>2, <1>4 DEF ByteAt
      <3>4. Stands(Gap(i), starts[i])'
        BY <3>1, <3>3 DEF Stands
      <3>5. hits'[i] <= LastOf(hits')
        BY <2>2, <1>0
      <3>6. starts'[i] + CodeSize(Gap(i)') = CodesEnd'
        <4> HIDE DEF c
        <4>1. CodeSize(Gap(i)') = c
          BY <3>1 DEF c
        <4>2. CodesEnd' = Len(lens) + c + 1
          BY <1>6 DEF c
        <4> QED BY <4>1, <4>2, <3>2, <1>0
      <3>7. CodesEnd' \in Nat
        BY <1>0, <1>6
      <3>8. starts'[i] + CodeSize(Gap(i)') <= CodesEnd'
        BY <3>6, <3>7
      <3> QED BY <3>1, <3>2, <3>4, <3>5, <3>6, <3>8, <1>3
    <2> QED BY <2>1, <2>2, <1>5
  <1>11. Coded'
    <2>1. StartOf(1)' = 1
      BY <1>5, <1>7 DEF LensInv, Coded
    <2> QED BY <1>2, <1>4, <1>10, <2>1 DEF Coded
  <1>12. InStep'
    <2>1. cuts = <<>> /\ left = 0 /\ next = 1 /\ Len(cuts) = 0
      BY <1>2 DEF LensInv, InStep
    <2>2. StartOf(1)' = 1
      BY <1>11 DEF Coded
    <2> QED BY <1>2, <1>4, <1>5, <2>1, <2>2 DEF InStep
  <1> QED BY <1>9, <1>11, <1>12 DEF LensInv

\* The end mark is appended.
LEMMA EndStep == LensInv /\ EndOfBlock => LensInv'
  <1> SUFFICES ASSUME LensInv, EndOfBlock PROVE LensInv'
    OBVIOUS
  <1>1. /\ total = 0 /\ total' \in Nat \ {0} /\ LastOf(hits) <= total' /\ LastOf(hits) \in Nat
        /\ left' = total' /\ lens' = lens \o Code(0)
        /\ hits' = hits /\ starts' = starts /\ next' = next /\ cuts' = cuts
    <2>1. PICK rest \in Gaps \cup {0} : total' = LastOf(hits) + rest
      BY DEF EndOfBlock
    <2>2. rest \in Nat
      BY GapsAssumption, LongestIsNat
    <2>3. LastOf(hits) \in Nat
      BY DEF LastOf, LensInv, LensTypes
    <2>4. total' \in Nat /\ LastOf(hits) <= total'
      BY <2>1, <2>2, <2>3
    <2> QED BY <2>3, <2>4 DEF EndOfBlock
  <1>2. Code(0) = <<128>>
    BY DEF Code, Byte
  <1>3. /\ lens' \in Seq(0 .. 255) /\ Len(lens') = Len(lens) + 1 /\ lens'[Len(lens) + 1] = 128
        /\ \A i \in 1 .. Len(lens) : lens'[i] = lens[i]
    <2>1. 0 \in 0 .. LongestLen /\ CodeSize(0) = 1
      BY LongestIsNat DEF CodeSize
    <2>2. Code(0) \in Seq(0 .. 255) /\ Len(Code(0)) = 1
      BY <2>1, CodeForm
    <2>3. Code(0)[1] = 128
      BY <1>2
    <2>4. lens \in Seq(0 .. 255)
      BY DEF LensInv, LensTypes
    <2>5. /\ lens' \in Seq(0 .. 255) /\ Len(lens') = Len(lens) + 1
          /\ \A i \in 1 .. Len(lens) : lens'[i] = lens[i]
          /\ lens'[Len(lens) + 1] = Code(0)[1]
      BY <1>1, <2>2, <2>4
    <2> QED BY <2>3, <2>5
  <1> DEFINE n == Len(hits)
  <1>4. n \in Nat /\ Len(lens) \in Nat
    BY DEF LensInv, LensTypes
  <1>5. CodesEnd' = CodesEnd /\ CodesEnd = Len(lens) + 1
    BY <1>1, <1>3, <1>4 DEF CodesEnd
  <1>6. \A i : StartOf(i)' = StartOf(i) /\ Gap(i)' = Gap(i)
    BY <1>1, <1>5 DEF StartOf, Gap
  <1>7. LensTypes'
    BY <1>1, <1>3 DEF LensInv, LensTypes
  <1>8. ASSUME NEW i \in 1 .. n
        PROVE  Stands(Gap(i), starts[i])'
    <2> DEFINE a == starts[i]
               d == CodeSize(Gap(i))
    <2>1. a \in Nat \ {0} /\ d \in 1 .. 4 /\ a + d <= Len(lens) + 1 /\ Stands(Gap(i), a)
      <3>1. d \in 1 .. 4
        BY DEF CodeSize
      <3> QED BY <3>1, <1>5 DEF LensInv, LensTypes, Coded
    <2>2. ASSUME NEW k \in 1 .. d
          PROVE  ByteAt(a + k - 1)' = Code(Gap(i))[k]
      <3>1. a + k - 1 \in 1 .. Len(lens)
        <4> HIDE DEF a, d
        <4> QED BY <2>1, <2>2, <1>4
      <3>2. ByteAt(a + k - 1) = Code(Gap(i))[k]
        BY <2>1 DEF Stands
      <3>3. a' = a
        BY <1>1
      <3> DEFINE q == a + k - 1
      <3>4. q' = q /\ q \in 1 .. Len(lens')
        BY <3>1, <3>3, <1>3, <1>4
      <3>5. ByteAt(q) = lens[q] /\ ByteAt(q)' = lens'[q]
        BY <3>1, <3>4 DEF ByteAt
      <3> QED BY <3>1, <3>2, <3>5, <1>3
    <2> QED BY <2>2, <1>1, <1>6 DEF Stands
  <1>9. Coded'
    <2>1. Len(lens') >= 1 /\ lens'[Len(lens')] = 128
      BY <1>3, <1>4
    <2>2. \A i \in 1 .. n : /\ Gap(i) \in 1 .. LongestLen /\ hits[i] <= LastOf(hits)
                            /\ starts[i] + CodeSize(Gap(i)) = StartOf(i + 1)
                            /\ starts[i] + CodeSize(Gap(i)) <= CodesEnd
      BY DEF LensInv, Coded
    <2>3. Len(starts) = n /\ StartOf(1) = 1 /\ LastOf(hits') = LastOf(hits)
      BY <1>1 DEF LensInv, Coded
    <2> QED BY <2>1, <2>2, <2>3, <1>1, <1>5, <1>6, <1>8 DEF Coded
  <1>10. InStep'
    <2>1. cuts = <<>> /\ next = 1 /\ LastOf(cuts) = 0 /\ Len(cuts) = 0
      BY <1>1 DEF LensInv, InStep, LastOf
    <2>2. LastOf(cuts)' = 0
      BY <2>1, <1>1 DEF LastOf
    <2>3. StartOf(1)' = 1
      BY <1>9 DEF Coded
    <2> QED BY <1>1, <1>4, <2>1, <2>2, <2>3 DEF InStep
  <1> QED BY <1>7, <1>9, <1>10 DEF LensInv

\* Of the pieces cut so far none goes beyond the block.
LEMMA CutWithin ==
  ASSUME LensInv, total # 0
  PROVE  LastOf(cuts) \in 0 .. total /\ LastOf(hits) \in 0 .. total
  <1>1. LastOf(hits) \in Nat /\ LastOf(hits) <= total /\ total \in Nat
    BY DEF LensInv, LensTypes, Coded, LastOf
  <1>2. CASE cuts = <<>>
    BY <1>1, <1>2 DEF LastOf
  <1>3. CASE cuts # <<>>
    <2> DEFINE n == Len(cuts)
    <2>1. n \in 1 .. Len(hits) + 1 /\ LastOf(cuts) = cuts[n] /\ Len(hits) \in Nat
      BY <1>3 DEF LensInv, LensTypes, InStep, LastOf
    <2>2. cuts[n] = IF n <= Len(hits) THEN hits[n] ELSE total
      BY <2>1 DEF LensInv, InStep
    <2>3. n <= Len(hits) => hits[n] \in Nat /\ hits[n] <= LastOf(hits)
      BY <2>1 DEF LensInv, LensTypes, Coded
    <2> QED BY <1>1, <2>1, <2>2, <2>3
  <1> QED BY <1>1, <1>2, <1>3

LEMMA PieceStep == LensInv /\ Piece => LensInv'
  <1> SUFFICES ASSUME LensInv, Piece PROVE LensInv'
    OBVIOUS
  <1> DEFINE n == Len(cuts)
             m == Len(hits)
  <1>1. /\ total # 0 /\ left # 0 /\ left' = left - Decoded(next) /\ next' = next + Size(next)
        /\ cuts' = Append(cuts, total - left')
        /\ lens' = lens /\ hits' = hits /\ starts' = starts /\ total' = total
    BY DEF Piece
  <1>2. /\ n \in Nat /\ m \in Nat /\ n <= m /\ next = StartOf(n + 1) /\ left = total - LastOf(cuts)
        /\ total \in Nat /\ Len(lens) \in Nat \ {0}
    BY <1>1 DEF LensInv, LensTypes, Coded, InStep
  <1>3. LastOf(cuts) \in 0 .. total
    BY <1>1, CutWithin
  <1>4. CodesEnd = Len(lens) /\ CodesEnd' = CodesEnd
    BY <1>1 DEF CodesEnd
  <1>5. \A i : StartOf(i)' = StartOf(i) /\ Gap(i)' = Gap(i)
    BY <1>1, <1>4 DEF StartOf, Gap
  <1>6. Coded'
    <2>1. \A len, p : Stands(len, p)' = Stands(len, p)
      BY <1>1 DEF Stands, ByteAt
    <2>2. LastOf(hits') = LastOf(hits)
      BY <1>1
    <2> QED BY <1>1, <1>4, <1>5, <2>1, <2>2 DEF LensInv, Coded
  <1>7. n < m => /\ left' = total - hits[n + 1] /\ next' = StartOf(n + 2)
                 /\ hits[n + 1] \in Nat \ {0} /\ next' \in Nat \ {0}
    <2> HAVE n < m
    <2> DEFINE i == n + 1
    <2>1. i \in 1 .. m
      BY <1>2
    <2>2. /\ Gap(i) \in 1 .. LongestLen /\ starts[i] \in Nat \ {0} /\ Stands(Gap(i), starts[i])
          /\ starts[i] + CodeSize(Gap(i)) = StartOf(i + 1) /\ hits[i] \in Nat \ {0}
      BY <2>1 DEF LensInv, LensTypes, Coded
    <2>3. next = starts[i]
      BY <1>2, <2>1 DEF StartOf
    <2>4. Decoded(next) = Gap(i) /\ Size(next) = CodeSize(Gap(i))
      BY <2>2, <2>3, DecodesWhatWasCoded
    <2>5. Gap(i) = hits[i] - LastOf(cuts)
      <3>1. CASE n = 0
        BY <3>1, <1>2 DEF Gap, LastOf, LensInv, LensTypes
      <3>2. CASE n # 0
        <4>1. LastOf(cuts) = cuts[n] /\ n \in 1 .. m
          BY <3>2, <1>2 DEF LastOf, LensInv, LensTypes
        <4>2. cuts[n] = hits[n]
          BY <4>1, <1>2 DEF LensInv, InStep
        <4>3. i # 1 /\ i - 1 = n
          BY <3>2, <1>2
        <4> QED BY <4>1, <4>2, <4>3 DEF Gap
      <3> QED BY <3>1, <3>2
    <2>6. left' = total - hits[i]
      <3> HIDE DEF i
      <3> QED BY <1>1, <1>2, <1>3, <2>2, <2>4, <2>5
    <2>7. next' = StartOf(n + 2)
      <3>1. i + 1 = n + 2
        BY <1>2
      <3> QED BY <1>1, <2>2, <2>3, <2>4, <3>1
    <2>8. next' \in Nat \ {0}
      <3>1. CodeSize(Gap(i)) \in 1 .. 4
        BY DEF CodeSize
      <3> HIDE DEF i
      <3> QED BY <1>1, <2>2, <2>3, <2>4, <3>1
    <2> QED BY <2>2, <2>6, <2>7, <2>8
  <1>8. n = m => left' = 0 /\ next' = Len(lens) + 1
    <2> HAVE n = m
    <2>1. next = Len(lens)
      BY <1>2, <1>4 DEF StartOf
    <2>2. ByteAt(next) = 128
      BY <1>1, <1>2, <2>1 DEF LensInv, Coded, ByteAt
    <2>3. Decoded(next) = left /\ Size(next) = 1
      BY <2>2 DEF Decoded, Size
    <2> QED BY SMTT(30), <1>1, <1>2, <1>3, <2>1, <2>3
  <1>9. left' \in Int /\ next' \in Nat \ {0}
    BY <1>2, <1>7, <1>8
  <1>10. /\ cuts' \in Seq(Int) /\ Len(cuts') = n + 1 /\ cuts'[n + 1] = total - left'
         /\ \A i \in 1 .. n : cuts'[i] = cuts[i]
    <2>1. total - left' \in Int
      BY <1>2, <1>9
    <2> QED BY <1>1, <2>1 DEF LensInv, LensTypes
  <1>11. LastOf(cuts') = total - left'
    <2>1. cuts' # <<>>
      BY <1>2, <1>10
    <2> QED BY <1>10, <2>1 DEF LastOf
  <1>12. LensTypes'
    BY <1>1, <1>9, <1>10 DEF LensInv, LensTypes
  <1>13. InStep'
    <2>1. ASSUME NEW i \in 1 .. n + 1
          PROVE  cuts'[i] = IF i <= m THEN hits[i] ELSE total
      <3>1. CASE i \in 1 .. n
        BY <3>1, <1>10 DEF LensInv, InStep
      <3>2. CASE i = n + 1 /\ n < m
        BY <3>2, <1>2, <1>7, <1>10
      <3>3. CASE i = n + 1 /\ n = m
        BY <3>3, <1>2, <1>8, <1>10
      <3> QED BY <3>1, <3>2, <3>3, <1>2
    <2>2. left' = total' - LastOf(cuts')
      BY <1>1, <1>2, <1>9, <1>11
    <2>3. n + 1 <= m => next' = StartOf(n + 2)
      BY <1>2, <1>7
    <2>4. n + 1 > m => left' = 0 /\ next' = Len(lens) + 1
      BY <1>2, <1>8
    <2>5. n + 1 <= m + 1
      BY <1>2
    <2> DEFINE k == n + 1
    <2>6. k = Len(cuts') /\ k + 1 = n + 2
      BY <1>2, <1>10
    <2>7. \A i : i = n + 2 => StartOf(i)' = StartOf(i)
      BY <1>5
    <2>8. IF Len(cuts') <= Len(hits') THEN next' = StartOf(Len(cuts) + 1)' ELSE left' = 0 /\ next' = Len(lens') + 1
      <3>1. CASE n + 1 <= m
        <4>1. StartOf(Len(cuts) + 1)' = StartOf(n + 2)
          <5>1. \A i : i = Len(cuts') + 1 => StartOf(Len(cuts) + 1)' = StartOf(i)
            BY <1>1, <1>4 DEF StartOf
          <5> QED BY <5>1, <2>6
        <4> QED BY <3>1, <4>1, <2>3, <2>6, <1>1
      <3>2. CASE ~(n + 1 <= m)
        BY <3>2, <2>4, <2>6, <1>1, <1>2
      <3> QED BY <3>1, <3>2
    <2> QED BY <1>1, <1>10, <2>1, <2>2, <2>5, <2>8 DEF InStep
  <1> QED BY <1>6, <1>12, <1>13 DEF LensInv

\* The strengthened invariant holds of every behaviour.
LEMMA LensInductive == LensSpec => []LensInv
  <1>1. LensInit => LensInv
    <2> SUFFICES ASSUME LensInit PROVE LensInv
      OBVIOUS
    <2>1. Len(hits) = 0 /\ Len(starts) = 0 /\ Len(cuts) = 0 /\ Len(lens) = 0 /\ total = 0
      BY DEF LensInit
    <2>2. StartOf(1) = 1
      BY <2>1 DEF StartOf, CodesEnd
    <2>3. LensTypes
      BY DEF LensInit, LensTypes
    <2>4. Coded
      BY <2>1, <2>2 DEF Coded
    <2>5. InStep
      BY <2>1, <2>2 DEF LensInit, InStep
    <2> QED BY <2>3, <2>4, <2>5 DEF LensInv
  <1>2. LensInv /\ [LensNext]_lensVars => LensInv'
    <2> SUFFICES ASSUME LensInv, [LensNext]_lensVars PROVE LensInv'
      OBVIOUS
    <2>1. CASE UNCHANGED lensVars
      BY <2>1 DEF lensVars, LensInv, LensTypes, Coded, InStep, StartOf, Gap, CodesEnd, Stands, ByteAt, LastOf
    <2> QED BY <2>1, HitStep, EndStep, PieceStep DEF LensNext
  <1> QED BY <1>1, <1>2, PTL DEF LensSpec

\* For every set of distances and any number of hits, the thread ends its pieces
\* where the hash has hit and at the end of the block (compress.cpp:830-934).
THEOREM CutsAreHits == LensSpec => []CutsWhereHit
  <1>1. LensInv => CutsWhereHit
    <2> SUFFICES ASSUME LensInv PROVE CutsWhereHit
      OBVIOUS
    <2> DEFINE n == Len(cuts)
               m == Len(hits)
    <2>1. n \in Nat /\ m \in Nat /\ Len(lens) \in Nat /\ total \in Nat /\ n <= m + 1
      BY DEF LensInv, LensTypes, InStep
    <2>2. left >= 0
      <3>1. CASE total = 0
        BY <3>1 DEF LensInv, InStep
      <3>2. CASE total # 0
        <4>1. left = total - LastOf(cuts) /\ LastOf(cuts) \in 0 .. total
          BY <3>2, CutWithin DEF LensInv, InStep
        <4> QED BY <4>1, <2>1
      <3> QED BY <3>1, <3>2
    <2>3. next <= Len(lens) + 1
      <3>1. CASE n < m
        <4> DEFINE i == n + 1
        <4>1. i \in 1 .. m
          BY <3>1, <2>1
        <4>2. next = starts[i]
          BY <3>1, <4>1, <2>1 DEF LensInv, InStep, StartOf
        <4>3. starts[i] + CodeSize(Gap(i)) <= CodesEnd /\ starts[i] \in Nat
          BY <4>1 DEF LensInv, LensTypes, Coded
        <4>4. CodeSize(Gap(i)) \in 1 .. 4 /\ CodesEnd \in Nat /\ CodesEnd <= Len(lens) + 1
          BY <2>1 DEF CodeSize, CodesEnd
        <4> QED BY <4>2, <4>3, <4>4, <2>1
      <3>2. CASE n = m
        <4>1. next = CodesEnd
          BY <3>2, <2>1 DEF LensInv, InStep, StartOf
        <4> QED BY <4>1, <2>1 DEF CodesEnd
      <3>3. CASE n = m + 1
        BY <3>3, <2>1 DEF LensInv, InStep
      <3> QED BY <3>1, <3>2, <3>3, <2>1
    <2>4. \A i \in DOMAIN cuts : cuts[i] = IF i <= m THEN hits[i] ELSE total
      <3>1. DOMAIN cuts = 1 .. n
        BY DEF LensInv, LensTypes
      <3> QED BY <3>1 DEF LensInv, InStep
    <2>5. ASSUME total # 0, left = 0
          PROVE  LastOf(cuts) = total /\ n >= m
      <3>1. LastOf(cuts) = total
        <4>1. left = total - LastOf(cuts) /\ LastOf(cuts) \in 0 .. total
          BY <2>5, CutWithin DEF LensInv, InStep
        <4> QED BY <4>1, <2>1, <2>5
      <3>2. ASSUME n < m PROVE FALSE
        <4> DEFINE i == n + 1
        <4>1. i \in 1 .. m
          BY <3>2, <2>1
        <4>2. Gap(i) >= 1 /\ hits[i] <= LastOf(hits) /\ hits[i] \in Nat /\ LastOf(hits) <= total
          BY <4>1, <2>5, LongestIsNat DEF LensInv, LensTypes, Coded
        <4>3. Gap(i) = hits[i] - LastOf(cuts)
          <5>1. CASE n = 0
            BY <5>1, <2>1 DEF Gap, LastOf, LensInv, LensTypes
          <5>2. CASE n # 0
            <6>1. LastOf(cuts) = cuts[n] /\ n \in 1 .. m
              BY <5>2, <3>2, <2>1 DEF LastOf, LensInv, LensTypes
            <6>2. cuts[n] = hits[n]
              BY <6>1, <2>1 DEF LensInv, InStep
            <6>3. i # 1 /\ i - 1 = n
              BY <5>2, <2>1
            <6> QED BY <6>1, <6>2, <6>3 DEF Gap
          <5> QED BY <5>1, <5>2
        <4>4. LastOf(hits) \in Nat
          BY DEF LastOf, LensInv, LensTypes
        <4> HIDE DEF i
        <4> QED BY <3>1, <4>2, <4>3, <4>4, <2>1
      <3> QED BY <3>1, <3>2, <2>1
    <2> QED BY <2>2, <2>3, <2>4, <2>5 DEF CutsWhereHit
  <1> QED BY <1>1, LensInductive, PTL

-------------------------------------------------------------------------------
(* ZipDescriptor: infchk tells the kinds of descriptors apart, for every set of
   words.  The invariant says where the words that count stand, and that only
   one word was changed or all from one on are gone. *)

\* Where the check value and the length of the data stand, of Compared.
CheckAt == IF signed THEN 2 ELSE 1
LengthAt == CheckAt + (IF zip64 THEN 3 ELSE 2)

\* What stands at the places that count.
Right(p) == IF p = CheckAt THEN sums.check ELSE IF p = CheckAt + 1 THEN sums.clen ELSE sums.ulen

DescInv ==
  /\ verdict # "none" => words # <<>>
  /\ signed \in BOOLEAN /\ zip64 \in BOOLEAN
  /\ words # <<>> =>
       /\ 1 .. LengthAt \subseteq DOMAIN words
       /\ \A p \in Compared : p \in damaged <=> words[p] # Right(p)
       /\ damaged = {} /\ signed => words[1] = Sig
       /\ signed /\ words[1] # Sig /\ damaged \cap Compared # {} =>
            \A i \in 1 .. LengthAt : words[i] = 0
  /\ verdict # "none" =>
       LET crc  == Word(Skipped + 1)
           clen == Word(Skipped + 2)
           ulen == Word(Skipped + (IF zip64 THEN 4 ELSE 3))
       IN verdict = "ok" <=> crc = sums.check /\ clen = sums.clen /\ ulen = sums.ulen

-------------------------------------------------------------------------------
LEMMA Joined ==
  ASSUME NEW x \in Seq(Nat), NEW y \in Seq(Nat)
  PROVE  /\ x \o y \in Seq(Nat) /\ Len(x \o y) = Len(x) + Len(y)
         /\ \A i \in 1 .. Len(x) : (x \o y)[i] = x[i]
         /\ \A i \in 1 .. Len(y) : (x \o y)[Len(x) + i] = y[i]
  <1>1. \A i \in 1 .. Len(y) : Len(x) + i \in 1 .. Len(x) + Len(y) /\ Len(x) + i > Len(x)
    OBVIOUS
  <1> QED BY <1>1

\* The signature of d, if it has one, and the words that count are in their places.
Placed(d, s, sig, wide) ==
  LET a == IF sig THEN 2 ELSE 1
      b == a + (IF wide THEN 3 ELSE 2)
  IN /\ d \in Seq(Nat) /\ Len(d) >= b
     /\ sig => d[1] = Sig
     /\ d[a] = s.check /\ d[a + 1] = s.clen /\ d[b] = s.ulen

\* That is where a writer puts them (format.cpp:167-173).
LEMMA DescriptorWords ==
  ASSUME NEW s \in [check : Words, clen : Words, ulen : Words], NEW high \in Highs,
         NEW sig \in BOOLEAN, NEW wide \in BOOLEAN
  PROVE  Placed(Descriptor(s, high, sig, wide), s, sig, wide)
  <1> DEFINE d == Descriptor(s, high, sig, wide)
             a == IF sig THEN 2 ELSE 1
             b == a + (IF wide THEN 3 ELSE 2)
             head == IF sig THEN <<Sig>> ELSE <<>>
             higher == IF wide THEN <<high>> ELSE <<>>
             first == head \o <<s.check, s.clen>>
             second == first \o higher
             third == second \o <<s.ulen>>
             n == Len(head)
             h == Len(higher)
  <1>1. s.check \in Nat /\ s.clen \in Nat /\ s.ulen \in Nat /\ high \in Nat /\ Sig \in Nat
    BY WordsAssumption
  <1>2. /\ head \in Seq(Nat) /\ n = (IF sig THEN 1 ELSE 0) /\ (sig => head[1] = Sig)
        /\ higher \in Seq(Nat) /\ h = (IF wide THEN 1 ELSE 0)
    BY <1>1
  <1>3. d = third \o higher
    BY DEF Descriptor
  <1>4. /\ <<s.check, s.clen>> \in Seq(Nat) /\ Len(<<s.check, s.clen>>) = 2
        /\ <<s.ulen>> \in Seq(Nat) /\ Len(<<s.ulen>>) = 1
    BY <1>1
  <1> HIDE DEF d, head, higher
  <1>5. n \in Nat /\ h \in Nat /\ a = n + 1 /\ b = n + 3 + h
    BY <1>2
  <1>6. /\ first \in Seq(Nat) /\ Len(first) = n + 2
        /\ \A i \in 1 .. n : first[i] = head[i]
        /\ first[n + 1] = s.check /\ first[n + 2] = s.clen
    BY SMTT(30), <1>2, <1>4, Joined
  <1> HIDE DEF first
  <1>7. /\ second \in Seq(Nat) /\ Len(second) = n + 2 + h
        /\ \A i \in 1 .. n + 2 : second[i] = first[i]
    <2>1. Len(second) = Len(first) + Len(higher) /\ second \in Seq(Nat)
      BY <1>2, <1>6, Joined
    <2>2. \A i \in 1 .. Len(first) : second[i] = first[i]
      BY <1>2, <1>6, Joined
    <2> QED BY <2>1, <2>2, <1>5, <1>6
  <1> HIDE DEF second
  <1>8. /\ third \in Seq(Nat) /\ Len(third) = n + 3 + h
        /\ \A i \in 1 .. n + 2 + h : third[i] = second[i]
        /\ third[n + 2 + h + 1] = s.ulen
    BY SMTT(30), <1>4, <1>5, <1>7, Joined
  <1> HIDE DEF third
  <1>9. /\ d \in Seq(Nat) /\ Len(d) >= n + 3 + h
        /\ \A i \in 1 .. n + 3 + h : d[i] = third[i]
    BY <1>2, <1>3, <1>5, <1>8, Joined
  <1> HIDE DEF n, h, a, b
  <1>10. \A i \in 1 .. n + 2 : d[i] = first[i]
    BY SMTT(30), <1>5, <1>7, <1>8, <1>9
  <1>11. d[n + 1] = s.check /\ d[n + 2] = s.clen /\ d[n + 3 + h] = s.ulen
    BY SMTT(30), <1>5, <1>6, <1>8, <1>9, <1>10
  <1>12. ASSUME sig PROVE d[1] = Sig
    <2>1. n = 1 /\ head[1] = Sig
      BY <1>2, <1>12
    <2>2. first[1] = head[1] /\ d[1] = first[1]
      BY <2>1, <1>6, <1>10
    <2> QED BY <2>1, <2>2
  <1> QED BY <1>5, <1>9, <1>11, <1>12 DEF Placed, a, b, d

\* Whether the check value is one of the words that count, and which they are.
LEMMA ComparedAre ==
  ASSUME signed \in BOOLEAN, zip64 \in BOOLEAN
  PROVE  /\ Compared = {CheckAt, CheckAt + 1, LengthAt}
         /\ CheckAt \in 1 .. 2 /\ LengthAt \in CheckAt + 2 .. CheckAt + 3
  BY DEF Compared, CheckAt, LengthAt

LEMMA DescribeStep == DescInv /\ Describe => DescInv'
  <1> SUFFICES ASSUME DescInv, Describe PROVE DescInv'
    OBVIOUS
  <1>0. PICK high \in Highs :
          LET right == Descriptor(sums', high, signed', zip64')
          IN /\ \/ words' = right
                \/ \E i \in DOMAIN right, w \in Words : words' = [right EXCEPT ![i] = w]
                \/ \E n \in DOMAIN right : words' = [i \in DOMAIN right |-> IF i < n THEN right[i] ELSE 0]
             /\ damaged' = {i \in DOMAIN right : words'[i] # right[i]}
    BY DEF Describe
  <1>1. PICK right :
          /\ right = Descriptor(sums', high, signed', zip64')
          /\ \/ words' = right
             \/ \E i \in DOMAIN right, w \in Words : words' = [right EXCEPT ![i] = w]
             \/ \E n \in DOMAIN right : words' = [i \in DOMAIN right |-> IF i < n THEN right[i] ELSE 0]
          /\ damaged' = {i \in DOMAIN right : words'[i] # right[i]}
    BY <1>0
  <1>2. /\ words = <<>> /\ verdict' = verdict /\ verdict = "none"
        /\ signed' \in BOOLEAN /\ zip64' \in BOOLEAN
        /\ sums' \in [check : Words, clen : Words, ulen : Words]
    BY DEF Describe, DescInv
  <1> DEFINE a == CheckAt'
             b == LengthAt'
  <1>3. /\ a \in 1 .. 2 /\ b \in a + 2 .. a + 3 /\ Compared' = {a, a + 1, b}
        /\ a = (IF signed' THEN 2 ELSE 1) /\ b = a + (IF zip64' THEN 3 ELSE 2)
    BY <1>2 DEF CheckAt, LengthAt, Compared
  <1> HIDE DEF a, b
  <1>4. /\ right \in Seq(Nat) /\ Len(right) >= b
        /\ signed' => right[1] = Sig
        /\ right[a] = sums'.check /\ right[a + 1] = sums'.clen /\ right[b] = sums'.ulen
    <2>1. PICK s \in [check : Words, clen : Words, ulen : Words], sig \in BOOLEAN, wide \in BOOLEAN :
            s = sums' /\ sig = signed' /\ wide = zip64'
      BY <1>2
    <2>2. right = Descriptor(s, high, sig, wide)
      BY <1>1, <2>1
    <2>3. Placed(right, s, sig, wide)
      BY <2>2, DescriptorWords
    <2> QED BY <2>1, <2>3, <1>3 DEF Placed
  <1>5. DOMAIN right = 1 .. Len(right) /\ Len(right) \in Nat
    BY <1>4
  <1>6. DOMAIN words' = DOMAIN right
    BY <1>1
  <1>7. \A p \in Compared' : p \in 1 .. b /\ right[p] = Right(p)'
    <2>1. \A p : Right(p)' = IF p = a THEN sums'.check ELSE IF p = a + 1 THEN sums'.clen ELSE sums'.ulen
      BY DEF Right, a
    <2> QED BY <2>1, <1>3, <1>4
  <1>8. 1 .. b \subseteq DOMAIN words'
    BY <1>3, <1>4, <1>5, <1>6
  <1>9. words' # <<>>
    <2>1. 1 \in DOMAIN words'
      BY <1>3, <1>8
    <2> QED BY <2>1
  <1>10. \A p \in Compared' : p \in damaged' <=> words'[p] # Right(p)'
    BY <1>1, <1>6, <1>7, <1>8
  <1>11. damaged' = {} /\ signed' => words'[1] = Sig
    <2>1. 1 \in DOMAIN right
      BY <1>3, <1>6, <1>8
    <2> QED BY <1>1, <1>4, <2>1
  <1>12. ASSUME signed', words'[1] # Sig, damaged' \cap Compared' # {}
         PROVE  \A i \in 1 .. b : words'[i] = 0
    <2>1. 1 \in DOMAIN right /\ a = 2
      BY <1>3, <1>6, <1>8, <1>12
    <2>2. words' # right
      BY <1>1, <1>12
    <2>3. ASSUME NEW i \in DOMAIN right, NEW w \in Words, words' = [right EXCEPT ![i] = w]
          PROVE  FALSE
      <3>1. i = 1
        BY <2>1, <2>3, <1>4, <1>12
      <3>2. \A p \in Compared' : words'[p] = right[p]
        BY <2>1, <2>3, <3>1, <1>3, <1>7, <1>5, <1>4
      <3> QED BY <3>2, <1>1, <1>12
    <2>4. PICK n \in DOMAIN right : words' = [i \in DOMAIN right |-> IF i < n THEN right[i] ELSE 0]
      BY <1>1, <2>2, <2>3
    <2>5. n = 1
      BY <2>1, <2>4, <1>4, <1>5, <1>12
    <2> QED BY <2>4, <2>5, <1>6, <1>8, <1>3, <1>5
  <1> QED
    BY <1>2, <1>8, <1>9, <1>10, <1>11, <1>12 DEF DescInv, a, b

\* Infchk's guess is right but for the data whose check value is the signature: it
\* looks at the words that count (decompress.cpp:428-451).
LEMMA GuessIsRight ==
  ASSUME DescInv, words # <<>>, ~Ambiguous, ~signed \/ words[1] = Sig
  PROVE  Skipped + 1 = CheckAt /\ Word(1) = words[1]
  <1>1. 1 \in DOMAIN words /\ signed \in BOOLEAN
    BY DEF DescInv, LengthAt, CheckAt
  <1>2. Word(1) = words[1]
    BY <1>1 DEF Word
  <1> QED BY <1>1, <1>2 DEF Skipped, CheckAt, Ambiguous

LEMMA VerifyDoes ==
  ASSUME Verify
  PROVE  /\ words' = words /\ signed' = signed /\ zip64' = zip64 /\ sums' = sums /\ damaged' = damaged
         /\ words # <<>>
         /\ verdict' = "ok" <=> /\ Word(Skipped + 1) = sums.check /\ Word(Skipped + 2) = sums.clen
                                /\ Word(Skipped + (IF zip64 THEN 4 ELSE 3)) = sums.ulen
  BY DEF Verify

LEMMA VerifyStep == DescInv /\ Verify => DescInv'
  <1> SUFFICES ASSUME DescInv, Verify PROVE DescInv'
    OBVIOUS
  <1>1. /\ words' = words /\ signed' = signed /\ zip64' = zip64 /\ sums' = sums /\ damaged' = damaged
        /\ words # <<>>
    BY VerifyDoes
  <1>2. /\ Word(Skipped + 1)' = Word(Skipped + 1) /\ Word(Skipped + 2)' = Word(Skipped + 2)
        /\ Word(Skipped + (IF zip64 THEN 4 ELSE 3))' = Word(Skipped + (IF zip64 THEN 4 ELSE 3))
    BY <1>1 DEF Word, Skipped
  <1>3. verdict' = "ok" <=> /\ Word(Skipped + 1) = sums.check /\ Word(Skipped + 2) = sums.clen
                            /\ Word(Skipped + (IF zip64 THEN 4 ELSE 3)) = sums.ulen
    BY VerifyDoes
  <1>4. /\ LengthAt' = LengthAt /\ Compared' = Compared
        /\ \A p : Right(p)' = Right(p)
    BY <1>1 DEF LengthAt, CheckAt, Compared, Right
  <1> QED BY <1>1, <1>2, <1>3, <1>4 DEF DescInv

LEMMA DescInductive == DescSpec => []DescInv
  <1>1. DescInit => DescInv
    BY DEF DescInit, DescInv
  <1>2. DescInv /\ UNCHANGED descVars => DescInv'
    BY DEF descVars, DescInv, Word, Skipped, Compared, Right, LengthAt, CheckAt
  <1> QED BY <1>1, <1>2, DescribeStep, VerifyStep, PTL DEF DescSpec, DescNext

\* For every set of words and every signature, each kind of descriptor is accepted
\* as it was written and refused with a word that counts changed or missing
\* (decompress.cpp:428-451, format.cpp:167-173).
THEOREM DescriptorAlwaysChecked == DescSpec => []DescriptorChecked
  <1>1. DescInv => DescriptorChecked
    <2> SUFFICES ASSUME DescInv, verdict # "none", ~Ambiguous
                 PROVE  /\ damaged = {} => verdict = "ok"
                        /\ damaged \cap Compared # {} => verdict # "ok"
      BY DEF DescriptorChecked
    <2>1. words # <<>> /\ signed \in BOOLEAN /\ zip64 \in BOOLEAN
      BY DEF DescInv
    <2>2. verdict = "ok" <=> /\ Word(Skipped + 1) = sums.check /\ Word(Skipped + 2) = sums.clen
                             /\ Word(Skipped + (IF zip64 THEN 4 ELSE 3)) = sums.ulen
      BY DEF DescInv
    <2>3. /\ Compared = {CheckAt, CheckAt + 1, LengthAt}
          /\ CheckAt \in 1 .. 2 /\ LengthAt \in CheckAt + 2 .. CheckAt + 3
      BY <2>1, ComparedAre
    <2>4. \A p \in 1 .. LengthAt : Word(p) = words[p]
      BY <2>1 DEF Word, DescInv
    <2>5. /\ Right(CheckAt) = sums.check /\ Right(CheckAt + 1) = sums.clen /\ Right(LengthAt) = sums.ulen
      BY <2>3 DEF Right
    <2>6. ASSUME ~signed \/ words[1] = Sig
          PROVE  verdict = "ok" <=> damaged \cap Compared = {}
      <3>1. Skipped + 1 = CheckAt
        BY <2>1, <2>6, GuessIsRight
      <3>2. Skipped \in 0 .. 1
        BY DEF Skipped
      <3>3. Skipped + 2 = CheckAt + 1 /\ Skipped + (IF zip64 THEN 4 ELSE 3) = LengthAt
        BY <3>1, <3>2, <2>1 DEF LengthAt
      <3>4. /\ CheckAt \in 1 .. LengthAt /\ CheckAt + 1 \in 1 .. LengthAt /\ LengthAt \in 1 .. LengthAt
        BY <2>3
      <3>5. verdict = "ok" <=> \A p \in Compared : words[p] = Right(p)
        BY <2>2, <2>3, <2>4, <2>5, <3>1, <3>3, <3>4
      <3> QED BY <3>5, <2>1 DEF DescInv
    <2>7. ASSUME signed, words[1] # Sig
          PROVE  damaged # {} /\ (damaged \cap Compared # {} => verdict # "ok")
      <3>1. damaged # {}
        BY <2>1, <2>7 DEF DescInv
      <3>2. ASSUME damaged \cap Compared # {}, verdict = "ok"
            PROVE  FALSE
        <4>1. \A i \in 1 .. LengthAt : words[i] = 0
          BY <2>1, <2>7, <3>2 DEF DescInv
        <4>2. Skipped = 0
          <5>1. 1 \in 1 .. LengthAt
            BY <2>3
          <5> QED BY <5>1, <2>4, <2>7 DEF Skipped
        <4>3. 1 \in 1 .. LengthAt /\ 2 \in 1 .. LengthAt /\ (IF zip64 THEN 4 ELSE 3) \in 1 .. LengthAt
          BY <2>1, <2>3, <2>7 DEF LengthAt, CheckAt
        <4>4. sums.check = 0 /\ sums.clen = 0 /\ sums.ulen = 0
          <5>1. Word(1) = sums.check /\ Word(2) = sums.clen /\ Word(IF zip64 THEN 4 ELSE 3) = sums.ulen
            BY <2>1, <2>2, <3>2, <4>2
          <5> QED BY <5>1, <4>1, <4>3, <2>4
        <4>5. \A p \in Compared : p \in 1 .. LengthAt /\ Right(p) = 0
          BY <4>4, <2>3, <2>5
        <4>6. \A p \in Compared : words[p] = Right(p)
          BY <4>1, <4>5
        <4> QED BY <4>6, <3>2, <2>1 DEF DescInv
      <3> QED BY <3>1, <3>2
    <2> QED BY <2>1, <2>6, <2>7
  <1> QED BY <1>1, DescInductive, PTL

-------------------------------------------------------------------------------
(* ZipLayout: an archive lists exactly its members, for fields of any width, any
   lengths and any number of members, also when it was appended to many times.

   As long as the names, the notes and the comments fit their fields, what is on
   the disk is a directory of the members that were made.  Written says so: from
   place d on there is an entry for each of them, and no other, the i-th between
   p[i - 1] and p[i], and the end record, or the one its locator leads to, tells
   d, the number of the entries and what they take.  The reader can therefore
   only find the entries one after the other, and a writer that appends starts
   from where it would have been. *)

Members == [name : Nat, ulen : Nat, clen : Nat, offset : Nat, note : Nat]

\* The numbers a record holds are natural.
Natural(r) ==
  /\ r.kind \in {"local", "central", "end64", "locator", "end"} /\ r.at \in Nat
  /\ r.kind \in {"end", "end64"} => r.count \in Nat /\ r.size \in Nat /\ r.offset \in Nat
  /\ r.kind = "central" => /\ r.name \in Nat /\ r.extra \in Nat /\ r.note \in Nat
                           /\ r.clen \in Nat /\ r.ulen \in Nat /\ r.offset \in Nat
                           /\ r.values \in Seq(Nat)

\* The types of the variables.
LayoutType ==
  /\ pc \in {"open", "read", "list", "done", "refused"}
  /\ made \in Seq(Members) /\ entries \in Seq(Members) /\ found \in Seq(Members)
  /\ inTail \in BOOLEAN /\ size \in Nat /\ pos \in Nat
  /\ end \in [count : Nat, size : Nat, offset : Nat]
  /\ \A r \in file : Natural(r)

\* The records of a kind.
Kind(kind) == {r \in file : r.kind = kind}

\* The members are before place d, each behind a header that tells its place.
Before(d) ==
  /\ \A r \in file : r.kind = "local" => r.at < d /\ r.ends = r.at + 30 + r.name + r.extra
  /\ \A i \in 1 .. Len(made) : \E r \in Kind("local") : r.at = made[i].offset

\* Entry c is that of the i-th member.
EntryOf(c, i, d, p) ==
  /\ c.at = d + p[i - 1] /\ p[i] = p[i - 1] + Extent(c) /\ Resolved(c) = made[i]

\* The directory of the members is at place d, and its entries end at p.
Listing(d, p) ==
  /\ p \in [0 .. Len(made) -> Nat] /\ p[0] = 0
  /\ \A i \in 1 .. Len(made) : \E c \in Kind("central") : EntryOf(c, i, d, p)
  /\ \A c \in Kind("central") : \E i \in 1 .. Len(made) : EntryOf(c, i, d, p)

\* The number, the size and the place of the entries are those of e.
Tells(e, d, p) == e.count = Len(made) /\ e.size = p[Len(made)] /\ e.offset = d

\* The one end record is where it is searched, and leads to the directory.
Leads(d, p) ==
  \E e \in Kind("end"), n \in Nat :
    /\ Kind("end") = {e} /\ size = e.at + 22 + n /\ e.at >= d + p[Len(made)]
    /\ \/ Kind("locator") = {} /\ Tells(e, d, p) /\ Follow(n, FALSE) <= MaxShort
       \/ \E l \in Kind("locator"), t \in Kind("end64") :
            /\ Kind("locator") = {l} /\ Kind("end64") = {t} /\ Saturated(e)
            /\ e.at = l.at + 20 /\ t.at = l.off /\ Tells(t, d, p) /\ Follow(n, TRUE) <= MaxShort

\* The archive is finished, and what has been read of it is what was written.
Written(d, p) ==
  /\ d \in Nat /\ Before(d) /\ Listing(d, p) /\ Leads(d, p)
  /\ \A r \in file : r.kind # "local" => r.at >= d
  /\ pc \in {"list", "done"} =>
       /\ end = [count |-> Len(made), size |-> p[Len(made)], offset |-> d]
       /\ Len(found) <= Len(made) /\ pos = p[Len(found)]
       /\ \A i \in 1 .. Len(found) : found[i] = made[i]
  /\ pc = "done" => Len(found) = Len(made)

\* The writer lists what was made, and so does the file.
AsMade ==
  /\ pc # "refused"
  /\ pc = "open" => entries = made /\ Before(size) /\ file = Kind("local")
  /\ pc \in {"read", "list", "done"} => \E d, p : Written(d, p)

\* p is where the first n entries of the directory of es end.
Placing(p, es, n) == \A i \in 0 .. n : p[i] = IF i = 0 THEN 0 ELSE p[i - 1] + EntrySize(es[i])

-------------------------------------------------------------------------------
(* Where the entries end is a sum, and what a field holds can be read. *)


\* A set of natural numbers that is not empty has a least element.
LEMMA LeastNat ==
  ASSUME NEW T \in SUBSET Nat, T # {}
  PROVE  \E n \in T : \A m \in T : n <= m
  <1>1. IsWellFoundedOn(OpToRel(<, Nat), Nat)
    BY NatLessThanWellFounded
  <1>2. PICK n \in T : \A m \in Nat : <<m, n>> \in OpToRel(<, Nat) => m \notin T
    BY <1>1, WFMin
  <1>3. \A m \in T : ~(m < n)
    BY <1>2 DEF OpToRel
  <1> QED BY <1>3

\* A field holds what is not too large for it.
LEMMA FieldHolds ==
  ASSUME NEW v \in Nat, NEW most \in Nat
  PROVE  Field(v, most) \in Nat /\ (v <= most => Field(v, most) = v)
  <1> QED BY DEF Field

\* An entry takes at least 46 bytes.
LEMMA EntrySizeNat ==
  ASSUME NEW e \in Members
  PROVE  /\ Extra64(e) \in Seq(Nat) /\ ExtraSize(Extra64(e)) \in Nat
         /\ EntrySize(e) \in Nat /\ EntrySize(e) >= 46
  <1>1. Extra64(e) \in Seq(Nat)
    BY DEF Extra64, Members
  <1>2. ExtraSize(Extra64(e)) \in Nat
    <2>1. Len(Extra64(e)) \in Nat
      BY <1>1
    <2> QED BY <2>1 DEF ExtraSize
  <1> QED BY <1>1, <1>2 DEF EntrySize, Members

\* There is a function that says where the entries end.
LEMMA PlacesExist ==
  ASSUME NEW es \in Seq(Members)
  PROVE  \E p \in [0 .. Len(es) -> Nat] : Placing(p, es, Len(es))
  <1> DEFINE T == {n \in 0 .. Len(es) : ~ \E p \in [0 .. n -> Nat] : Placing(p, es, n)}
  <1>1. 0 \notin T
    <2>1. [i \in 0 .. 0 |-> 0] \in [0 .. 0 -> Nat] /\ Placing([i \in 0 .. 0 |-> 0], es, 0)
      BY DEF Placing
    <2> QED BY <2>1
  <1>2. ASSUME NEW n \in 1 .. Len(es), n - 1 \notin T PROVE n \notin T
    <2>1. PICK p \in [0 .. n - 1 -> Nat] : Placing(p, es, n - 1)
      BY <1>2
    <2> DEFINE q == [i \in 0 .. n |-> IF i = n THEN p[n - 1] + EntrySize(es[n]) ELSE p[i]]
    <2>2. es[n] \in Members /\ n - 1 \in 0 .. n - 1
      OBVIOUS
    <2>3. p[n - 1] + EntrySize(es[n]) \in Nat
      <3>1. EntrySize(es[n]) \in Nat
        BY <2>2, EntrySizeNat
      <3>2. p[n - 1] \in Nat
        BY <2>2
      <3> QED BY <3>1, <3>2
    <2>4. q \in [0 .. n -> Nat]
      BY <2>3
    <2>5. Placing(q, es, n)
      BY <2>1 DEF Placing
    <2> QED BY <2>4, <2>5
  <1>3. T = {}
    <2> SUFFICES ASSUME T # {} PROVE FALSE
      OBVIOUS
    <2>1. T \in SUBSET Nat /\ T \subseteq 0 .. Len(es)
      OBVIOUS
    <2> HIDE DEF T
    <2>2. PICK n \in T : \A m \in T : n <= m
      BY <2>1, LeastNat
    <2>3. n \in 1 .. Len(es) /\ n - 1 \notin T
      BY <1>1, <2>1, <2>2
    <2> QED BY <1>2, <2>2, <2>3
  <1>4. Len(es) \notin T /\ Len(es) \in 0 .. Len(es)
    BY <1>3
  <1> QED BY <1>4

\* Ends is such a function.
LEMMA EndsPlace ==
  ASSUME NEW es \in Seq(Members)
  PROVE  Placing(Ends(es), es, Len(es)) /\ DOMAIN Ends(es) = 0 .. Len(es)
  <1> DEFINE Step(p) == [n \in 0 .. Len(es) |-> IF n = 0 THEN 0 ELSE p[n - 1] + EntrySize(es[n])]
  <1>1. PICK p \in [0 .. Len(es) -> Nat] : Placing(p, es, Len(es))
    BY PlacesExist
  <1>2. p = Step(p)
    BY <1>1 DEF Placing
  <1>3. Ends(es) = CHOOSE q : q = Step(q)
    BY DEF Ends
  <1>4. Ends(es) = Step(Ends(es))
    BY <1>2, <1>3
  <1> DEFINE q == Ends(es)
  <1>5. q = Step(q)
    BY <1>4
  <1> HIDE DEF q
  <1>6. DOMAIN q = 0 .. Len(es)
    BY <1>5
  <1>7. \A n \in 0 .. Len(es) : q[n] = IF n = 0 THEN 0 ELSE q[n - 1] + EntrySize(es[n])
    BY <1>5
  <1> QED BY <1>6, <1>7 DEF q, Placing

\* Whatever says where the entries end, they end at places.
LEMMA PlacesAreNat ==
  ASSUME NEW es \in Seq(Members), NEW p, Placing(p, es, Len(es))
  PROVE  \A n \in 0 .. Len(es) : p[n] \in Nat
  <1> DEFINE T == {n \in 0 .. Len(es) : p[n] \notin Nat}
  <1> SUFFICES ASSUME T # {} PROVE FALSE
    OBVIOUS
  <1>1. PICK n \in T : \A m \in T : n <= m
    <2>1. T \in SUBSET Nat
      OBVIOUS
    <2> HIDE DEF T
    <2> QED BY <2>1, LeastNat
  <1>2. n \in 1 .. Len(es) /\ p[n - 1] \in Nat
    <2>1. p[0] = 0
      BY DEF Placing
    <2>2. n # 0
      BY <2>1, <1>1
    <2>3. n - 1 \in 0 .. Len(es) /\ n - 1 \notin T
      <3>1. n \in 0 .. Len(es)
        OBVIOUS
      <3> HIDE DEF T
      <3> QED BY <3>1, <2>2, <1>1
    <2> QED BY <2>2, <2>3
  <1>3. es[n] \in Members
    BY <1>2
  <1>4. p[n] = p[n - 1] + EntrySize(es[n])
    BY <1>2 DEF Placing
  <1>5. EntrySize(es[n]) \in Nat
    BY <1>3, EntrySizeNat
  <1> QED BY <1>2, <1>4, <1>5

\* An entry holds numbers.
LEMMA CentralTyped ==
  ASSUME NEW e \in Members, NEW at \in Nat
  PROVE  Natural(Central(at, e)) /\ Central(at, e).kind = "central"
  <1>0. Low32 \in Nat /\ MaxShort \in Nat
    BY WidthsAssumption
  <1>1. \A v \in Nat : Narrow(v) \in Nat
    BY <1>0 DEF Narrow
  <1>2. Field(e.name, MaxShort) \in Nat /\ Field(e.note, MaxShort) \in Nat
    BY <1>0, FieldHolds DEF Members
  <1>3. ExtraSize(Extra64(e)) \in Nat /\ Extra64(e) \in Seq(Nat)
    BY EntrySizeNat
  <1>4. Narrow(e.clen) \in Nat /\ Narrow(e.ulen) \in Nat /\ Narrow(e.offset) \in Nat
    BY <1>1 DEF Members
  <1>5. (IF e.name <= MaxShort THEN Extra64(e) ELSE <<>>) \in Seq(Nat)
    BY <1>3
  <1> HIDE DEF Members
  <1> QED BY <1>2, <1>3, <1>4, <1>5 DEF Central, Natural

\* Two and three values, one after the other.
Holds2(s, a, b) == s \in Seq(Nat) /\ Len(s) = 2 /\ s[1] = a /\ s[2] = b
Holds3(s, a, b, c) == Len(s) = 3 /\ s[1] = a /\ s[2] = b /\ s[3] = c

LEMMA Values ==
  ASSUME NEW a \in Nat, NEW b \in Nat, NEW c \in Nat
  PROVE  /\ Holds2(<<a>> \o <<b>>, a, b)
         /\ Holds3((<<a>> \o <<b>>) \o <<c>>, a, b, c)
         /\ \A s \in Seq(Nat) : <<>> \o s = s /\ s \o <<>> = s
  <1>1. Holds2(<<a>> \o <<b>>, a, b)
    <2>1. <<a>> \in Seq(Nat) /\ <<b>> \in Seq(Nat) /\ Len(<<a>>) = 1 /\ Len(<<b>>) = 1
      OBVIOUS
    <2> QED BY <2>1, Joined DEF Holds2
  <1>2. Holds3((<<a>> \o <<b>>) \o <<c>>, a, b, c)
    <2> DEFINE s == <<a>> \o <<b>>
    <2>1. <<c>> \in Seq(Nat) /\ Len(<<c>>) = 1 /\ <<c>>[1] = c
      OBVIOUS
    <2>2. Holds2(s, a, b)
      BY <1>1
    <2> HIDE DEF s
    <2> DEFINE u == <<c>>
    <2>3. u \in Seq(Nat) /\ Len(u) = 1 /\ u[1] = c
      BY <2>1
    <2> HIDE DEF u
    <2>4. /\ Len(s \o u) = Len(s) + Len(u) /\ \A i \in 1 .. Len(s) : (s \o u)[i] = s[i]
          /\ \A i \in 1 .. Len(u) : (s \o u)[Len(s) + i] = u[i]
      BY <2>2, <2>3, Joined DEF Holds2
    <2>5. Holds3(s \o u, a, b, c)
      BY <2>2, <2>3, <2>4 DEF Holds2, Holds3
    <2> QED BY <2>5 DEF s, u
  <1>3. \A s \in Seq(Nat) : <<>> \o s = s /\ s \o <<>> = s
    OBVIOUS
  <1> QED BY <1>1, <1>2, <1>3

\* The reader makes of an entry what the writer made it of.
LEMMA CentralRead ==
  ASSUME NEW e \in Members, NEW at \in Nat, e.name <= MaxShort, e.note <= MaxShort
  PROVE  Resolved(Central(at, e)) = e /\ Extent(Central(at, e)) = EntrySize(e)
  <1>0. Low32 \in Nat /\ MaxShort \in Nat
    BY WidthsAssumption
  <1> DEFINE c == Central(at, e)
  <1>1. Field(e.name, MaxShort) = e.name /\ Field(e.note, MaxShort) = e.note
    BY <1>0, FieldHolds DEF Members
  <1>2. /\ c.clen = Narrow(e.clen) /\ c.ulen = Narrow(e.ulen) /\ c.offset = Narrow(e.offset)
        /\ c.name = e.name /\ c.note = e.note /\ c.extra = ExtraSize(Extra64(e))
        /\ c.values = Extra64(e)
    BY <1>1 DEF Central
  <1> HIDE DEF c
  <1>3. \A v \in Nat : Narrow(v) = Low32 <=> Wide(v)
    BY <1>0 DEF Narrow, Wide
  <1>4. e.ulen \in Nat /\ e.clen \in Nat /\ e.offset \in Nat
    BY DEF Members
  <1> DEFINE full(v)    == IF v = Low32 THEN 1 ELSE 0
             take(v, i) == IF v = Low32 /\ i <= Len(c.values) THEN c.values[i] ELSE v
  <1>5. /\ take(c.ulen, 1) = e.ulen
        /\ take(c.clen, 1 + full(c.ulen)) = e.clen
        /\ take(c.offset, 1 + full(c.ulen) + full(c.clen)) = e.offset
    <2>1. CASE Wide(e.ulen) /\ Wide(e.clen) /\ Wide(e.offset)
      <3>1. Holds3(c.values, e.ulen, e.clen, e.offset)
        BY <1>2, <2>1, <1>4, Values DEF Extra64
      <3> QED BY <1>2, <1>3, <1>4, <2>1, <3>1 DEF Narrow, Holds2, Holds3
    <2>2. CASE Wide(e.ulen) /\ Wide(e.clen) /\ ~ Wide(e.offset)
      <3>1. Holds2(c.values, e.ulen, e.clen)
        BY <1>2, <2>2, <1>4, Values DEF Extra64
      <3> QED BY <1>2, <1>3, <1>4, <2>2, <3>1 DEF Narrow, Holds2, Holds3
    <2>3. CASE Wide(e.ulen) /\ ~ Wide(e.clen) /\ Wide(e.offset)
      <3>1. Holds2(c.values, e.ulen, e.offset)
        <4>1. c.values = (<<e.ulen>> \o <<>>) \o <<e.offset>>
          BY <1>2, <2>3 DEF Extra64
        <4>2. <<e.ulen>> \in Seq(Nat)
          BY <1>4
        <4>3. (<<e.ulen>> \o <<>>) = <<e.ulen>>
          BY <4>2, Values
        <4> QED BY <1>4, <4>1, <4>3, Values
      <3> QED BY <1>2, <1>3, <1>4, <2>3, <3>1 DEF Narrow, Holds2, Holds3
    <2>4. CASE Wide(e.ulen) /\ ~ Wide(e.clen) /\ ~ Wide(e.offset)
      <3>1. c.values = <<e.ulen>>
        BY <1>2, <2>4 DEF Extra64
      <3> QED BY <1>2, <1>3, <1>4, <2>4, <3>1 DEF Narrow
    <2>5. CASE ~ Wide(e.ulen) /\ Wide(e.clen) /\ Wide(e.offset)
      <3>1. Holds2(c.values, e.clen, e.offset)
        <4>1. c.values = (<<>> \o <<e.clen>>) \o <<e.offset>>
          BY <1>2, <2>5 DEF Extra64
        <4>2. <<e.clen>> \in Seq(Nat)
          BY <1>4
        <4>3. (<<>> \o <<e.clen>>) = <<e.clen>>
          BY <4>2, Values
        <4> QED BY <1>4, <4>1, <4>3, Values
      <3> QED BY <1>2, <1>3, <1>4, <2>5, <3>1 DEF Narrow, Holds2, Holds3
    <2>6. CASE ~ Wide(e.ulen) /\ Wide(e.clen) /\ ~ Wide(e.offset)
      <3>1. c.values = <<e.clen>>
        BY <1>2, <2>6 DEF Extra64
      <3> QED BY <1>2, <1>3, <1>4, <2>6, <3>1 DEF Narrow
    <2>7. CASE ~ Wide(e.ulen) /\ ~ Wide(e.clen) /\ Wide(e.offset)
      <3>1. c.values = <<e.offset>>
        BY <1>2, <2>7 DEF Extra64
      <3> QED BY <1>2, <1>3, <1>4, <2>7, <3>1 DEF Narrow
    <2>8. CASE ~ Wide(e.ulen) /\ ~ Wide(e.clen) /\ ~ Wide(e.offset)
      <3> QED BY <1>2, <1>3, <1>4, <2>8 DEF Narrow
    <2> QED BY <2>1, <2>2, <2>3, <2>4, <2>5, <2>6, <2>7, <2>8
  <1>6. Resolved(c) = Member(e.name, e.ulen, e.clen, e.offset, e.note)
    BY <1>2, <1>5 DEF Resolved
  <1>7. Member(e.name, e.ulen, e.clen, e.offset, e.note) = e
    BY DEF Member, Members
  <1> QED BY <1>2, <1>6, <1>7 DEF c, Extent, EntrySize

\* What is read of an entry, whatever it holds, are numbers.
LEMMA ResolvedTyped ==
  ASSUME \A r \in file : Natural(r), NEW c \in Kind("central")
  PROVE  Resolved(c) \in Members /\ Extent(c) \in Nat /\ Extent(c) >= 46 /\ c.at \in Nat
  <1>1. /\ c.name \in Nat /\ c.extra \in Nat /\ c.note \in Nat /\ c.at \in Nat
        /\ c.clen \in Nat /\ c.ulen \in Nat /\ c.offset \in Nat /\ c.values \in Seq(Nat)
    BY DEF Natural, Kind
  <1> DEFINE take(v, i) == IF v = Low32 /\ i <= Len(c.values) THEN c.values[i] ELSE v
  <1>2. \A v \in Nat, i \in Nat \ {0} : take(v, i) \in Nat
    BY <1>1
  <1> DEFINE full(v) == IF v = Low32 THEN 1 ELSE 0
  <1>3. 1 \in Nat \ {0} /\ 1 + full(c.ulen) \in Nat \ {0} /\ 1 + full(c.ulen) + full(c.clen) \in Nat \ {0}
    OBVIOUS
  <1>4. /\ take(c.ulen, 1) \in Nat /\ take(c.clen, 1 + full(c.ulen)) \in Nat
        /\ take(c.offset, 1 + full(c.ulen) + full(c.clen)) \in Nat
    BY <1>1, <1>2, <1>3
  <1>5. Resolved(c) = Member(c.name, take(c.ulen, 1), take(c.clen, 1 + full(c.ulen)),
                             take(c.offset, 1 + full(c.ulen) + full(c.clen)), c.note)
    BY DEF Resolved
  <1> HIDE DEF take, full
  <1>6. Resolved(c) \in Members
    BY <1>1, <1>4, <1>5 DEF Member, Members
  <1> QED BY SMTT(30), <1>1, <1>6 DEF Extent

\* The places of the entries are in their order.
LEMMA PlacesRise ==
  ASSUME NEW n \in Nat, NEW p \in [0 .. n -> Nat], \A i \in 1 .. n : p[i] >= p[i - 1] + 46
  PROVE  \A i, j \in 0 .. n : i < j => p[i] + 46 <= p[j]
  <1> DEFINE T == {j \in 0 .. n : \E i \in 0 .. n : i < j /\ ~ (p[i] + 46 <= p[j])}
  <1> SUFFICES ASSUME T # {} PROVE FALSE
    OBVIOUS
  <1>1. PICK j \in T : \A m \in T : j <= m
    <2>1. T \in SUBSET Nat
      OBVIOUS
    <2> HIDE DEF T
    <2> QED BY <2>1, LeastNat
  <1>2. PICK i \in 0 .. n : i < j /\ ~ (p[i] + 46 <= p[j])
    OBVIOUS
  <1>3. j \in 1 .. n /\ j - 1 \in 0 .. n /\ p[j] >= p[j - 1] + 46
    BY <1>2
  <1>4. j - 1 \notin T
    <2>1. j \in Nat
      OBVIOUS
    <2> HIDE DEF T
    <2> QED BY <1>1, <2>1
  <1>5. CASE i = j - 1
    BY <1>2, <1>3, <1>5
  <1>6. CASE i < j - 1
    <2>1. p[i] + 46 <= p[j - 1]
      BY <1>3, <1>4, <1>6
    <2>2. p[i] \in Nat /\ p[j] \in Nat /\ p[j - 1] \in Nat
      BY <1>3
    <2> QED BY <1>2, <1>3, <2>1, <2>2
  <1> QED BY <1>2, <1>3, <1>5, <1>6

\* What is known of Ends.
LEMMA EndsAreNat ==
  ASSUME NEW es \in Seq(Members)
  PROVE  /\ Ends(es) \in [0 .. Len(es) -> Nat] /\ Ends(es)[0] = 0
         /\ \A i \in 1 .. Len(es) : Ends(es)[i] = Ends(es)[i - 1] + EntrySize(es[i])
  <1> DEFINE q == Ends(es)
  <1>1. Placing(q, es, Len(es)) /\ DOMAIN q = 0 .. Len(es)
    BY EndsPlace
  <1>2. \A n \in 0 .. Len(es) : q[n] \in Nat
    BY <1>1, PlacesAreNat
  <1>3. Ends(es) = [n \in 0 .. Len(es) |-> Ends(es)[n]]
    BY <1>1 DEF Ends
  <1> HIDE DEF q
  <1>4. q = [n \in 0 .. Len(es) |-> q[n]]
    BY <1>3 DEF q
  <1>5. q \in [0 .. Len(es) -> Nat]
    BY <1>2, <1>4
  <1>6. q[0] = 0 /\ \A i \in 1 .. Len(es) : q[i] = q[i - 1] + EntrySize(es[i])
    BY <1>1 DEF Placing
  <1> QED BY <1>5, <1>6 DEF q

-------------------------------------------------------------------------------
(* The types. *)

LEMMA AddType == LayoutType /\ Add => LayoutType'
  <1> SUFFICES ASSUME LayoutType, Add PROVE LayoutType'
    OBVIOUS
  <1>1. PICK name \in Names, ulen \in Lengths, clen \in Lengths, note \in Notes :
          LET e == Member(name, ulen, clen, size, note)
          IN /\ made' = Append(made, e) /\ entries' = Append(entries, e)
             /\ Put({Local(e, LocalExtra(e))}, 30 + name + LocalExtra(e) + clen)
    BY DEF Add
  <1> DEFINE e == Member(name, ulen, clen, size, note)
  <1>2. name \in Nat /\ ulen \in Nat /\ clen \in Nat /\ note \in Nat /\ size \in Nat
    BY LengthsAssumption DEF LayoutType
  <1>3. e \in Members /\ e.offset = size
    BY <1>2 DEF Member, Members
  <1>4. LocalExtra(e) \in Nat
    BY DEF LocalExtra
  <1>5. Natural(Local(e, LocalExtra(e)))
    BY <1>2, <1>3 DEF Local, Natural
  <1>6. /\ made' \in Seq(Members) /\ entries' \in Seq(Members) /\ size' \in Nat
        /\ file' = file \cup {Local(e, LocalExtra(e))}
    BY SMTT(30), <1>1, <1>2, <1>3, <1>4 DEF LayoutType, Put
  <1> HIDE DEF e
  <1>7. \A r \in file' : Natural(r)
    BY <1>5, <1>6 DEF LayoutType
  <1> QED BY <1>6, <1>7 DEF LayoutType, Add

LEMMA FinishType == LayoutType /\ Finish => LayoutType'
  <1> SUFFICES ASSUME LayoutType, Finish PROVE LayoutType'
    OBVIOUS
  <1> DEFINE count  == Len(entries)
             cdSize == Ends(entries)[count]
             after  == size + cdSize
             z64    == Beyond16(count) \/ Wide(cdSize) \/ Wide(size)
             tail   == IF z64 THEN 76 ELSE 0
             last   == EndOf(after + tail, Smaller(count, MaxCount), Narrow(cdSize), Narrow(size))
             e64    == End64(after, count, cdSize, size)
             loc    == Locator(after + 56, after)
  <1>1. PICK comment \in Comments :
          /\ Put(Directory(size, entries) \cup (IF z64 THEN {e64, loc} ELSE {}) \cup {last},
                 cdSize + tail + 22 + comment)
          /\ inTail' = (inTail /\ Follow(comment, z64) <= MaxShort)
    BY DEF Finish
  <1>2. comment \in Nat /\ Low32 \in Nat /\ MaxCount \in Nat /\ size \in Nat /\ entries \in Seq(Members)
        /\ count \in Nat
    BY LengthsAssumption, WidthsAssumption DEF LayoutType
  <1>3. Ends(entries) \in [0 .. count -> Nat]
    BY <1>2, EndsAreNat
  <1>4. cdSize \in Nat /\ after \in Nat /\ tail \in Nat
    BY <1>2, <1>3
  <1>5. Smaller(count, MaxCount) \in Nat /\ Narrow(cdSize) \in Nat /\ Narrow(size) \in Nat
    BY <1>2, <1>4 DEF Smaller, Narrow
  <1>6. Natural(last) /\ Natural(e64) /\ Natural(loc)
    BY SMTT(30), <1>2, <1>4, <1>5 DEF EndOf, End64, Locator, Natural
  <1>7. ASSUME NEW c \in Directory(size, entries) PROVE Natural(c)
    <2>1. PICK i \in 1 .. Len(entries) : c = Central(size + Ends(entries)[i - 1], entries[i])
      BY <1>2 DEF Directory
    <2>2. i - 1 \in 0 .. count /\ entries[i] \in Members
      BY <1>2, <2>1
    <2>3. size + Ends(entries)[i - 1] \in Nat
      BY <1>2, <1>3, <2>2
    <2> QED BY <2>1, <2>2, <2>3, CentralTyped
  <1>8. /\ file' = file \cup (Directory(size, entries) \cup (IF z64 THEN {e64, loc} ELSE {}) \cup {last})
        /\ size' = size + (cdSize + tail + 22 + comment)
    BY <1>1 DEF Put
  <1>9. size' \in Nat /\ inTail' \in BOOLEAN
    <2>1. size' \in Nat
      BY <1>2, <1>4, <1>8
    <2>2. inTail' \in BOOLEAN
      BY <1>1, Zenon
    <2> QED BY <2>1, <2>2
  <1> HIDE DEF last, e64, loc, z64
  <1>10. \A r \in file' : Natural(r)
    BY <1>6, <1>7, <1>8 DEF LayoutType
  <1> QED BY <1>9, <1>10 DEF LayoutType, Finish

\* The reader makes of the one entry of put_trailer what it was made of.
LEMMA StreamEntry ==
  ASSUME NEW e \in Members, NEW at \in Nat, e.offset = 0
  PROVE  LET c == StreamCentral(at, e)
         IN /\ Natural(c) /\ c.kind = "central" /\ c.at = at /\ c.extra \in Nat
            /\ e.name <= MaxShort /\ e.note <= MaxShort =>
                 Resolved(c) = e /\ Extent(c) = 46 + e.name + c.extra + e.note
  <1> DEFINE c   == StreamCentral(at, e)
             d   == Central(at, e)
             z64 == Wide(e.ulen) \/ Wide(e.clen)
  <1>0. Low32 \in Nat \ {0} /\ MaxShort \in Nat
    BY WidthsAssumption
  <1>1. Natural(d) /\ d.kind = "central" /\ d.at = at
    BY CentralTyped DEF Central
  <1>2. /\ c.kind = d.kind /\ c.at = d.at /\ c.name = d.name /\ c.note = d.note /\ c.offset = d.offset
        /\ c.clen = IF z64 THEN Low32 ELSE e.clen
        /\ c.ulen = IF z64 THEN Low32 ELSE e.ulen
        /\ c.extra = IF z64 THEN 29 ELSE 9
        /\ c.values = IF z64 /\ e.name <= MaxShort THEN <<e.ulen, e.clen>> ELSE <<>>
    BY DEF StreamCentral, Central
  <1>3. d.name = Field(e.name, MaxShort) /\ d.note = Field(e.note, MaxShort) /\ d.offset = Narrow(e.offset)
    BY DEF Central
  <1> HIDE DEF c, d
  <1>4. e.ulen \in Nat /\ e.clen \in Nat /\ e.name \in Nat /\ e.note \in Nat
    BY DEF Members
  <1>5. <<e.ulen, e.clen>> \in Seq(Nat) /\ <<>> \in Seq(Nat)
    BY <1>4
  <1>6. c.values \in Seq(Nat)
    BY <1>2, <1>5
  <1>7. Natural(c)
    BY <1>0, <1>1, <1>2, <1>4, <1>6 DEF Natural
  <1>8. ASSUME e.name <= MaxShort, e.note <= MaxShort
        PROVE  Resolved(c) = e /\ Extent(c) = 46 + e.name + c.extra + e.note
    <2>1. c.name = e.name /\ c.note = e.note
      BY <1>0, <1>2, <1>3, <1>4, <1>8, FieldHolds
    <2>2. c.offset = 0 /\ c.offset # Low32
      BY <1>0, <1>2, <1>3 DEF Narrow, Wide
    <2> DEFINE full(v)    == IF v = Low32 THEN 1 ELSE 0
               take(v, i) == IF v = Low32 /\ i <= Len(c.values) THEN c.values[i] ELSE v
    <2>3. take(c.ulen, 1) = e.ulen /\ take(c.clen, 1 + full(c.ulen)) = e.clen
      <3>1. CASE z64
        <4>1. Len(c.values) = 2 /\ c.values[1] = e.ulen /\ c.values[2] = e.clen
          BY <1>2, <1>8, <3>1
        <4> QED BY <1>2, <3>1, <4>1
      <3>2. CASE ~ z64
        <4>1. e.ulen # Low32 /\ e.clen # Low32
          BY <1>0, <1>4, <3>2 DEF Wide
        <4> QED BY <1>2, <3>2, <4>1
      <3> QED BY <3>1, <3>2
    <2>4. take(c.offset, 1 + full(c.ulen) + full(c.clen)) = e.offset
      BY <2>2
    <2>5. Resolved(c) = Member(e.name, e.ulen, e.clen, e.offset, e.note)
      BY <2>1, <2>3, <2>4 DEF Resolved
    <2>6. Member(e.name, e.ulen, e.clen, e.offset, e.note) = e
      BY DEF Member, Members
    <2> QED BY <2>1, <2>5, <2>6 DEF Extent
  <1> QED BY <1>1, <1>2, <1>7, <1>8 DEF c

LEMMA StreamType == LayoutType /\ Stream => LayoutType'
  <1> SUFFICES ASSUME LayoutType, Stream PROVE LayoutType'
    OBVIOUS
  <1> DEFINE tail(at) == IF Wide(at) THEN 76 ELSE 0
             end64(at, cent) == End64(at + cent, 1, cent, at)
             loc(at, cent) == Locator(at + cent + 56, at + cent)
             end32(at, cent) == EndOf(at + cent + tail(at), MaxCount, Low32, Low32)
             end1(at, cent) == EndOf(at + cent, 1, cent, at)
  <1>1. PICK name \in Names, ulen \in Lengths, clen \in Lengths, note \in Notes :
          LET m    == Member(name, ulen, clen, 0, note)
              at   == 30 + name + 29 + clen + 24
              cent == 46 + name + StreamCentral(at, m).extra + note
          IN /\ made' = <<m>>
             /\ Put({Local(m, 29), StreamCentral(at, m)}
                      \cup (IF Wide(at) THEN {end64(at, cent), loc(at, cent), end32(at, cent)}
                                        ELSE {end1(at, cent)}),
                    at + cent + tail(at) + 22)
             /\ inTail' = (inTail /\ Follow(0, Wide(at)) <= MaxShort)
    BY DEF Stream
  <1> DEFINE m    == Member(name, ulen, clen, 0, note)
             at   == 30 + name + 29 + clen + 24
             cent == 46 + name + StreamCentral(at, m).extra + note
  <1>2. name \in Nat /\ ulen \in Nat /\ clen \in Nat /\ note \in Nat /\ size \in Nat
        /\ Low32 \in Nat /\ MaxCount \in Nat
    BY LengthsAssumption, WidthsAssumption DEF LayoutType
  <1>3. m \in Members /\ m.offset = 0 /\ at \in Nat
    BY <1>2 DEF Member, Members
  <1> HIDE DEF m, at
  <1>4. Natural(StreamCentral(at, m)) /\ StreamCentral(at, m).extra \in Nat
    BY <1>3, StreamEntry
  <1>5. cent \in Nat /\ tail(at) \in Nat
    BY <1>2, <1>4
  <1> HIDE DEF cent
  <1>6. Natural(Local(m, 29)) /\ Natural(end64(at, cent)) /\ Natural(loc(at, cent))
        /\ Natural(end32(at, cent)) /\ Natural(end1(at, cent))
    BY <1>2, <1>3, <1>5 DEF Local, EndOf, End64, Locator, Natural
  <1>7. /\ made' = <<m>> /\ inTail' = (inTail /\ Follow(0, Wide(at)) <= MaxShort)
        /\ file' = file \cup ({Local(m, 29), StreamCentral(at, m)}
                      \cup (IF Wide(at) THEN {end64(at, cent), loc(at, cent), end32(at, cent)}
                                        ELSE {end1(at, cent)}))
        /\ size' = size + (at + cent + tail(at) + 22)
    BY <1>1 DEF Put, m, at, cent
  <1>8. made' \in Seq(Members)
    BY <1>3, <1>7
  <1>9. size' \in Nat
    BY <1>2, <1>3, <1>5, <1>7
  <1>10. inTail' \in BOOLEAN
    BY <1>7, Zenon
  <1> HIDE DEF end64, loc, end32, end1
  <1>11. \A r \in file' : Natural(r)
    BY <1>4, <1>6, <1>7 DEF LayoutType
  <1> QED BY <1>8, <1>9, <1>10, <1>11 DEF LayoutType, Stream

\* The reader takes its numbers from an end record, or from a ZIP64 one.
LEMMA ToldAreEnds ==
  ASSUME NEW e \in UNION {Told(r) : r \in EndsSeen}
  PROVE  e \in file /\ e.kind \in {"end", "end64"}
  BY DEF EndsSeen, Told, At

LEMMA LocateType == LayoutType /\ Locate => LayoutType'
  <1> SUFFICES ASSUME LayoutType, Locate PROVE LayoutType'
    OBVIOUS
  <1>1. CASE Refuse
    BY <1>1 DEF LayoutType, Locate, Refuse
  <1>2. CASE ~ Refuse
    <2>1. PICK e \in UNION {Told(r) : r \in EndsSeen} :
            /\ end' = [count |-> e.count, size |-> e.size, offset |-> e.offset]
            /\ pos' = 0 /\ found' = <<>> /\ pc' = "list"
      BY <1>2 DEF Locate
    <2>2. e.count \in Nat /\ e.size \in Nat /\ e.offset \in Nat
      BY ToldAreEnds DEF LayoutType, Natural
    <2> QED BY <2>1, <2>2 DEF LayoutType, Locate
  <1> QED BY <1>1, <1>2

LEMMA ListEntryType == LayoutType /\ ListEntry => LayoutType'
  <1> SUFFICES ASSUME LayoutType, ListEntry PROVE LayoutType'
    OBVIOUS
  <1>1. CASE Refuse
    BY <1>1 DEF LayoutType, ListEntry, Refuse
  <1>2. CASE ~ Refuse
    <2>1. PICK c \in At("central", end.offset + pos) :
            /\ found' = Append(found, Resolved(c)) /\ pos' = pos + Extent(c)
            /\ UNCHANGED <<pc, end>>
      BY <1>2 DEF ListEntry
    <2>2. Resolved(c) \in Members /\ Extent(c) \in Nat
      BY ResolvedTyped DEF LayoutType, At, Kind
    <2> QED BY <2>1, <2>2 DEF LayoutType, ListEntry
  <1> QED BY <1>1, <1>2

LEMMA LayoutTyped == Spec => []LayoutType
  <1>1. Init => LayoutType
    BY DEF Init, LayoutType
  <1>2. LayoutType /\ [Next]_vars => LayoutType'
    <2> SUFFICES ASSUME LayoutType, [Next]_vars PROVE LayoutType'
      OBVIOUS
    <2>1. CASE Listed
      BY <2>1 DEF LayoutType, Listed
    <2>2. CASE Reopen
      BY <2>2 DEF LayoutType, Reopen
    <2>3. CASE UNCHANGED vars
      BY <2>3 DEF LayoutType, vars
    <2> QED BY <2>1, <2>2, <2>3, AddType, FinishType, StreamType, LocateType, ListEntryType DEF Next
  <1> QED BY <1>1, <1>2, PTL DEF Spec

-------------------------------------------------------------------------------
(* What is made is on the disk. *)

LEMMA AddMade ==
  ASSUME LayoutType, Fits => AsMade, Add, Fits'
  PROVE  AsMade'
  <1>1. PICK name \in Names, ulen \in Lengths, clen \in Lengths, note \in Notes :
          LET e == Member(name, ulen, clen, size, note)
          IN /\ made' = Append(made, e) /\ entries' = Append(entries, e)
             /\ Put({Local(e, LocalExtra(e))}, 30 + name + LocalExtra(e) + clen)
    BY DEF Add
  <1> DEFINE e == Member(name, ulen, clen, size, note)
             l == Local(e, LocalExtra(e))
  <1>2. name \in Nat /\ ulen \in Nat /\ clen \in Nat /\ note \in Nat /\ size \in Nat
        /\ MaxShort \in Nat /\ made \in Seq(Members)
    BY LengthsAssumption, WidthsAssumption DEF LayoutType
  <1>3. e \in Members /\ e.offset = size /\ e.name = name /\ LocalExtra(e) \in Nat
    BY <1>2 DEF Member, Members, LocalExtra
  <1>4. l.kind = "local" /\ l.at = size /\ l.ends = size + 30 + name + LocalExtra(e)
        /\ l.name = Field(name, MaxShort) /\ l.extra = LocalExtra(e)
    BY <1>3 DEF Local
  <1>5. /\ made' = Append(made, e) /\ entries' = Append(entries, e)
        /\ file' = file \cup {l} /\ size' = size + (30 + name + LocalExtra(e) + clen)
    BY <1>1 DEF Put
  <1> HIDE DEF e, l
  <1>6. /\ Len(made') = Len(made) + 1 /\ made'[Len(made) + 1] = e
        /\ \A i \in 1 .. Len(made) : made'[i] = made[i]
        /\ DOMAIN made = 1 .. Len(made) /\ DOMAIN made' = 1 .. Len(made) + 1 /\ Len(made) \in Nat
    BY <1>2, <1>3, <1>5
  <1>7. Fits /\ name <= MaxShort
    BY <1>3, <1>6 DEF Fits, Add
  <1>8. AsMade /\ pc = "open" /\ pc' = "open"
    BY <1>7 DEF Add
  <1>9. entries = made /\ Before(size) /\ file = Kind("local")
    BY <1>8 DEF AsMade
  <1>10. size' > size /\ size' \in Nat
    BY <1>2, <1>3, <1>5
  <1>11. l.ends = l.at + 30 + l.name + l.extra
    BY <1>2, <1>4, <1>7, FieldHolds
  <1>12. \A r \in file' : r.kind = "local" => r.at < size' /\ r.ends = r.at + 30 + r.name + r.extra
    <2> SUFFICES ASSUME NEW r \in file', r.kind = "local"
                 PROVE  r.at < size' /\ r.ends = r.at + 30 + r.name + r.extra
      OBVIOUS
    <2>1. CASE r \in file
      BY <1>2, <1>9, <1>10, <2>1 DEF Before, LayoutType, Natural
    <2>2. CASE r = l
      BY <1>2, <1>4, <1>10, <1>11, <2>2
    <2> QED BY <1>5, <2>1, <2>2
  <1>13. ASSUME NEW i \in 1 .. Len(made') PROVE \E r \in Kind("local")' : r.at = made'[i].offset
    <2>1. CASE i \in 1 .. Len(made)
      BY <1>5, <1>6, <1>9, <2>1 DEF Before, Kind
    <2>2. CASE i = Len(made) + 1
      BY <1>3, <1>4, <1>5, <1>6, <2>2 DEF Kind
    <2> QED BY <1>6, <2>1, <2>2
  <1>14. Before(size)'
    BY <1>12, <1>13 DEF Before
  <1>15. entries' = made' /\ (file = Kind("local"))'
    BY <1>4, <1>5, <1>9 DEF Kind
  <1> QED BY <1>8, <1>14, <1>15 DEF AsMade

LEMMA FinishMade ==
  ASSUME LayoutType, Fits => AsMade, Finish, Fits'
  PROVE  AsMade'
  <1> DEFINE count  == Len(entries)
             cdSize == Ends(entries)[count]
             after  == size + cdSize
             z64    == Beyond16(count) \/ Wide(cdSize) \/ Wide(size)
             tail   == IF z64 THEN 76 ELSE 0
             last   == EndOf(after + tail, Smaller(count, MaxCount), Narrow(cdSize), Narrow(size))
             e64    == End64(after, count, cdSize, size)
             loc    == Locator(after + 56, after)
  <1>1. PICK comment \in Comments :
          /\ Put(Directory(size, entries) \cup (IF z64 THEN {e64, loc} ELSE {}) \cup {last},
                 cdSize + tail + 22 + comment)
          /\ inTail' = (inTail /\ Follow(comment, z64) <= MaxShort)
    BY DEF Finish
  <1>2. Fits /\ Follow(comment, z64) <= MaxShort /\ made' = made /\ pc = "open" /\ pc' = "read"
    BY <1>1 DEF Fits, Finish
  <1>3. AsMade /\ entries = made /\ Before(size) /\ file = Kind("local")
    BY <1>2 DEF AsMade
  <1>4. comment \in Nat /\ Low32 \in Nat /\ MaxCount \in Nat /\ size \in Nat /\ made \in Seq(Members)
        /\ count \in Nat /\ count = Len(made) /\ DOMAIN made = 1 .. count
    BY <1>3, LengthsAssumption, WidthsAssumption DEF LayoutType
  <1>5. PICK d, p, e, l, t : d = size /\ p = Ends(made) /\ e = last /\ l = loc /\ t = e64
    OBVIOUS
  <1>6. /\ d \in Nat /\ p \in [0 .. count -> Nat] /\ p[0] = 0 /\ cdSize = p[count] /\ p[count] \in Nat
        /\ \A i \in 1 .. count : p[i] = p[i - 1] + EntrySize(made[i])
    <2>1. p \in [0 .. count -> Nat] /\ p[0] = 0 /\ \A i \in 1 .. count : p[i] = p[i - 1] + EntrySize(made[i])
      BY <1>4, <1>5, EndsAreNat
    <2>2. p[count] \in Nat
      BY <1>4, <2>1
    <2> QED BY <1>3, <1>4, <1>5, <2>1, <2>2
  <1>7. tail \in Nat
    OBVIOUS
  <1>8. /\ file' = file \cup (Directory(size, entries) \cup (IF z64 THEN {t, l} ELSE {}) \cup {e})
        /\ size' = size + (cdSize + tail + 22 + comment)
    BY <1>1, <1>5 DEF Put
  <1>9. /\ e.kind = "end" /\ e.at = d + p[count] + tail /\ e.count = Smaller(count, MaxCount)
        /\ e.size = Narrow(p[count]) /\ e.offset = Narrow(d)
        /\ t.kind = "end64" /\ t.at = d + p[count] /\ t.count = count
        /\ t.size = p[count] /\ t.offset = d
        /\ l.kind = "locator" /\ l.at = d + p[count] + 56 /\ l.off = d + p[count]
    BY <1>5, <1>6 DEF EndOf, End64, Locator
  <1>10. ASSUME NEW i \in 1 .. count
         PROVE  LET c == Central(d + p[i - 1], made[i])
                IN /\ c.kind = "central" /\ c.at = d + p[i - 1] /\ c.at >= d
                   /\ Resolved(c) = made[i] /\ p[i] = p[i - 1] + Extent(c)
    <2>1. i - 1 \in 0 .. count /\ made[i] \in Members
      BY <1>4
    <2>2. d + p[i - 1] \in Nat /\ d + p[i - 1] >= d
      BY <1>6, <2>1
    <2>3. made[i].name <= MaxShort /\ made[i].note <= MaxShort
      BY <1>2, <1>4 DEF Fits
    <2>4. p[i] = p[i - 1] + EntrySize(made[i])
      BY <1>6
    <2>5. Central(d + p[i - 1], made[i]).kind = "central" /\ Central(d + p[i - 1], made[i]).at = d + p[i - 1]
      BY DEF Central
    <2> QED BY <2>1, <2>2, <2>3, <2>4, <2>5, CentralRead
  <1>11. Directory(size, entries) = {Central(d + p[i - 1], made[i]) : i \in 1 .. count}
    BY <1>3, <1>4, <1>5 DEF Directory
  <1> HIDE DEF last, e64, loc, z64, tail, cdSize, after, count
  <1>12. /\ Kind("local")' = Kind("local")
         /\ Kind("central")' = {Central(d + p[i - 1], made[i]) : i \in 1 .. count}
         /\ Kind("end")' = {e}
         /\ Kind("locator")' = (IF z64 THEN {l} ELSE {})
         /\ Kind("end64")' = (IF z64 THEN {t} ELSE {})
    BY <1>3, <1>8, <1>9, <1>10, <1>11 DEF Kind
  <1>13. Before(d)'
    <2>1. \A r \in file' : r.kind = "local" => r \in file
      BY <1>12 DEF Kind
    <2> QED BY <1>2, <1>3, <1>5, <1>12, <2>1 DEF Before
  <1>14. Listing(d, p)'
    <2>1. ASSUME NEW i \in 1 .. count PROVE EntryOf(Central(d + p[i - 1], made[i]), i, d, p)'
      BY <1>2, <1>10 DEF EntryOf
    <2> QED BY <1>2, <1>4, <1>6, <1>12, <2>1 DEF Listing
  <1>15. Leads(d, p)'
    <2>1. size' = e.at + 22 + comment /\ e.at >= d + p[count]
      <3>1. size' = d + (p[count] + tail + 22 + comment) /\ e.at = d + p[count] + tail
        BY <1>5, <1>6, <1>8, <1>9
      <3>2. d \in Nat /\ p[count] \in Nat /\ tail \in Nat /\ comment \in Nat
        BY <1>4, <1>6, <1>7
      <3> QED BY <3>1, <3>2
    <2>2. CASE z64
      <3>1. tail = 76 /\ e.at = l.at + 20 /\ t.at = l.off
        BY <1>4, <1>6, <1>9, <2>2 DEF tail
      <3>2. Saturated(e)
        BY <1>4, <1>5, <1>6, <1>9, <2>2 DEF Saturated, z64, Beyond16, Smaller, Narrow
      <3>3. Tells(t, d, p)'
        BY <1>2, <1>4, <1>9 DEF Tells
      <3>4. Kind("locator")' = {l} /\ Kind("end64")' = {t} /\ Kind("end")' = {e}
        BY <1>12, <2>2
      <3>5. Follow(comment, TRUE) <= MaxShort
        BY <1>2, <2>2 DEF Follow
      <3> QED BY <1>2, <1>4, <2>1, <3>1, <3>2, <3>3, <3>4, <3>5 DEF Leads, Saturated
    <2>3. CASE ~ z64
      <3>1. Tells(e, d, p)'
        BY <1>2, <1>4, <1>5, <1>6, <1>9, <2>3 DEF Tells, z64, Beyond16, Smaller, Narrow, cdSize
      <3>2. Kind("locator")' = {} /\ Kind("end")' = {e}
        BY <1>12, <2>3
      <3>3. Follow(comment, FALSE) <= MaxShort
        BY <1>2, <2>3 DEF Follow
      <3> QED BY <1>2, <1>4, <2>1, <3>1, <3>2, <3>3 DEF Leads
    <2> QED BY <2>2, <2>3
  <1>16. \A r \in file' : r.kind # "local" => r.at >= d
    <2>1. \A r \in file : r.kind = "local"
      BY <1>3 DEF Kind
    <2>2. \A r \in Directory(size, entries) : r.at >= d
      BY <1>10, <1>11
    <2>3. e.at >= d /\ t.at >= d /\ l.at >= d
      <3>1. p[count] \in Nat
        BY <1>4, <1>6
      <3> QED BY <1>6, <1>7, <1>9, <3>1
    <2> QED BY <1>8, <2>1, <2>2, <2>3
  <1>17. Written(d, p)'
    BY <1>2, <1>6, <1>13, <1>14, <1>15, <1>16 DEF Written
  <1> QED BY <1>2, <1>17 DEF AsMade

LEMMA StreamMade ==
  ASSUME LayoutType, Fits => AsMade, Stream, Fits'
  PROVE  AsMade'
  <1> DEFINE tail(at) == IF Wide(at) THEN 76 ELSE 0
             end64(at, cent) == End64(at + cent, 1, cent, at)
             loc(at, cent) == Locator(at + cent + 56, at + cent)
             end32(at, cent) == EndOf(at + cent + tail(at), MaxCount, Low32, Low32)
             end1(at, cent) == EndOf(at + cent, 1, cent, at)
  <1>1. PICK name \in Names, ulen \in Lengths, clen \in Lengths, note \in Notes :
          LET m    == Member(name, ulen, clen, 0, note)
              at   == 30 + name + 29 + clen + 24
              cent == 46 + name + StreamCentral(at, m).extra + note
          IN /\ made' = <<m>>
             /\ Put({Local(m, 29), StreamCentral(at, m)}
                      \cup (IF Wide(at) THEN {end64(at, cent), loc(at, cent), end32(at, cent)}
                                        ELSE {end1(at, cent)}),
                    at + cent + tail(at) + 22)
             /\ inTail' = (inTail /\ Follow(0, Wide(at)) <= MaxShort)
    BY DEF Stream
  <1>2. PICK m, d, cent, c, h : /\ m = Member(name, ulen, clen, 0, note)
                                /\ d = 30 + name + 29 + clen + 24
                                /\ cent = 46 + name + StreamCentral(d, m).extra + note
                                /\ c = StreamCentral(d, m) /\ h = Local(m, 29)
    OBVIOUS
  <1>3. PICK t, l, e, f : t = end64(d, cent) /\ l = loc(d, cent) /\ e = end32(d, cent) /\ f = end1(d, cent)
    OBVIOUS
  <1>4. /\ made' = <<m>> /\ (inTail' => Follow(0, Wide(d)) <= MaxShort)
        /\ file' = {h, c} \cup (IF Wide(d) THEN {t, l, e} ELSE {f})
        /\ size' = d + cent + tail(d) + 22
    <2>1. /\ made' = <<m>> /\ (inTail' => Follow(0, Wide(d)) <= MaxShort)
          /\ file' = file \cup ({h, c} \cup (IF Wide(d) THEN {t, l, e} ELSE {f}))
          /\ size' = size + (d + cent + tail(d) + 22)
      BY ZenonT(60), <1>1, <1>2, <1>3 DEF Put
    <2>2. file = {} /\ size = 0
      BY DEF Stream
    <2>3. d + cent + tail(d) + 22 \in Nat
      <3>1. name \in Nat /\ clen \in Nat /\ ulen \in Nat /\ note \in Nat
        BY LengthsAssumption
      <3>2. m \in Members /\ m.offset = 0 /\ d \in Nat
        BY <1>2, <3>1 DEF Member, Members
      <3>3. c.extra \in Nat
        BY <1>2, <3>2, StreamEntry
      <3>4. cent \in Nat
        BY <1>2, <3>1, <3>3
      <3> QED BY <3>2, <3>4
    <2> QED BY <2>1, <2>2, <2>3
  <1>5. /\ name \in Nat /\ ulen \in Nat /\ clen \in Nat /\ note \in Nat
        /\ Low32 \in Nat /\ MaxCount \in Nat /\ MaxShort \in Nat
    BY LengthsAssumption, WidthsAssumption
  <1>6. m \in Members /\ m.offset = 0 /\ m.name = name /\ m.note = note /\ d \in Nat /\ d > 0
        /\ d > 30 + name + 29
    BY <1>2, <1>5 DEF Member, Members
  <1>7. made'[1] = m /\ Len(made') = 1 /\ DOMAIN made' = {1}
    BY <1>4
  <1>8. name <= MaxShort /\ note <= MaxShort /\ Follow(0, Wide(d)) <= MaxShort
    BY <1>4, <1>6, <1>7 DEF Fits
  <1>9. /\ c.kind = "central" /\ c.at = d /\ Resolved(c) = m /\ c.extra \in Nat
        /\ Extent(c) = cent /\ cent \in Nat
    <2>1. /\ c.kind = "central" /\ c.at = d /\ c.extra \in Nat
          /\ Resolved(c) = m /\ Extent(c) = 46 + name + c.extra + note
      BY <1>2, <1>6, <1>8, StreamEntry
    <2> QED BY <1>2, <1>5, <2>1
  <1>10. h.kind = "local" /\ h.at = 0 /\ h.ends = 0 + 30 + name + 29 /\ h.name = name /\ h.extra = 29
    BY <1>2, <1>5, <1>6, <1>8, FieldHolds DEF Local
  <1>11. /\ t.kind = "end64" /\ t.at = d + cent /\ t.count = 1 /\ t.size = cent /\ t.offset = d
         /\ l.kind = "locator" /\ l.at = d + cent + 56 /\ l.off = d + cent
         /\ e.kind = "end" /\ e.at = d + cent + tail(d) /\ e.count = MaxCount
         /\ f.kind = "end" /\ f.at = d + cent /\ f.count = 1 /\ f.size = cent /\ f.offset = d
    BY <1>3 DEF End64, Locator, EndOf
  <1> HIDE DEF end64, loc, end32, end1
  <1>12. PICK p : p = [i \in 0 .. 1 |-> IF i = 0 THEN 0 ELSE cent]
    OBVIOUS
  <1>13. p \in [0 .. 1 -> Nat] /\ p[0] = 0 /\ p[1] = cent
    BY <1>9, <1>12
  <1>14. /\ Kind("local")' = {h} /\ Kind("central")' = {c}
         /\ Kind("end")' = (IF Wide(d) THEN {e} ELSE {f})
         /\ Kind("locator")' = (IF Wide(d) THEN {l} ELSE {})
         /\ Kind("end64")' = (IF Wide(d) THEN {t} ELSE {})
    BY <1>4, <1>9, <1>10, <1>11 DEF Kind
  <1>15. Before(d)'
    <2>1. \A r \in file' : r.kind = "local" => r = h
      BY <1>4, <1>9, <1>11
    <2>2. h.at < d /\ h.ends = h.at + 30 + h.name + h.extra
      BY <1>5, <1>6, <1>10
    <2>3. \A i \in 1 .. Len(made') : made'[i].offset = h.at
      BY <1>6, <1>7, <1>10
    <2> QED BY <1>14, <2>1, <2>2, <2>3 DEF Before
  <1>16. Listing(d, p)'
    <2>1. EntryOf(c, 1, d, p)'
      <3>1. c.at = d + p[1 - 1] /\ p[1] = p[1 - 1] + Extent(c)
        BY <1>6, <1>9, <1>13
      <3> QED BY <1>7, <1>9, <3>1 DEF EntryOf
    <2>2. 1 .. Len(made') = {1}
      BY <1>7
    <2> QED BY <1>7, <1>13, <1>14, <2>1, <2>2 DEF Listing
  <1>17. Leads(d, p)'
    <2>1. CASE Wide(d)
      <3>1. tail(d) = 76 /\ size' = e.at + 22 + 0 /\ e.at = l.at + 20 /\ e.at >= d + p[1]
        BY <1>4, <1>6, <1>9, <1>11, <1>13, <2>1
      <3>2. Saturated(e)
        BY <1>11 DEF Saturated
      <3>3. Tells(t, d, p)'
        BY <1>7, <1>11, <1>13 DEF Tells
      <3>4. Follow(0, TRUE) <= MaxShort
        BY <1>8, <2>1 DEF Follow
      <3>5. Kind("end")' = {e} /\ Kind("locator")' = {l} /\ Kind("end64")' = {t}
        BY <1>14, <2>1
      <3> QED BY <1>7, <1>11, <3>1, <3>2, <3>3, <3>4, <3>5 DEF Leads, Saturated
    <2>2. CASE ~ Wide(d)
      <3>1. size' = f.at + 22 + 0 /\ f.at >= d + p[1]
        BY <1>4, <1>6, <1>9, <1>11, <1>13, <2>2
      <3>2. Tells(f, d, p)'
        BY <1>7, <1>11, <1>13 DEF Tells
      <3>3. Follow(0, FALSE) <= MaxShort
        BY <1>8, <2>2 DEF Follow
      <3>4. Kind("end")' = {f} /\ Kind("locator")' = {}
        BY <1>14, <2>2
      <3> QED BY <1>7, <3>1, <3>2, <3>3, <3>4 DEF Leads
    <2> QED BY <2>1, <2>2
  <1>18. \A r \in file' : r.kind # "local" => r.at >= d
    <2>1. c.at >= d /\ t.at >= d /\ l.at >= d /\ e.at >= d /\ f.at >= d
      BY <1>6, <1>9, <1>11
    <2> QED BY <1>4, <1>10, <2>1
  <1>19. Written(d, p)' /\ pc' = "read"
    BY <1>6, <1>15, <1>16, <1>17, <1>18 DEF Written, Stream
  <1> QED BY <1>19 DEF AsMade

\* The reader finds one end, and it tells where the directory is.
LEMMA EndIsFound ==
  ASSUME LayoutType, NEW d, NEW p, Written(d, p)
  PROVE  /\ \E x : UNION {Told(r) : r \in EndsSeen} = {x} /\ Tells(x, d, p)
         /\ d + p[Len(made)] <= size
  <1>1. PICK e \in Kind("end"), n \in Nat :
    /\ Kind("end") = {e} /\ size = e.at + 22 + n /\ e.at >= d + p[Len(made)]
    /\ \/ Kind("locator") = {} /\ Tells(e, d, p) /\ Follow(n, FALSE) <= MaxShort
       \/ \E l \in Kind("locator"), t \in Kind("end64") :
            /\ Kind("locator") = {l} /\ Kind("end64") = {t} /\ Saturated(e)
            /\ e.at = l.at + 20 /\ t.at = l.off /\ Tells(t, d, p) /\ Follow(n, TRUE) <= MaxShort
    BY DEF Written, Leads
  <1>2. MaxShort \in Nat /\ e.at \in Nat /\ size \in Nat
    BY WidthsAssumption DEF LayoutType, Natural, Kind
  <1>3. d + p[Len(made)] \in Nat
    <2>1. d \in Nat /\ p \in [0 .. Len(made) -> Nat] /\ Len(made) \in Nat
      BY DEF Written, Listing, LayoutType
    <2> QED BY <2>1
  <1>4. d + p[Len(made)] <= size
    BY <1>1, <1>2, <1>3
  <1>5. n <= MaxShort
    BY <1>1, <1>2 DEF Follow
  <1>6. EndsSeen = {e}
    <2>1. e.at >= TailStart
      BY <1>1, <1>2, <1>5 DEF TailStart, Smaller
    <2>2. e \in file /\ e.kind = "end" /\ \A r \in file : r.kind = "end" => r = e
      BY <1>1 DEF Kind
    <2> QED BY <2>1, <2>2 DEF EndsSeen
  <1>7. UNION {Told(r) : r \in EndsSeen} = Told(e)
    BY <1>6
  <1>8. CASE Kind("locator") = {} /\ Tells(e, d, p)
    <2>1. Locators(e) = {}
      BY <1>8 DEF Locators, At, Kind
    <2>2. Told(e) = {e}
      BY <2>1 DEF Told
    <2> QED BY <1>4, <1>7, <1>8, <2>2
  <1>9. ASSUME NEW l \in Kind("locator"), NEW t \in Kind("end64"),
               Kind("locator") = {l}, Kind("end64") = {t}, Saturated(e),
               e.at = l.at + 20, t.at = l.off, Tells(t, d, p), Follow(n, TRUE) <= MaxShort
        PROVE  Told(e) = {t}
    <2>1. l.at \in Nat /\ l \in file /\ l.kind = "locator" /\ t \in file /\ t.kind = "end64"
      BY DEF LayoutType, Natural, Kind
    <2>2. e.at - 20 = l.at /\ e.at - 20 >= TailStart
      BY SMTT(30), <1>1, <1>2, <1>9, <2>1 DEF Follow, TailStart, Smaller
    <2>3. At("locator", l.at) = {l}
      BY <1>9, <2>1 DEF At, Kind
    <2>4. Locators(e) = {l}
      BY <1>9, <2>2, <2>3 DEF Locators
    <2>5. At("end64", l.off) = {t}
      BY <1>9, <2>1 DEF At, Kind
    <2> QED BY <2>4, <2>5 DEF Told
  <1> QED BY <1>1, <1>4, <1>7, <1>8, <1>9

\* What stays in the file says the same of the same members.
LEMMA WrittenKept ==
  ASSUME NEW d, NEW p, UNCHANGED <<made, file, size>>
  PROVE  (Before(d) => Before(d)') /\ (Listing(d, p) => Listing(d, p)') /\ (Leads(d, p) => Leads(d, p)')
  <1>1. \A kind : Kind(kind)' = Kind(kind)
    BY DEF Kind
  <1>2. Before(d) => Before(d)'
    BY <1>1 DEF Before
  <1>3. Listing(d, p) => Listing(d, p)'
    BY <1>1 DEF Listing, EntryOf
  <1>4. Leads(d, p) => Leads(d, p)'
    BY <1>1 DEF Leads, Tells
  <1> QED BY <1>2, <1>3, <1>4

LEMMA LocateMade ==
  ASSUME LayoutType, Fits => AsMade, Locate, Fits'
  PROVE  AsMade'
  <1>1. Fits /\ pc = "read" /\ UNCHANGED <<made, entries, inTail, file, size>>
    BY DEF Fits, Locate
  <1>2. PICK d, p : Written(d, p)
    BY <1>1 DEF AsMade
  <1>3. PICK x : UNION {Told(r) : r \in EndsSeen} = {x} /\ Tells(x, d, p)
    BY <1>2, EndIsFound
  <1>4. x.offset + x.size <= size
    <2>1. d + p[Len(made)] <= size /\ x.offset = d /\ x.size = p[Len(made)]
      BY <1>2, <1>3, EndIsFound DEF Tells
    <2> QED BY <2>1
  <1>5. ~ (x.offset + x.size > size)
    <2>1. x.offset \in Nat /\ x.size \in Nat /\ size \in Nat
      BY <1>3, ToldAreEnds DEF LayoutType, Natural
    <2> QED BY <1>4, <2>1
  <1>6. /\ end' = [count |-> x.count, size |-> x.size, offset |-> x.offset]
        /\ pos' = 0 /\ found' = <<>> /\ pc' = "list"
    BY <1>3, <1>5 DEF Locate
  <1>7. Before(d)' /\ Listing(d, p)' /\ Leads(d, p)'
    BY <1>1, <1>2, WrittenKept DEF Written
  <1>8. Len(found') = 0 /\ p[0] = 0 /\ Len(made) \in Nat
    BY <1>2, <1>6 DEF Written, Listing, LayoutType
  <1>9. Written(d, p)'
    BY <1>1, <1>2, <1>3, <1>6, <1>7, <1>8 DEF Written, Tells
  <1> QED BY <1>6, <1>9 DEF AsMade

LEMMA ListEntryMade ==
  ASSUME LayoutType, Fits => AsMade, ListEntry, Fits'
  PROVE  AsMade'
  <1>1. Fits /\ pc = "list" /\ Len(found) < end.count /\ UNCHANGED <<made, entries, inTail, file, size>>
    BY DEF Fits, ListEntry
  <1>2. PICK d, p : Written(d, p)
    BY <1>1 DEF AsMade
  <1> DEFINE n == Len(made)
             k == Len(found)
  <1>3. /\ d \in Nat /\ Before(d) /\ Listing(d, p) /\ Leads(d, p) /\ n \in Nat /\ k \in Nat
        /\ \A r \in file : r.kind # "local" => r.at >= d
        /\ end = [count |-> n, size |-> p[n], offset |-> d] /\ pos = p[k]
        /\ \A i \in 1 .. k : found[i] = made[i]
    BY <1>1, <1>2 DEF Written, LayoutType
  <1>4. k < n /\ k + 1 \in 1 .. n /\ k \in 0 .. n /\ k + 1 \in 0 .. n /\ n \in 0 .. n /\ (k + 1) - 1 = k
    BY <1>1, <1>3
  <1>5. p \in [0 .. n -> Nat]
    BY <1>3 DEF Listing
  <1>6. \A i \in 1 .. n : p[i] >= p[i - 1] + 46
    <2> SUFFICES ASSUME NEW i \in 1 .. n PROVE p[i] >= p[i - 1] + 46
      OBVIOUS
    <2>1. PICK c \in Kind("central") : EntryOf(c, i, d, p)
      BY <1>3 DEF Listing
    <2>2. Extent(c) \in Nat /\ Extent(c) >= 46
      BY ResolvedTyped DEF LayoutType
    <2>3. p[i - 1] \in Nat /\ p[i] = p[i - 1] + Extent(c)
      BY <1>3, <1>5, <2>1 DEF EntryOf
    <2> QED BY <2>2, <2>3
  <1>7. \A i, j \in 0 .. n : i < j => p[i] + 46 <= p[j]
    BY <1>3, <1>5, <1>6, PlacesRise
  <1>8. ASSUME NEW c \in At("central", end.offset + pos) PROVE EntryOf(c, k + 1, d, p)
    <2>1. c \in Kind("central") /\ c.at = d + p[k]
      BY <1>3 DEF At, Kind
    <2>2. PICK i \in 1 .. n : EntryOf(c, i, d, p)
      BY <1>3, <2>1 DEF Listing
    <2>3. c.at = d + p[i - 1]
      BY <2>2 DEF EntryOf
    <2>4. i - 1 \in 0 .. n /\ p[i - 1] \in Nat /\ p[k] \in Nat
      BY <1>3, <1>4, <1>5
    <2>5. p[i - 1] = p[k]
      BY <1>3, <2>1, <2>3, <2>4
    <2>6. i - 1 = k
      <3>1. ~ (i - 1 < k) /\ ~ (k < i - 1)
        BY <1>4, <1>7, <2>4, <2>5
      <3> QED BY <1>3, <2>4, <3>1
    <2> QED BY <1>3, <2>2, <2>6
  <1>9. PICK c \in At("central", end.offset + pos) : EntryOf(c, k + 1, d, p)
    <2>1. PICK c \in Kind("central") : EntryOf(c, k + 1, d, p)
      BY <1>3, <1>4 DEF Listing
    <2>2. c.at = end.offset + pos
      BY <1>3, <1>4, <2>1 DEF EntryOf
    <2> QED BY <2>1, <2>2 DEF At, Kind
  <1>10. pos + Extent(c) = p[k + 1] /\ p[k + 1] <= p[n]
    <2>1. pos + Extent(c) = p[k + 1]
      BY <1>3, <1>4, <1>9 DEF EntryOf
    <2>2. p[k + 1] \in Nat /\ p[n] \in Nat
      BY <1>4, <1>5
    <2>3. CASE k + 1 = n
      BY <2>1, <2>2, <2>3
    <2>4. CASE k + 1 < n
      BY <1>4, <1>7, <2>1, <2>2, <2>4
    <2> QED BY <1>3, <1>4, <2>3, <2>4
  <1>11. PICK b \in At("central", end.offset + pos) :
           /\ found' = Append(found, Resolved(b)) /\ pos' = pos + Extent(b)
           /\ UNCHANGED <<pc, end>>
    BY <1>3, <1>9, <1>10 DEF ListEntry
  <1>12. Resolved(b) = made[k + 1] /\ pos' = p[k + 1] /\ Resolved(b) \in Members
    <2>1. EntryOf(b, k + 1, d, p)
      BY <1>8
    <2>2. Resolved(b) = made[k + 1] /\ p[k + 1] = p[k] + Extent(b)
      BY <1>4, <2>1 DEF EntryOf
    <2>3. Resolved(b) \in Members
      BY ResolvedTyped DEF LayoutType, At, Kind
    <2> QED BY <1>3, <1>11, <2>2, <2>3
  <1>13. /\ Len(found') = k + 1 /\ \A i \in 1 .. k + 1 : found'[i] = made[i]
    <2>1. found \in Seq(Members)
      BY DEF LayoutType
    <2>2. Len(found') = k + 1 /\ found'[k + 1] = Resolved(b) /\ \A i \in 1 .. k : found'[i] = found[i]
      BY <1>3, <1>11, <1>12, <2>1
    <2>3. \A i \in 1 .. k + 1 : i \in 1 .. k \/ i = k + 1
      BY <1>3
    <2> QED BY <1>3, <1>12, <2>2, <2>3
  <1>14. Before(d)' /\ Listing(d, p)' /\ Leads(d, p)'
    <2>1. UNCHANGED <<made, file, size>>
      BY <1>1
    <2> QED BY <1>3, <2>1, WrittenKept
  <1> HIDE DEF n, k
  <1>15. Written(d, p)'
    <2>1. n' = n /\ Len(made') = n /\ Len(made) = n
      BY <1>1 DEF n
    <2> QED BY <1>1, <1>3, <1>4, <1>11, <1>12, <1>13, <1>14, <2>1 DEF Written
  <1>16. pc' = "list"
    BY <1>1, <1>11
  <1> QED BY <1>15, <1>16 DEF AsMade

LEMMA ListedMade ==
  ASSUME LayoutType, Fits => AsMade, Listed, Fits'
  PROVE  AsMade'
  <1>1. Fits /\ pc = "list" /\ pc' = "done" /\ Len(found) = end.count
        /\ UNCHANGED <<made, entries, inTail, file, size, end, pos, found>>
    BY DEF Fits, Listed
  <1>2. PICK d, p : Written(d, p)
    BY <1>1 DEF AsMade
  <1>3. Before(d)' /\ Listing(d, p)' /\ Leads(d, p)'
    <2>1. UNCHANGED <<made, file, size>>
      BY <1>1
    <2>2. Before(d) /\ Listing(d, p) /\ Leads(d, p)
      BY <1>2 DEF Written
    <2> QED BY <2>1, <2>2, WrittenKept
  <1>4. Written(d, p)'
    BY <1>1, <1>2, <1>3 DEF Written
  <1> QED BY <1>1, <1>4 DEF AsMade

LEMMA ReopenMade ==
  ASSUME LayoutType, Fits => AsMade, Reopen, Fits'
  PROVE  AsMade'
  <1>1. /\ Fits /\ pc = "done" /\ pc' = "open" /\ entries' = found /\ size' = end.offset
        /\ file' = {r \in file : r.at < end.offset} /\ made' = made
    BY DEF Fits, Reopen
  <1>2. PICK d, p : Written(d, p)
    BY <1>1 DEF AsMade
  <1>3. /\ d \in Nat /\ Before(d) /\ end.offset = d /\ Len(found) = Len(made)
        /\ \A r \in file : r.kind # "local" => r.at >= d
        /\ \A i \in 1 .. Len(found) : found[i] = made[i]
    BY <1>1, <1>2 DEF Written
  <1>4. found = made
    <2>1. found \in Seq(Members) /\ made \in Seq(Members)
      BY DEF LayoutType
    <2> QED BY <1>3, <2>1
  <1>5. \A r \in file : r.at \in Nat /\ (r.kind # "local" => ~ (r.at < d)) /\ (r.kind = "local" => r.at < d)
    <2>1. \A r \in file : r.at \in Nat
      BY DEF LayoutType, Natural
    <2> QED BY <1>3, <2>1 DEF Before
  <1>6. file' = Kind("local")
    BY <1>1, <1>3, <1>5 DEF Kind
  <1>7. file' = Kind("local")' /\ Kind("local")' = Kind("local")
    BY <1>6 DEF Kind
  <1>8. Before(size)'
    BY <1>1, <1>3, <1>6, <1>7 DEF Before, Kind
  <1> QED BY <1>1, <1>4, <1>7, <1>8 DEF AsMade

LEMMA LayoutMade == Spec => [](Fits => AsMade)
  <1>1. Init => AsMade
    BY DEF Init, AsMade, Before, Kind
  <1>2. LayoutType /\ (Fits => AsMade) /\ [Next]_vars => (Fits => AsMade)'
    <2> SUFFICES ASSUME LayoutType, Fits => AsMade, [Next]_vars, Fits' PROVE AsMade'
      OBVIOUS
    <2>1. CASE UNCHANGED vars
      <3>1. Fits /\ AsMade
        BY <2>1 DEF Fits, vars
      <3>2. \A d, p : Written(d, p) => Written(d, p)'
        <4> SUFFICES ASSUME NEW d, NEW p, Written(d, p) PROVE Written(d, p)'
          OBVIOUS
        <4>1. UNCHANGED <<made, file, size>>
          BY <2>1 DEF vars
        <4>2. Before(d)' /\ Listing(d, p)' /\ Leads(d, p)'
          BY <4>1, WrittenKept DEF Written
        <4> QED BY <2>1, <4>2 DEF Written, vars
      <3>3. Before(size) => Before(size)'
        BY <2>1 DEF Before, Kind, vars
      <3> QED BY <2>1, <3>1, <3>2, <3>3 DEF AsMade, Kind, vars
    <2> QED BY <2>1, AddMade, FinishMade, StreamMade, LocateMade, ListEntryMade, ListedMade, ReopenMade DEF Next
  <1> QED BY <1>1, <1>2, LayoutTyped, PTL DEF Spec

\* An archive that is finished, and whose names, notes and comments fit, is read as
\* what was made, and each member is found behind its header, whichever lengths and
\* places exceed their fields (zip.cpp:233-339, 343-405, 462-509, format.cpp:167-256).
THEOREM NumbersReadBack == Spec => []ReadsBack
  <1>1. LayoutType /\ (Fits => AsMade) => ReadsBack
    <2> SUFFICES ASSUME LayoutType, AsMade, Fits, pc \in {"done", "refused"}
                 PROVE  /\ pc = "done" /\ found = made
                        /\ \A i \in DOMAIN made :
                             /\ DataAt(found[i]) = {l.ends : l \in At("local", made[i].offset)}
                             /\ DataAt(found[i]) # {}
      BY DEF ReadsBack
    <2>1. pc = "done"
      BY DEF AsMade
    <2>2. PICK d, p : Written(d, p)
      BY <2>1 DEF AsMade
    <2>3. /\ Before(d) /\ Len(found) = Len(made) /\ \A i \in 1 .. Len(found) : found[i] = made[i]
          /\ found \in Seq(Members) /\ made \in Seq(Members)
      BY <2>1, <2>2 DEF Written, LayoutType
    <2>4. found = made
      BY <2>3
    <2>5. ASSUME NEW i \in DOMAIN made
          PROVE  /\ DataAt(made[i]) = {l.ends : l \in At("local", made[i].offset)}
                 /\ DataAt(made[i]) # {}
      <3>1. \A l \in At("local", made[i].offset) : l.ends = l.at + 30 + l.name + l.extra
        BY <2>3 DEF At, Before
      <3>2. \E l \in At("local", made[i].offset) : TRUE
        BY <2>3 DEF At, Before, Kind
      <3> QED BY <3>1, <3>2 DEF DataAt
    <2> QED BY <2>1, <2>4, <2>5
  <1> QED BY <1>1, LayoutTyped, LayoutMade, PTL
===============================================================================
