----------------------------- MODULE ZipDescriptor -----------------------------
(***************************************************************************)
(* The data descriptor that follows the data of a zip entry written as a   *)
(* stream: with or without a signature, with lengths of 32 or 64 bits, as  *)
(* put_trailer (src/src/pigzpp/format.cpp) or another program writes it,   *)
(* and infchk (decompress.cpp) tells the kinds apart and checks the data   *)
(* by it.  Everything is a word of 32 bits.                                *)
(***************************************************************************)
EXTENDS Integers, Sequences

CONSTANTS
  Words,  \* words that a check value or the lower half of a length may be
  Highs,  \* words that the higher half of a length may be
  Sig     \* the signature, 0x08074b50

ASSUME WordsAssumption == Words \cup Highs \subseteq Nat /\ Sig \in Words

VARIABLES
  words,    \* the words of the descriptor
  signed,   \* whether it has a signature
  zip64,    \* hdr.zip64, whether its lengths have 64 bits
  sums,     \* the check value and the lengths of the data: ctx.out_check, clen, ctx.out_tot
  damaged,  \* the places of the words that were not written as they are
  verdict   \* "none", "ok", "crc32 mismatch" or "length mismatch"

descVars == <<words, signed, zip64, sums, damaged, verdict>>

DescInit ==
  /\ words = <<>> /\ signed = FALSE /\ zip64 = FALSE /\ damaged = {} /\ verdict = "none"
  /\ sums = [check |-> 0, clen |-> 0, ulen |-> 0]

\* What a writer puts behind data with the sums s, whose lengths have the higher
\* half high; put_trailer always writes the signature and 64 bits.
Descriptor(s, high, sig, wide) ==
  (IF sig THEN <<Sig>> ELSE <<>>) \o <<s.check, s.clen>> \o (IF wide THEN <<high>> ELSE <<>>)
    \o <<s.ulen>> \o (IF wide THEN <<high>> ELSE <<>>)

\* A descriptor is written; in the file a word of it may be another one, or all
\* words from one on missing, which reads as zeros.
Describe ==
  /\ words = <<>>
  /\ signed' \in BOOLEAN /\ zip64' \in BOOLEAN
  /\ sums' \in [check : Words, clen : Words, ulen : Words]
  /\ \E high \in Highs :
       LET right == Descriptor(sums', high, signed', zip64')
       IN /\ \/ words' = right
             \/ \E i \in DOMAIN right, w \in Words : words' = [right EXCEPT ![i] = w]
             \/ \E n \in DOMAIN right : words' = [i \in DOMAIN right |-> IF i < n THEN right[i] ELSE 0]
          /\ damaged' = {i \in DOMAIN right : words'[i] # right[i]}
  /\ UNCHANGED verdict

\* InputReader::get4(), behind the descriptor in the directory.
Word(i) == IF i \in DOMAIN words THEN words[i] ELSE Sig

\* Mutant of Skipped: a check value that equals the signature is taken for it.
SkippedBlindly == IF Word(1) = Sig THEN 1 ELSE 0

\* The words before the check value, as infchk guesses them.
Skipped == IF Word(1) = Sig /\ sums.check # Sig THEN 1 ELSE 0

Verify ==
  /\ words # <<>> /\ verdict = "none"
  /\ LET crc  == Word(Skipped + 1)
         clen == Word(Skipped + 2)
         ulen == Word(Skipped + (IF zip64 THEN 4 ELSE 3))
     IN verdict' = IF crc # sums.check THEN "crc32 mismatch"
                   ELSE IF clen # sums.clen \/ ulen # sums.ulen THEN "length mismatch"
                   ELSE "ok"
  /\ UNCHANGED <<words, signed, zip64, sums, damaged>>

DescNext == Describe \/ Verify

DescSpec == DescInit /\ [][DescNext]_descVars

-------------------------------------------------------------------------------

\* The places of the check value and of the lower halves of the lengths.
Compared ==
  LET crc == IF signed THEN 2 ELSE 1
  IN {crc, crc + 1, crc + (IF zip64 THEN 3 ELSE 2)}

\* Whether a check value may be mistaken for a signature, or the other way round.
Ambiguous == (signed /\ sums.check = Sig) \/ (~signed /\ sums.check # Sig /\ Word(1) = Sig)

\* Every kind of descriptor is accepted as it was written, and refused when one of
\* the words that count was changed or is missing, with the one exception that the
\* code cannot tell a signature from data whose check value is the same
\* (decompress.cpp:428-451, format.cpp:167-173).
DescriptorChecked ==
  verdict # "none" /\ ~Ambiguous =>
    /\ damaged = {} => verdict = "ok"
    /\ damaged \cap Compared # {} => verdict # "ok"
===============================================================================
