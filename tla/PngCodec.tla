------------------------------- MODULE PngCodec --------------------------------
(***************************************************************************)
(* encode() and decode() of src/src/pigzpp/png.cpp: rows of bytes are      *)
(* filtered, compressed and put into chunks; a file that may have been     *)
(* damaged meanwhile is taken apart again.                                 *)
(*                                                                         *)
(* Of the zlib stream only the places of the filtered bytes in it matter,  *)
(* and the check value behind them, in one place.  A damaged chunk does    *)
(* not have its CRC any more, and what a stream with a gap is inflated to  *)
(* does not have the check value of the image; but ISA-L, as it is used    *)
(* here, need not come to the check value.                                 *)
(***************************************************************************)
EXTENDS Integers, Sequences, SequencesExt

CONSTANTS
  Base,       \* 256, the number of values of a byte
  MaxUInt,    \* UINT_MAX: the counters of zlib and ISA-L hold no more
  Images,     \* images to encode
  Modes,      \* filter modes: 0 to 4 a filter, 5 adaptive-fast, 6 adaptive-all
  ChunkSizes, \* options.idat_chunk_size
  MaxDamages  \* bound on the changes to a file

Bytes == 0 .. Base - 1

ASSUME BaseAssumption == Base \in Nat \ {0} /\ MaxUInt \in Nat /\ MaxDamages \in Nat
ASSUME ModesAssumption == Modes \subseteq 0 .. 6 /\ ChunkSizes \subseteq Nat \ {0}
ASSUME ImagesAssumption ==
  \A i \in Images :
    /\ i.width \in Nat \ {0} /\ i.height \in Nat \ {0} /\ i.channels \in Nat \ {0}
    /\ i.pixels \in [1 .. i.height -> [1 .. i.width * i.channels -> Bytes]]

VARIABLES
  stage,      \* where encode() or decode() is
  image,      \* the image
  mode,       \* options.filter
  isal,       \* whether the build uses ISA-L
  dense,      \* whether the rows cannot be compressed, so that the stream is as long
  lines,      \* the filtered rows, each with its filter
  tried,      \* filters of adaptive_*_filters that have been tried for the row
  best,       \* the best of them, a filter and its score
  chunks,     \* chunks of the file
  extra,      \* whether something follows the last chunk
  damages,    \* number of changes made to the file
  changes,    \* history: the kinds of these changes
  at,         \* chunks that have been read
  ihdr,       \* whether IHDR has been read: seen_ihdr
  compressed, \* places in the zlib stream, as collected from the chunks
  pixels,     \* the image decoded so far
  row, col    \* the byte unfilter_row is at

call == <<image, mode, isal, dense>>
encoding == <<lines, tried, best>>
reading == <<at, ihdr, compressed>>
decoding == <<pixels, row, col>>
pngVars == <<stage, call, encoding, chunks, extra, damages, changes, reading, decoding>>

\* What a byte is that is not one of the image.
Garbage == -1

\* Mutant of Wrap: the result is not cut to a byte.
WrapNot(v) == v

\* static_cast<uint8_t>.
Wrap(v) == v % Base

Abs(v) == IF v < 0 THEN -v ELSE v

RowBytes == image.width * image.channels
Scanlines == (RowBytes + 1) * image.height

-------------------------------------------------------------------------------
(* Filters. *)

\* The byte of an image at row r and column c, 0 beyond its edges.
Pixel(img, r, c) == IF r >= 1 /\ c >= 1 THEN img[r][c] ELSE 0

Paeth(left, up, upperLeft) ==
  LET estimate == left + up - upperLeft
      dl == Abs(estimate - left) du == Abs(estimate - up) dul == Abs(estimate - upperLeft)
  IN IF dl <= du /\ dl <= dul THEN left ELSE IF du <= dul THEN up ELSE upperLeft

\* The byte a filter expects at row r and column c from its neighbours, with bpp
\* bytes in a pixel.
Prediction(filter, img, r, c, bpp) ==
  LET left == Pixel(img, r, c - bpp)
      up   == Pixel(img, r - 1, c)
  IN CASE filter = 0 -> 0
       [] filter = 1 -> left
       [] filter = 2 -> up
       [] filter = 3 -> (left + up) \div 2
       [] filter = 4 -> Paeth(left, up, Pixel(img, r - 1, c - bpp))

\* filter_row: the bytes, and their score, for which they are taken as signed
\* numbers without the sign.
Filtered(filter, r) ==
  [c \in 1 .. RowBytes |->
     Wrap(image.pixels[r][c] - Prediction(filter, image.pixels, r, c, image.channels))]

Cost(value) == IF value < Base \div 2 THEN value ELSE Base - value
Score(filter, r) == FoldFunction(LAMBDA value, sum : sum + Cost(value), 0, Filtered(filter, r))

Line(filter, r) == [filter |-> filter, bytes |-> Filtered(filter, r)]

-------------------------------------------------------------------------------
(* Encoding. *)

\* best_score is UINT64_MAX when a row begins.
NoBest == [line |-> [filter |-> 0, bytes |-> <<>>], score |-> -1]

PngInit ==
  /\ stage = "filter" /\ image \in Images /\ mode \in Modes /\ isal \in BOOLEAN /\ dense \in BOOLEAN
  /\ lines = <<>> /\ tried = 0 /\ best = NoBest
  /\ chunks = <<>> /\ extra = FALSE /\ damages = 0 /\ changes = {}
  /\ at = 0 /\ ihdr = FALSE /\ compressed = <<>>
  /\ pixels = <<>> /\ row = 1 /\ col = 1

FilterRow ==
  /\ stage = "filter" /\ mode <= 4 /\ Len(lines) < image.height
  /\ lines' = Append(lines, Line(mode, Len(lines) + 1))
  /\ UNCHANGED <<stage, call, tried, best, chunks, extra, damages, changes, reading, decoding>>

Filters == IF mode = 5 THEN 3 ELSE 5

\* Mutant of Standing: the best score is not reset for a new row.
StandingKept == best

\* What a filter has to beat.
Standing == IF tried = 0 THEN NoBest ELSE best

\* Filters 0, 1, ... are tried, and the first with the lowest score is kept.
TryFilter ==
  /\ stage = "filter" /\ mode > 4 /\ Len(lines) < image.height
  /\ LET r      == Len(lines) + 1
         score  == Score(tried, r)
         better == IF Standing.score < 0 \/ score < Standing.score
                   THEN [line |-> Line(tried, r), score |-> score] ELSE Standing
     IN /\ best' = better
        /\ tried' = (tried + 1) % Filters
        /\ lines' = IF tried' = 0 THEN Append(lines, better.line) ELSE lines
  /\ UNCHANGED <<stage, call, chunks, extra, damages, changes, reading, decoding>>

\* static_cast<uInt>.
Cut(n) == n % (MaxUInt + 1)

\* The filtered bytes that zlib is handed: avail_in is a uInt.
Held == Cut(Scanlines)

\* Places in the zlib stream: of the bytes, and of the check value.
ZStream == [i \in 1 .. Held + 1 |-> i]

Chunk(type, data) == [type |-> type, data |-> data, sound |-> TRUE]

\* Mutant of Idats: what does not fill a chunk is left out.
FullIdats(size) ==
  [k \in 1 .. (Len(ZStream) \div size) |-> Chunk("IDAT", SubSeq(ZStream, (k - 1) * size + 1, k * size))]

Idats(size) ==
  [k \in 1 .. ((Len(ZStream) + size - 1) \div size) |->
     Chunk("IDAT", SubSeq(ZStream, (k - 1) * size + 1,
                          IF k * size < Len(ZStream) THEN k * size ELSE Len(ZStream)))]

\* ISA-L is handed rows that fit its counter, and takes what it writes from a small
\* buffer. zlib, for all other rows and some levels and strategies, is said to have a
\* buffer of no size if the stream may be too long for avail_out: encode() throws.
EncodeFails ==
  /\ stage = "filter" /\ Len(lines) = image.height /\ stage' = "failed"
  /\ Cut(Len(ZStream)) = 0
  /\ UNCHANGED <<call, encoding, chunks, extra, damages, changes, reading, decoding>>

WriteChunks ==
  /\ stage = "filter" /\ Len(lines) = image.height /\ stage' = "stored"
  /\ Cut(Len(ZStream)) = 0 => ~dense \/ (isal /\ Scanlines <= MaxUInt)
  /\ \E size \in ChunkSizes :
       chunks' = <<Chunk("IHDR", <<>>)>> \o Idats(size) \o <<Chunk("IEND", <<>>)>>
  /\ UNCHANGED <<call, encoding, extra, damages, changes, reading, decoding>>

-------------------------------------------------------------------------------
(* What may happen to a file. *)

Damage ==
  /\ stage = "stored" /\ damages < MaxDamages /\ damages' = damages + 1
  /\ \E i \in 1 .. Len(chunks), kind \in {"crc", "lost", "repeated", "cut off", "appended"} :
       /\ changes' = changes \cup {kind}
       /\ chunks' = CASE kind = "crc" -> [chunks EXCEPT ![i].sound = FALSE]
                       [] kind = "lost" -> RemoveAt(chunks, i)
                       [] kind = "repeated" -> InsertAt(chunks, i, chunks[i])
                       [] kind = "cut off" -> SubSeq(chunks, 1, i - 1)
                       [] kind = "appended" -> chunks
       /\ extra' = (extra \/ kind = "appended")
  /\ UNCHANGED <<stage, call, encoding, reading, decoding>>

\* Another program adds a chunk of a type of its own.
Annotate ==
  /\ stage = "stored" /\ damages < MaxDamages /\ damages' = damages + 1
  /\ \E i \in 2 .. Len(chunks) : chunks' = InsertAt(chunks, i, Chunk("other", <<>>))
  /\ changes' = changes \cup {"annotated"}
  /\ UNCHANGED <<stage, call, encoding, extra, reading, decoding>>

-------------------------------------------------------------------------------
(* Decoding. *)

Open ==
  /\ stage = "stored" /\ stage' = "read"
  /\ UNCHANGED <<call, encoding, chunks, extra, damages, changes, reading, decoding>>

\* CRC mismatch, IHDR not first or not alone, data behind IEND.
Refused(c) ==
  \/ ~c.sound
  \/ c.type = "IHDR" <=> ihdr
  \/ c.type = "IEND" /\ (at + 1 < Len(chunks) \/ extra)

ReadChunk ==
  /\ stage = "read" /\ at < Len(chunks)
  /\ LET c == chunks[at + 1]
     IN \/ /\ Refused(c)
           /\ stage' = "refused" /\ UNCHANGED reading
        \/ /\ ~Refused(c)
           /\ at' = at + 1
           /\ ihdr' = (ihdr \/ c.type = "IHDR")
           /\ compressed' = IF c.type = "IDAT" THEN compressed \o c.data ELSE compressed
           /\ stage' = IF c.type = "IEND" THEN "inflate" ELSE "read"
  /\ UNCHANGED <<call, encoding, chunks, extra, damages, changes, decoding>>

\* No IEND, or a chunk that is cut off.
EndOfFile ==
  /\ stage = "read" /\ at = Len(chunks) /\ stage' = "refused"
  /\ UNCHANGED <<call, encoding, chunks, extra, damages, changes, reading, decoding>>

\* zlib wants the whole stream, of which it is handed what avail_in holds, and lets
\* anything follow it.
Seen == IF dense THEN SubSeq(compressed, 1, Cut(Len(compressed))) ELSE compressed
ZlibInflates == Held = Scanlines /\ IsPrefix(ZStream, Seen)

\* ISA-L, which is tried first, is content when it has filled the output, be it with
\* the end of the stream and its check value missing or with bytes of a stream that is
\* another one.
IsalTakes == isal /\ Scanlines <= MaxUInt /\ (dense => Len(compressed) <= MaxUInt)
Rows == SubSeq(ZStream, 1, Held)

Misplaced == ~IsPrefix(Rows, compressed) /\ ~IsPrefix(compressed, Rows)

Every(byte) == [r \in 1 .. image.height |-> [c \in 1 .. RowBytes |-> byte]]

Inflate ==
  /\ stage = "inflate"
  /\ \/ /\ ZlibInflates \/ (IsalTakes /\ IsPrefix(Rows, compressed))
        /\ stage' = "unfilter"
        /\ pixels' = Every(0) /\ row' = 1 /\ col' = 1
     \/ /\ IsalTakes /\ Misplaced
        /\ stage' = "decoded"
        /\ pixels' = Every(Garbage) /\ UNCHANGED <<row, col>>
     \/ /\ ~ZlibInflates
        /\ stage' = "refused" /\ UNCHANGED decoding
  /\ UNCHANGED <<call, encoding, chunks, extra, damages, changes, reading>>

\* Mutant of Unfiltered: the byte before is taken for that of the pixel before.
UnfilteredBytewise ==
  Wrap(lines[row].bytes[col] + Prediction(lines[row].filter, pixels, row, col, 1))

\* unfilter_row, which predicts from what it has decoded.
Unfiltered ==
  Wrap(lines[row].bytes[col] + Prediction(lines[row].filter, pixels, row, col, image.channels))

UnfilterByte ==
  /\ stage = "unfilter"
  /\ pixels' = [pixels EXCEPT ![row][col] = Unfiltered]
  /\ row' = IF col < RowBytes THEN row ELSE row + 1
  /\ col' = IF col < RowBytes THEN col + 1 ELSE 1
  /\ stage' = IF row' > image.height THEN "decoded" ELSE "unfilter"
  /\ UNCHANGED <<call, encoding, chunks, extra, damages, changes, reading>>

PngNext ==
  \/ FilterRow \/ TryFilter \/ EncodeFails \/ WriteChunks \/ Damage \/ Annotate
  \/ Open \/ ReadChunk \/ EndOfFile \/ Inflate \/ UnfilterByte

PngSpec == PngInit /\ [][PngNext]_pngVars

-------------------------------------------------------------------------------

\* Every filtered row has the bytes and one of the five filters the format knows.
PngTypeOK ==
  /\ lines \in Seq([filter : 0 .. 4, bytes : [1 .. RowBytes -> Bytes]])
  /\ Len(lines) <= image.height /\ (stage # "filter" => Len(lines) = image.height)
  /\ stage = "decoded" => pixels \in [1 .. image.height -> [1 .. RowBytes -> Bytes \cup {Garbage}]]

\* What decode() returns is the image, for all images, filters and sizes of chunks, and
\* also if the image was too large for the counters of zlib, or the file was damaged,
\* cut off or added to on its way: it refuses the file, or the image comes out. With
\* zlib this holds if chunks were lost or repeated as well. With ISA-L it does not:
\* the output may be filled with bytes of a stream whose check value nobody compares
\* (png.cpp:187-190, 213-219, 274-374, 435-479, 544-630).
InPlace == changes \cap {"lost", "repeated"} = {}
AlwaysTheImage == stage = "decoded" /\ (isal => InPlace) => pixels = image.pixels

\* decode() refuses no file that encode() has written, with whatever chunks of other
\* types in between, if both the filtered rows and the stream they are compressed to
\* fit the counters of zlib (png.cpp:175, 187-190, 249-257, 558-615).
Intact == changes \subseteq {"annotated"}
Countable == Scanlines <= MaxUInt /\ (dense => Len(ZStream) <= MaxUInt)
IntactDecodes == Intact /\ Countable => stage # "refused"

\* The adaptive modes keep, for each row by itself, a filter with the lowest score of
\* those they try (png.cpp:330-345).
BestFilter ==
  mode > 4 => \A r \in DOMAIN lines, filter \in 0 .. Filters - 1 :
                Score(lines[r].filter, r) <= Score(filter, r)
===============================================================================
