----------------------------- MODULE PngCodecProofs -----------------------------
(***************************************************************************)
(* What holds of PngCodec for all images, any number of values of a byte   *)
(* and any number of changes to the chunks of the file: what is decoded is *)
(* what was encoded, as long as ISA-L does not inflate a stream of which   *)
(* chunks are lost or repeated; an intact file that fits the counters is   *)
(* never refused; and the adaptive modes keep the best of their filters.   *)
(***************************************************************************)
EXTENDS PngCodec, SequenceTheorems, FiniteSetTheorems, WellFoundedInduction, TLAPS

-------------------------------------------------------------------------------
(* What decode() restores is the image that encode() was given,
   for all images, any number of values of a byte, and any changes to the
   chunks of the file.

   What a byte was filtered with is what it is restored with, because both
   predict it from the same neighbours: encode() from those of the image,
   decode() from those it has restored already.  The invariant therefore says
   that everything before row and col is as it was in the image. *)

Setting == image \in Images /\ mode \in 0 .. 6

\* The bytes of the r-th row are those that its filter makes of the image.
LinesFiltered ==
  /\ lines \in Seq([filter : 0 .. 4, bytes : [1 .. RowBytes -> Bytes]])
  /\ Len(lines) <= image.height
  /\ stage # "filter" => Len(lines) = image.height
  /\ \A r \in 1 .. Len(lines) : lines[r].bytes = Filtered(lines[r].filter, r)

\* While filters are tried for a row, the best one so far is one for that row.
BestOfRow ==
  /\ tried \in 0 .. 4
  /\ tried # 0 => /\ mode > 4 /\ Len(lines) < image.height
                  /\ best.line.filter \in 0 .. 4
                  /\ best.line = Line(best.line.filter, Len(lines) + 1)

\* The bytes that have been restored.
Restored(r, c) == r < row \/ (r = row /\ c < col)

Restoring ==
  /\ stage = "unfilter" =>
       /\ row \in 1 .. image.height /\ col \in 1 .. RowBytes
       /\ pixels \in [1 .. image.height -> [1 .. RowBytes -> Bytes]]
       /\ \A r \in 1 .. image.height, c \in 1 .. RowBytes :
            Restored(r, c) => pixels[r][c] = image.pixels[r][c]
  /\ stage = "decoded" => pixels = image.pixels \/ (isal /\ Misplaced /\ pixels = Every(Garbage))

PngInv == Setting /\ LinesFiltered /\ BestOfRow /\ Restoring

-------------------------------------------------------------------------------
\* A difference that was cut to a byte gives the byte back when what was
\* subtracted is added and the sum is cut again (png.cpp:300, 373).
LEMMA WrapUndone ==
  ASSUME NEW x \in Bytes, NEW p \in Bytes
  PROVE  Wrap(Wrap(x - p) + p) = x /\ Wrap(x - p) \in Bytes
  <1>0. Base \in Nat \ {0} /\ x \in 0 .. Base - 1 /\ p \in 0 .. Base - 1
    BY BaseAssumption DEF Bytes
  <1>1. CASE x >= p
    <2>1. x - p \in 0 .. Base - 1
      BY <1>0, <1>1
    <2>2. (x - p) % Base = x - p /\ x % Base = x
      BY <1>0, <2>1
    <2> QED BY <1>0, <2>1, <2>2 DEF Wrap, Bytes
  <1>2. CASE x < p
    <2>1. x - p \in Int /\ x - p < 0 /\ x - p + Base \in 0 .. Base - 1
      BY <1>0, <1>2
    <2>2. (x - p) % Base = x - p + Base
      BY <1>0, <2>1
    <2>3. (x + Base) % Base = x
      BY <1>0
    <2> QED BY <1>0, <2>1, <2>2, <2>3 DEF Wrap, Bytes
  <1> QED BY <1>0, <1>1, <1>2

LEMMA WrapByte ==
  ASSUME NEW v \in Int
  PROVE  Wrap(v) \in Bytes
  BY BaseAssumption DEF Wrap, Bytes

\* What is known of an image.
LEMMA ImageTypes ==
  ASSUME Setting
  PROVE  /\ image.width \in Nat \ {0} /\ image.height \in Nat \ {0} /\ image.channels \in Nat \ {0}
         /\ RowBytes \in Nat \ {0}
         /\ image.pixels \in [1 .. image.height -> [1 .. RowBytes -> Bytes]]
  <1>1. /\ image.width \in Nat \ {0} /\ image.height \in Nat \ {0} /\ image.channels \in Nat \ {0}
        /\ image.pixels \in [1 .. image.height -> [1 .. image.width * image.channels -> Bytes]]
    BY ImagesAssumption DEF Setting
  <1>2. image.width * image.channels \in Nat \ {0}
    <2>1. \A a, b \in Nat \ {0} : a * b \in Nat \ {0}
      OBVIOUS
    <2> QED BY <1>1, <2>1
  <1> QED BY <1>1, <1>2 DEF RowBytes

\* A prediction is one of the neighbours, their mean, or 0: a byte
\* (png.cpp:262-300).
LEMMA PredictionIsByte ==
  ASSUME NEW f \in 0 .. 4, NEW img, NEW r, NEW c, NEW bpp,
         Pixel(img, r, c - bpp) \in Bytes, Pixel(img, r - 1, c) \in Bytes,
         Pixel(img, r - 1, c - bpp) \in Bytes
  PROVE  Prediction(f, img, r, c, bpp) \in Bytes
  <1> DEFINE before == Pixel(img, r, c - bpp)
             up     == Pixel(img, r - 1, c)
             ul     == Pixel(img, r - 1, c - bpp)
  <1>0. before \in Bytes /\ up \in Bytes /\ ul \in Bytes
    OBVIOUS
  <1>1. Prediction(f, img, r, c, bpp) =
          CASE f = 0 -> 0 [] f = 1 -> before [] f = 2 -> up
            [] f = 3 -> (before + up) \div 2 [] f = 4 -> Paeth(before, up, ul)
    BY DEF Prediction
  <1> HIDE DEF before, up, ul
  <1>2. 0 \in Bytes
    BY BaseAssumption DEF Bytes
  <1>3. (before + up) \div 2 \in Bytes
    BY <1>0, BaseAssumption DEF Bytes
  <1>4. Paeth(before, up, ul) \in Bytes
    BY <1>0 DEF Paeth
  <1> QED BY <1>0, <1>1, <1>2, <1>3, <1>4

\* The neighbours of a byte in an image are bytes.
LEMMA PixelIsByte ==
  ASSUME Setting, NEW img \in [1 .. image.height -> [1 .. RowBytes -> Bytes]],
         NEW r \in Int, r <= image.height, NEW c \in Int, c <= RowBytes
  PROVE  Pixel(img, r, c) \in Bytes
  <1>1. CASE r >= 1 /\ c >= 1
    <2>1. r \in 1 .. image.height /\ c \in 1 .. RowBytes
      BY <1>1, ImageTypes
    <2>2. Pixel(img, r, c) = img[r][c]
      BY <1>1 DEF Pixel
    <2>3. img[r] \in [1 .. RowBytes -> Bytes]
      BY <2>1
    <2>4. img[r][c] \in Bytes
      BY <2>1, <2>3
    <2> QED BY <2>2, <2>4
  <1>2. CASE ~(r >= 1 /\ c >= 1)
    BY <1>2, BaseAssumption DEF Pixel, Bytes
  <1> QED BY <1>1, <1>2

LEMMA Predicted ==
  ASSUME Setting, NEW img \in [1 .. image.height -> [1 .. RowBytes -> Bytes]],
         NEW f \in 0 .. 4, NEW r \in 1 .. image.height, NEW c \in 1 .. RowBytes
  PROVE  Prediction(f, img, r, c, image.channels) \in Bytes
  <1>1. /\ r \in Int /\ r - 1 \in Int /\ r - 1 <= image.height /\ r <= image.height
        /\ c \in Int /\ c - image.channels \in Int /\ c <= RowBytes /\ c - image.channels <= RowBytes
    BY ImageTypes
  <1>2. /\ Pixel(img, r, c - image.channels) \in Bytes /\ Pixel(img, r - 1, c) \in Bytes
        /\ Pixel(img, r - 1, c - image.channels) \in Bytes
    BY <1>1, PixelIsByte
  <1> QED BY <1>2, PredictionIsByte

LEMMA FilteredBytes ==
  ASSUME Setting, NEW f \in 0 .. 4, NEW r \in 1 .. image.height
  PROVE  Filtered(f, r) \in [1 .. RowBytes -> Bytes]
  <1>1. ASSUME NEW c \in 1 .. RowBytes
        PROVE  Wrap(image.pixels[r][c] - Prediction(f, image.pixels, r, c, image.channels)) \in Bytes
    <2>1. image.pixels[r][c] \in Bytes
      BY ImageTypes
    <2>2. Prediction(f, image.pixels, r, c, image.channels) \in Bytes
      BY ImageTypes, Predicted
    <2> QED BY <2>1, <2>2, WrapUndone
  <1> QED BY <1>1 DEF Filtered

\* A neighbour is restored before the byte that is predicted from it.
LEMMA SameNeighbour ==
  ASSUME PngInv, stage = "unfilter", NEW r \in Int, NEW c \in Int,
         r < row \/ (r = row /\ c < col), c <= RowBytes
  PROVE  Pixel(pixels, r, c) = Pixel(image.pixels, r, c)
  <1>1. CASE r >= 1 /\ c >= 1
    <2>1. r \in 1 .. image.height /\ c \in 1 .. RowBytes /\ Restored(r, c)
      BY <1>1, ImageTypes DEF PngInv, Restoring, Restored
    <2>2. pixels[r][c] = image.pixels[r][c]
      BY <2>1 DEF PngInv, Restoring
    <2> QED BY <1>1, <2>2 DEF Pixel
  <1>2. CASE ~(r >= 1 /\ c >= 1)
    BY <1>2 DEF Pixel
  <1> QED BY <1>1, <1>2

\* unfilter_row restores the byte it is at (png.cpp:357-372).
LEMMA ByteRestored ==
  ASSUME PngInv, stage = "unfilter"
  PROVE  Unfiltered = image.pixels[row][col] /\ image.pixels[row][col] \in Bytes
  <1> DEFINE f   == lines[row].filter
             bpp == image.channels
             x   == image.pixels[row][col]
  <1>1. /\ Setting /\ row \in 1 .. image.height /\ col \in 1 .. RowBytes /\ Len(lines) = image.height
        /\ lines \in Seq([filter : 0 .. 4, bytes : [1 .. RowBytes -> Bytes]])
        /\ lines[row].bytes = Filtered(f, row) /\ bpp \in Nat \ {0} /\ image.height \in Nat
    BY ImageTypes DEF PngInv, LinesFiltered, Restoring
  <1>2. f \in 0 .. 4
    <2>1. lines[row] \in [filter : 0 .. 4, bytes : [1 .. RowBytes -> Bytes]]
      <3> DEFINE R == [filter : 0 .. 4, bytes : [1 .. RowBytes -> Bytes]]
      <3>1. lines \in Seq(R) /\ row \in 1 .. Len(lines)
        BY <1>1
      <3> HIDE DEF R
      <3>2. lines[row] \in R
        BY <3>1
      <3> QED BY <3>2 DEF R
    <2> QED BY <2>1
  <1>3. x \in Bytes
    BY <1>1, ImageTypes
  <1> DEFINE p == Prediction(f, image.pixels, row, col, bpp)
  <1>4. p \in Bytes
    BY <1>1, <1>2, Predicted, ImageTypes
  <1>5. lines[row].bytes[col] = Wrap(x - p)
    BY <1>1 DEF Filtered
  <1>6. Prediction(f, pixels, row, col, bpp) = p
    <2>1. /\ row \in Int /\ row - 1 \in Int /\ row - 1 < row
          /\ col \in Int /\ col - bpp \in Int /\ col - bpp < col /\ col <= RowBytes /\ col - bpp <= RowBytes
      BY <1>1, ImageTypes
    <2>2. /\ Pixel(pixels, row, col - bpp) = Pixel(image.pixels, row, col - bpp)
          /\ Pixel(pixels, row - 1, col) = Pixel(image.pixels, row - 1, col)
          /\ Pixel(pixels, row - 1, col - bpp) = Pixel(image.pixels, row - 1, col - bpp)
      BY <2>1, SameNeighbour
    <2> QED BY <2>2 DEF Prediction
  <1> QED BY <1>3, <1>4, <1>5, <1>6, WrapUndone DEF Unfiltered

-------------------------------------------------------------------------------
\* What another line, filtered as it says, does to the lines.
LEMMA LineAppended ==
  ASSUME Setting, LinesFiltered, Len(lines) < image.height, stage' = "filter",
         NEW f \in 0 .. 4, lines' = Append(lines, Line(f, Len(lines) + 1)), image' = image
  PROVE  LinesFiltered'
  <1> DEFINE r == Len(lines) + 1
             R == [filter : 0 .. 4, bytes : [1 .. RowBytes -> Bytes]]
             new == Line(f, r)
  <1>1. r \in 1 .. image.height /\ Len(lines) \in Nat /\ lines \in Seq(R)
    BY ImageTypes DEF LinesFiltered
  <1>2. Filtered(f, r) \in [1 .. RowBytes -> Bytes]
    BY <1>1, FilteredBytes
  <1>3. new \in R /\ new.filter = f /\ new.bytes = Filtered(f, r)
    BY <1>2 DEF Line
  <1>4. RowBytes' = RowBytes /\ \A g, q : Filtered(g, q)' = Filtered(g, q)
    BY DEF RowBytes, Filtered
  <1> HIDE DEF R, new
  <1>5. /\ lines' \in Seq(R) /\ Len(lines') = r /\ lines'[r] = new
        /\ \A q \in 1 .. Len(lines) : lines'[q] = lines[q]
    <2>1. lines' = Append(lines, new)
      BY DEF new
    <2> QED BY <1>1, <1>3, <2>1
  <1>6. \A q \in 1 .. Len(lines') : lines'[q].bytes = Filtered(lines'[q].filter, q)
    <2> TAKE q \in 1 .. Len(lines')
    <2>1. CASE q = r
      BY <2>1, <1>3, <1>5
    <2>2. CASE q \in 1 .. Len(lines)
      BY <2>2, <1>5 DEF LinesFiltered
    <2> QED BY <2>1, <2>2, <1>1, <1>5
  <1>7. lines' \in Seq([filter : 0 .. 4, bytes : [1 .. RowBytes' -> Bytes]])
    BY <1>4, <1>5 DEF R
  <1>8. Len(lines') <= image'.height
    BY <1>1, <1>5
  <1> QED BY <1>4, <1>6, <1>7, <1>8 DEF LinesFiltered

\* What leaves the lines, the filters and the image alone.
LEMMA EncodingKept ==
  ASSUME PngInv, UNCHANGED <<image, mode, lines, tried, best>>, stage # "filter" \/ stage' = stage
  PROVE  Setting' /\ LinesFiltered' /\ BestOfRow'
  <1>1. RowBytes' = RowBytes /\ (\A g, q : Filtered(g, q)' = Filtered(g, q))
        /\ (\A g, q : Line(g, q)' = Line(g, q))
    BY DEF RowBytes, Filtered, Line
  <1>2. stage' # "filter" => stage # "filter"
    OBVIOUS
  <1> QED BY <1>1, <1>2 DEF PngInv, Setting, LinesFiltered, BestOfRow

\* A row is filtered with the filter that was chosen.
LEMMA FilterRowStep == PngInv /\ FilterRow => PngInv'
  <1> SUFFICES ASSUME PngInv, FilterRow PROVE PngInv'
    OBVIOUS
  <1>1. /\ mode \in 0 .. 4 /\ lines' = Append(lines, Line(mode, Len(lines) + 1)) /\ Len(lines) < image.height
        /\ stage = "filter" /\ stage' = "filter" /\ image' = image /\ mode' = mode
        /\ tried' = tried /\ best' = best
    BY DEF PngInv, Setting, FilterRow, call
  <1>2. LinesFiltered'
    BY <1>1, LineAppended DEF PngInv
  <1>3. Setting'
    BY <1>1 DEF PngInv, Setting
  <1>4. BestOfRow'
    BY <1>1 DEF PngInv, BestOfRow
  <1>5. Restoring'
    BY <1>1 DEF Restoring
  <1> QED BY <1>2, <1>3, <1>4, <1>5 DEF PngInv

\* An adaptive mode tries a filter, and after the last one appends the best.
LEMMA TryFilterStep == PngInv /\ TryFilter => PngInv'
  <1> SUFFICES ASSUME PngInv, TryFilter PROVE PngInv'
    OBVIOUS
  <1> DEFINE r == Len(lines) + 1
             score  == Score(tried, r)
             better == IF Standing.score < 0 \/ score < Standing.score
                       THEN [line |-> Line(tried, r), score |-> score] ELSE Standing
  <1>1. /\ mode > 4 /\ Len(lines) < image.height /\ stage = "filter" /\ stage' = "filter"
        /\ image' = image /\ mode' = mode
        /\ best' = better /\ tried' = (tried + 1) % Filters
        /\ lines' = IF tried' = 0 THEN Append(lines, better.line) ELSE lines
    BY DEF TryFilter, call
  <1>2. tried \in 0 .. 4 /\ tried' \in 0 .. 4
    BY <1>1 DEF PngInv, BestOfRow, Filters
  <1>3. better.line.filter \in 0 .. 4 /\ better.line = Line(better.line.filter, r)
    <2>1. CASE Standing.score < 0 \/ score < Standing.score
      <3>1. better.line = Line(tried, r)
        BY <2>1
      <3>2. Line(tried, r).filter = tried
        BY DEF Line
      <3> QED BY <3>1, <3>2, <1>2
    <2>2. CASE ~(Standing.score < 0 \/ score < Standing.score)
      <3>1. tried # 0
        <4>1. NoBest.score < 0
          BY DEF NoBest
        <4> QED BY <2>2, <4>1 DEF Standing
      <3>2. better = best
        BY <2>2, <3>1 DEF Standing
      <3> QED BY <3>1, <3>2 DEF PngInv, BestOfRow
    <2> QED BY <2>1, <2>2
  <1> HIDE DEF better
  <1>4. Setting'
    BY <1>1 DEF PngInv, Setting
  <1>5. Restoring'
    BY <1>1 DEF Restoring
  <1>6. CASE tried' = 0
    <2>1. lines' = Append(lines, Line(better.line.filter, Len(lines) + 1))
      BY <1>1, <1>3, <1>6
    <2>2. LinesFiltered'
      BY <1>1, <1>3, <2>1, LineAppended DEF PngInv
    <2>3. BestOfRow'
      BY <1>6 DEF BestOfRow
    <2> QED BY <1>4, <1>5, <2>2, <2>3 DEF PngInv
  <1>7. CASE tried' # 0
    <2>1. lines' = lines
      BY <1>1, <1>7
    <2>2. RowBytes' = RowBytes /\ (\A g, q : Filtered(g, q)' = Filtered(g, q))
          /\ (\A g, q : Line(g, q)' = Line(g, q))
      BY <1>1 DEF RowBytes, Filtered, Line
    <2>3. LinesFiltered'
      BY <1>1, <2>1, <2>2 DEF PngInv, LinesFiltered
    <2>4. BestOfRow'
      <3>1. best'.line = Line(best'.line.filter, Len(lines) + 1) /\ best'.line.filter \in 0 .. 4
        BY <1>1, <1>3
      <3>2. Line(best.line.filter, Len(lines) + 1)' = Line(best'.line.filter, Len(lines) + 1)
        BY <1>1, <2>1 DEF Line, Filtered, RowBytes
      <3>3. best'.line = Line(best.line.filter, Len(lines) + 1)'
        BY <3>1, <3>2
      <3> QED BY <1>1, <1>2, <2>1, <3>1, <3>3 DEF BestOfRow
    <2> QED BY <1>4, <1>5, <2>3, <2>4 DEF PngInv
  <1> QED BY <1>6, <1>7

\* Before anything is restored.
LEMMA InflateStep == PngInv /\ Inflate => PngInv'
  <1> SUFFICES ASSUME PngInv, Inflate PROVE PngInv'
    OBVIOUS
  <1>1. /\ stage = "inflate" /\ stage' \in {"unfilter", "decoded", "refused"}
        /\ UNCHANGED <<image, mode, isal, lines, tried, best, compressed>>
        /\ stage' = "unfilter" => /\ pixels' = [r \in 1 .. image.height |-> [c \in 1 .. RowBytes |-> 0]]
                               /\ row' = 1 /\ col' = 1
        /\ stage' = "decoded" => isal /\ Misplaced /\ pixels' = Every(Garbage)
    BY DEF Inflate, encoding, call, reading, IsalTakes, Every
  <1>2. Setting' /\ LinesFiltered' /\ BestOfRow'
    BY <1>1, EncodingKept
  <1>3. Restoring'
    <2>1. CASE stage' = "unfilter"
      <3>1. RowBytes' = RowBytes /\ image' = image
        BY <1>1 DEF RowBytes
      <3>2. 0 \in Bytes
        BY BaseAssumption DEF Bytes
      <3>3. pixels' \in [1 .. image.height -> [1 .. RowBytes -> Bytes]]
        BY <1>1, <2>1, <3>2
      <3>4. row' \in 1 .. image.height /\ col' \in 1 .. RowBytes
        BY <1>1, <2>1, ImageTypes DEF PngInv
      <3>5. ASSUME NEW r \in 1 .. image.height, NEW c \in 1 .. RowBytes
            PROVE  ~Restored(r, c)'
        BY <1>1, <2>1, ImageTypes DEF PngInv, Restored
      <3> QED BY <2>1, <3>1, <3>3, <3>4, <3>5 DEF Restoring
    <2>2. CASE stage' = "refused"
      BY <2>2 DEF Restoring
    <2>3. CASE stage' = "decoded"
      <3>1. Misplaced' = Misplaced /\ Every(Garbage)' = Every(Garbage)
        BY <1>1 DEF Misplaced, Rows, ZStream, Held, Scanlines, RowBytes, Every
      <3> QED BY <1>1, <2>3, <3>1 DEF Restoring
    <2> QED BY <1>1, <2>1, <2>2, <2>3
  <1> QED BY <1>2, <1>3 DEF PngInv

\* A byte is restored, in the order of rows and columns.
LEMMA UnfilterStep == PngInv /\ UnfilterByte => PngInv'
  <1> SUFFICES ASSUME PngInv, UnfilterByte PROVE PngInv'
    OBVIOUS
  <1> DEFINE H == image.height
  <1>1. /\ stage = "unfilter" /\ UNCHANGED <<image, mode, lines, tried, best>>
        /\ pixels' = [pixels EXCEPT ![row][col] = Unfiltered]
        /\ row' = IF col < RowBytes THEN row ELSE row + 1
        /\ col' = IF col < RowBytes THEN col + 1 ELSE 1
        /\ stage' = IF row' > H THEN "decoded" ELSE "unfilter"
    BY DEF UnfilterByte, encoding, call
  <1>2. Setting' /\ LinesFiltered' /\ BestOfRow'
    BY <1>1, EncodingKept
  <1>3. RowBytes' = RowBytes /\ image' = image
    BY <1>1 DEF RowBytes
  <1>4. /\ H \in Nat \ {0} /\ RowBytes \in Nat \ {0} /\ row \in 1 .. H /\ col \in 1 .. RowBytes
        /\ pixels \in [1 .. H -> [1 .. RowBytes -> Bytes]]
        /\ image.pixels \in [1 .. H -> [1 .. RowBytes -> Bytes]]
    BY <1>1, ImageTypes DEF PngInv, Restoring
  <1>5. Unfiltered = image.pixels[row][col] /\ image.pixels[row][col] \in Bytes
    BY <1>1, ByteRestored
  <1> DEFINE b == Unfiltered
  <1> HIDE DEF b
  <1>6. /\ pixels' \in [1 .. H -> [1 .. RowBytes -> Bytes]]
        /\ pixels'[row][col] = b
        /\ \A r \in 1 .. H, c \in 1 .. RowBytes : r # row \/ c # col => pixels'[r][c] = pixels[r][c]
    <2>1. pixels' = [pixels EXCEPT ![row] = [pixels[row] EXCEPT ![col] = b]] /\ b \in Bytes
      BY <1>1, <1>5 DEF b
    <2> DEFINE line == [pixels[row] EXCEPT ![col] = b]
    <2>2. pixels[row] \in [1 .. RowBytes -> Bytes]
      BY <1>4
    <2>3. /\ line \in [1 .. RowBytes -> Bytes] /\ line[col] = b
          /\ \A c \in 1 .. RowBytes : c # col => line[c] = pixels[row][c]
      BY <1>4, <2>1, <2>2
    <2> HIDE DEF line
    <2>4. /\ pixels' \in [1 .. H -> [1 .. RowBytes -> Bytes]] /\ pixels'[row] = line
          /\ \A r \in 1 .. H : r # row => pixels'[r] = pixels[r]
      <3>1. pixels' = [pixels EXCEPT ![row] = line]
        BY <2>1 DEF line
      <3> QED BY <1>4, <2>3, <3>1
    <2> QED BY <2>3, <2>4
  <1>7. ASSUME NEW r \in 1 .. H, NEW c \in 1 .. RowBytes, Restored(r, c) \/ (r = row /\ c = col)
        PROVE  pixels'[r][c] = image.pixels[r][c]
    <2>1. CASE r = row /\ c = col
      BY <2>1, <1>5, <1>6 DEF b
    <2>2. CASE r # row \/ c # col
      <3>1. pixels[r][c] = image.pixels[r][c]
        BY <1>1, <1>7, <2>2 DEF PngInv, Restoring
      <3> QED BY <3>1, <2>2, <1>6
    <2> QED BY <2>1, <2>2
  <1>8. ASSUME NEW r \in 1 .. H, NEW c \in 1 .. RowBytes, Restored(r, c)'
        PROVE  Restored(r, c) \/ (r = row /\ c = col)
    <2>1. CASE col < RowBytes
      BY <1>1, <1>4, <1>8, <2>1 DEF Restored
    <2>2. CASE ~(col < RowBytes)
      BY <1>1, <1>4, <1>8, <2>2 DEF Restored
    <2> QED BY <2>1, <2>2
  <1>9. CASE row' > H
    <2>1. \A r \in 1 .. H, c \in 1 .. RowBytes : Restored(r, c) \/ (r = row /\ c = col)
      <3>1. row = H /\ col = RowBytes
        BY <1>1, <1>4, <1>9
      <3> QED BY <1>4, <3>1 DEF Restored
    <2>2. \A r \in 1 .. H, c \in 1 .. RowBytes : pixels'[r][c] = image.pixels[r][c]
      BY <1>7, <2>1
    <2>3. pixels' = image.pixels
      <3>1. \A r \in 1 .. H : pixels'[r] = image.pixels[r]
        <4> TAKE r \in 1 .. H
        <4>1. pixels'[r] \in [1 .. RowBytes -> Bytes] /\ image.pixels[r] \in [1 .. RowBytes -> Bytes]
          BY <1>4, <1>6
        <4> DEFINE f == pixels'[r]
                   g == image.pixels[r]
                   S == 1 .. RowBytes
        <4>2. f \in [S -> Bytes] /\ g \in [S -> Bytes] /\ \A c \in S : f[c] = g[c]
          BY <4>1, <2>2
        <4> HIDE DEF f, g, S
        <4>3. f = g
          BY <4>2
        <4> QED BY <4>3 DEF f, g
      <3> QED BY <1>4, <1>6, <3>1
    <2>4. Restoring'
      BY <1>1, <1>9, <1>3, <2>3 DEF Restoring
    <2> QED BY <1>2, <2>4 DEF PngInv
  <1>10. CASE ~(row' > H)
    <2>1. row' \in 1 .. H /\ col' \in 1 .. RowBytes /\ stage' = "unfilter"
      BY <1>1, <1>4, <1>10
    <2>2. Restoring'
      BY <1>3, <1>6, <1>7, <1>8, <2>1 DEF Restoring
    <2> QED BY <1>2, <2>2 DEF PngInv
  <1> QED BY <1>9, <1>10

\* The invariant holds of every behaviour.
LEMMA PngInductive == PngSpec => []PngInv
  <1>1. PngInit => PngInv
    <2> SUFFICES ASSUME PngInit PROVE PngInv
      OBVIOUS
    <2>1. Setting
      BY ModesAssumption DEF PngInit, Setting
    <2>2. Len(lines) = 0 /\ lines = <<>> /\ stage = "filter" /\ tried = 0
      BY DEF PngInit
    <2>3. LinesFiltered
      BY <2>1, <2>2, ImageTypes DEF LinesFiltered
    <2> QED BY <2>1, <2>2, <2>3 DEF PngInv, BestOfRow, Restoring
  <1>2. PngInv /\ [PngNext]_pngVars => PngInv'
    <2> SUFFICES ASSUME PngInv, [PngNext]_pngVars PROVE PngInv'
      OBVIOUS
    <2>1. ASSUME EncodeFails \/ WriteChunks \/ Damage \/ Annotate \/ Open \/ ReadChunk \/ EndOfFile PROVE PngInv'
      <3>1. UNCHANGED <<image, mode, lines, tried, best>> /\ stage' \notin {"unfilter", "decoded"}
            /\ (stage # "filter" \/ (stage' \in {"stored", "failed"} /\ Len(lines) = image.height))
        BY <2>1 DEF EncodeFails, WriteChunks, Damage, Annotate, Open, ReadChunk, EndOfFile, call, encoding,
           decoding
      <3>2. RowBytes' = RowBytes /\ (\A g, q : Filtered(g, q)' = Filtered(g, q))
            /\ (\A g, q : Line(g, q)' = Line(g, q))
        BY <3>1 DEF RowBytes, Filtered, Line
      <3> QED BY <3>1, <3>2 DEF PngInv, Setting, LinesFiltered, BestOfRow, Restoring
    <2>2. CASE UNCHANGED pngVars
      <3>1. UNCHANGED <<image, mode, isal, lines, tried, best, stage, compressed, pixels, row, col>>
        BY <2>2 DEF pngVars, call, encoding, reading, decoding
      <3>2. Setting' /\ LinesFiltered' /\ BestOfRow'
        BY <3>1, EncodingKept
      <3>3. Restoring'
        <4>1. Misplaced' = Misplaced /\ Every(Garbage)' = Every(Garbage)
          BY <3>1 DEF Misplaced, Rows, ZStream, Held, Scanlines, RowBytes, Every
        <4> QED BY <3>1, <4>1 DEF PngInv, Restoring, Restored, RowBytes
      <3> QED BY <3>2, <3>3 DEF PngInv
    <2> QED BY <2>1, <2>2, FilterRowStep, TryFilterStep, InflateStep, UnfilterStep DEF PngNext
  <1> QED BY <1>1, <1>2, PTL DEF PngSpec

\* Every filtered row consists of bytes and has one of the filters of the format
\* (png.cpp:306-346).
THEOREM PngTypeCorrect == PngSpec => []PngTypeOK
  <1>1. PngInv => PngTypeOK
    <2>1. Every(Garbage) \in [1 .. image.height -> [1 .. RowBytes -> Bytes \cup {Garbage}]]
      BY DEF Every
    <2>2. [1 .. image.height -> [1 .. RowBytes -> Bytes]]
            \subseteq [1 .. image.height -> [1 .. RowBytes -> Bytes \cup {Garbage}]]
      OBVIOUS
    <2> QED BY <2>1, <2>2, ImageTypes DEF PngInv, LinesFiltered, Restoring, PngTypeOK
  <1> QED BY <1>1, PngInductive, PTL

-------------------------------------------------------------------------------
(* The score of a row is a sum, and so a number that can be compared. *)

\* A set of natural numbers that is not empty has a least element.
LEMMA NatLeast ==
  ASSUME NEW T \in SUBSET Nat, T # {}
  PROVE  \E n \in T : \A m \in T : n <= m
  <1>1. IsWellFoundedOn(OpToRel(<, Nat), Nat)
    BY NatLessThanWellFounded
  <1>2. PICK n \in T : \A m \in Nat : <<m, n>> \in OpToRel(<, Nat) => m \notin T
    BY <1>1, WFMin
  <1>3. \A m \in T : ~(m < n)
    BY <1>2 DEF OpToRel
  <1> QED BY <1>3

\* The element a fold takes out of s first, and the function it computes the
\* sum of a subset of S with.
First(s) == CHOOSE x \in s : TRUE
Sums(g, S, w) == \A s \in S : g[s] = IF s = {} THEN 0 ELSE g[s \ {First(s)}] + w[First(s)]

LEMMA FirstIn ==
  ASSUME NEW S, IsFiniteSet(S), NEW s \in SUBSET S, s # {}
  PROVE  /\ First(s) \in s /\ s \ {First(s)} \in SUBSET S
         /\ Cardinality(s) \in Nat \ {0} /\ Cardinality(s \ {First(s)}) = Cardinality(s) - 1
  <1>1. First(s) \in s
    BY DEF First
  <1>2. IsFiniteSet(s)
    BY FS_Subset
  <1>3. Cardinality(s) \in Nat /\ Cardinality(s) # 0
    BY <1>2, FS_CardinalityType, FS_EmptySet
  <1>4. Cardinality(s \ {First(s)}) = Cardinality(s) - 1
    BY <1>1, <1>2, FS_RemoveElement
  <1> QED BY <1>1, <1>3, <1>4

LEMMA SumsExist ==
  ASSUME NEW S, IsFiniteSet(S), NEW w \in [S -> Nat]
  PROVE  \E g \in [SUBSET S -> Nat] : Sums(g, SUBSET S, w)
  <1> DEFINE Upto(n) == {s \in SUBSET S : Cardinality(s) <= n}
             T == {n \in Nat : ~ \E g \in [Upto(n) -> Nat] : Sums(g, Upto(n), w)}
  <1>0. \A s \in SUBSET S : Cardinality(s) \in Nat /\ Cardinality(s) <= Cardinality(S)
    BY FS_Subset, FS_CardinalityType
  <1>1. 0 \notin T
    <2> DEFINE g == [s \in Upto(0) |-> 0]
    <2>1. g \in [Upto(0) -> Nat]
      OBVIOUS
    <2>2. \A s \in Upto(0) : s = {}
      <3> SUFFICES ASSUME NEW s \in SUBSET S, Cardinality(s) <= 0, s # {} PROVE FALSE
        OBVIOUS
      <3>1. Cardinality(s) \in Nat \ {0}
        BY FirstIn
      <3> QED BY <3>1
    <2>3. Sums(g, Upto(0), w)
      BY <2>2 DEF Sums
    <2> QED BY <2>1, <2>3
  <1>2. ASSUME NEW n \in Nat, n \notin T PROVE n + 1 \notin T
    <2>1. PICK g \in [Upto(n) -> Nat] : Sums(g, Upto(n), w)
      BY <1>2
    <2> DEFINE value(s) == IF s = {} THEN 0 ELSE g[s \ {First(s)}] + w[First(s)]
               h == [s \in Upto(n + 1) |-> value(s)]
    <2>2. ASSUME NEW s \in Upto(n + 1), s # {}
          PROVE  s \ {First(s)} \in Upto(n) /\ First(s) \in S
      BY <2>2, FirstIn, <1>0
    <2>3. \A s \in Upto(n + 1) : value(s) \in Nat
      <3> TAKE s \in Upto(n + 1)
      <3>1. CASE s = {}
        BY <3>1
      <3>2. CASE s # {}
        <4>1. s \ {First(s)} \in Upto(n) /\ First(s) \in S
          BY <2>2, <3>2
        <4> HIDE DEF Upto
        <4>2. g[s \ {First(s)}] \in Nat /\ w[First(s)] \in Nat
          BY <4>1
        <4> QED BY <3>2, <4>2
      <3> QED BY <3>1, <3>2
    <2>4. h \in [Upto(n + 1) -> Nat]
      BY <2>3
    <2>5. \A s \in Upto(n) : s \in Upto(n + 1) /\ h[s] = g[s]
      <3> TAKE s \in Upto(n)
      <3>1. s \in Upto(n + 1)
        BY <1>0
      <3>2. g[s] = value(s)
        BY <2>1 DEF Sums
      <3> QED BY <3>1, <3>2
    <2>6. Sums(h, Upto(n + 1), w)
      <3> SUFFICES ASSUME NEW s \in Upto(n + 1)
                   PROVE  h[s] = IF s = {} THEN 0 ELSE h[s \ {First(s)}] + w[First(s)]
        BY DEF Sums
      <3>1. CASE s = {}
        BY <3>1
      <3>2. CASE s # {}
        <4>1. h[s \ {First(s)}] = g[s \ {First(s)}]
          BY <2>2, <2>5, <3>2
        <4> QED BY <3>2, <4>1
      <3> QED BY <3>1, <3>2
    <2> QED BY <2>4, <2>6
  <1>3. T = {}
    <2> SUFFICES ASSUME T # {} PROVE FALSE
      OBVIOUS
    <2>1. PICK n \in T : \A m \in T : n <= m
      <3>1. T \in SUBSET Nat
        OBVIOUS
      <3> HIDE DEF T
      <3> QED BY <3>1, NatLeast
    <2>2. n \in Nat /\ n # 0
      BY <1>1
    <2>3. n - 1 \in Nat /\ n - 1 \notin T /\ (n - 1) + 1 = n
      <3> HIDE DEF T
      <3> QED BY <2>1, <2>2
    <2> HIDE DEF T
    <2> QED BY <1>2, <2>3
  <1>4. Upto(Cardinality(S)) = SUBSET S /\ Cardinality(S) \in Nat
    BY <1>0, FS_CardinalityType
  <1>5. Cardinality(S) \notin T
    BY <1>3
  <1> QED BY <1>4, <1>5

\* Whatever computes the sums, they are numbers.
LEMMA SumsAreNumbers ==
  ASSUME NEW S, IsFiniteSet(S), NEW w \in [S -> Nat], NEW g, Sums(g, SUBSET S, w)
  PROVE  \A s \in SUBSET S : g[s] \in Nat
  <1> DEFINE T == {Cardinality(s) : s \in {t \in SUBSET S : g[t] \notin Nat}}
  <1>0. \A s \in SUBSET S : Cardinality(s) \in Nat
    BY FS_Subset, FS_CardinalityType
  <1> SUFFICES ASSUME NEW bad \in SUBSET S, g[bad] \notin Nat PROVE FALSE
    OBVIOUS
  <1>1. PICK n \in T : \A m \in T : n <= m
    <2>1. T \in SUBSET Nat /\ T # {}
      BY <1>0
    <2> HIDE DEF T
    <2> QED BY <2>1, NatLeast
  <1>2. PICK s \in SUBSET S : g[s] \notin Nat /\ Cardinality(s) = n
    BY <1>1
  <1>3. g[s] = IF s = {} THEN 0 ELSE g[s \ {First(s)}] + w[First(s)]
    BY DEF Sums
  <1>4. s # {}
    BY <1>2, <1>3
  <1>5. /\ First(s) \in s /\ s \ {First(s)} \in SUBSET S
        /\ Cardinality(s) \in Nat \ {0} /\ Cardinality(s \ {First(s)}) = Cardinality(s) - 1
    BY <1>4, FirstIn
  <1>6. g[s \ {First(s)}] \notin Nat
    BY <1>2, <1>3, <1>4, <1>5
  <1>7. Cardinality(s) - 1 \in T
    BY <1>5, <1>6
  <1> QED BY <1>1, <1>2, <1>5, <1>7

LEMMA ScoreIsNumber ==
  ASSUME Setting, NEW f \in 0 .. 4, NEW r \in 1 .. image.height
  PROVE  Score(f, r) \in Nat
  <1> DEFINE F == Filtered(f, r)
             S == 1 .. RowBytes
             w == [c \in S |-> Cost(F[c])]
             Folds(g) == g = [s \in SUBSET DOMAIN F |->
                                IF s = {} THEN 0
                                ELSE g[s \ {CHOOSE x \in s : TRUE}] + Cost(F[CHOOSE x \in s : TRUE])]
  <1>1. Score(f, r) = (CHOOSE g : Folds(g))[DOMAIN F]
    BY Zenon DEF Score, FoldFunction, FoldFunctionOnSet, MapThenFoldSet
  <1>2. DOMAIN F = S /\ F \in [S -> Bytes] /\ RowBytes \in Nat
    BY FilteredBytes, ImageTypes
  <1>3. IsFiniteSet(S)
    BY <1>2, FS_Interval
  <1>4. w \in [S -> Nat]
    <2>1. \A b \in Bytes : Cost(b) \in Nat
      BY BaseAssumption DEF Cost, Bytes
    <2> HIDE DEF F, S
    <2> QED BY <1>2, <2>1
  <1>5. ASSUME NEW s \in SUBSET S, s # {} PROVE Cost(F[First(s)]) = w[First(s)]
    <2>1. First(s) \in S
      BY <1>3, <1>5, FirstIn
    <2> QED BY <2>1
  <1>6. \E g : Folds(g)
    <2>1. PICK g \in [SUBSET S -> Nat] : Sums(g, SUBSET S, w)
      BY <1>3, <1>4, SumsExist
    <2> HIDE DEF F, S, w
    <2>2. \A s \in SUBSET S : g[s] = IF s = {} THEN 0 ELSE g[s \ {First(s)}] + Cost(F[First(s)])
      BY <1>5, <2>1 DEF Sums
    <2>3. g = [s \in SUBSET S |-> IF s = {} THEN 0 ELSE g[s \ {First(s)}] + Cost(F[First(s)])]
      BY <2>1, <2>2
    <2>4. Folds(g)
      BY <1>2, <2>3, Zenon DEF First
    <2> QED BY <2>4
  <1> DEFINE h == CHOOSE g : Folds(g)
  <1>7. Folds(h)
    <2> HIDE DEF Folds
    <2> QED BY <1>6
  <1>8. Sums(h, SUBSET S, w)
    <2> HIDE DEF h
    <2>1. h = [s \in SUBSET S |-> IF s = {} THEN 0 ELSE h[s \ {First(s)}] + Cost(F[First(s)])]
      BY <1>2, <1>7, Zenon DEF First
    <2> HIDE DEF F, S, w
    <2>2. \A s \in SUBSET S : h[s] = IF s = {} THEN 0 ELSE h[s \ {First(s)}] + Cost(F[First(s)])
      BY <2>1, Zenon
    <2> QED BY <1>5, <2>2 DEF Sums
  <1>9. h[S] \in Nat
    <2> HIDE DEF h, S, w
    <2> QED BY <1>3, <1>4, <1>8, SumsAreNumbers
  <1> QED BY <1>1, <1>2, <1>9

-------------------------------------------------------------------------------
(* The adaptive modes: of the filters that have been tried for a row the best
   one is known with its score. *)

BestSoFar ==
  tried # 0 => /\ tried < Filters
               /\ best.score = Score(best.line.filter, Len(lines) + 1)
               /\ \A filter \in 0 .. tried - 1 : best.score <= Score(filter, Len(lines) + 1)

BestInv == BestSoFar /\ BestFilter

\* The score as a number of a row's bytes alone.
RowScore(bytes) ==
  (CHOOSE g : g = [s \in SUBSET DOMAIN bytes |->
                     IF s = {} THEN 0
                     ELSE g[s \ {CHOOSE x \in s : TRUE}] + Cost(bytes[CHOOSE x \in s : TRUE])])[DOMAIN bytes]

\* What leaves the image alone leaves the scores alone.
LEMMA ScoresKept ==
  ASSUME UNCHANGED image
  PROVE  \A filter, r : Score(filter, r)' = Score(filter, r)
  <1> SUFFICES ASSUME NEW filter, NEW r PROVE Score(filter, r)' = Score(filter, r)
    OBVIOUS
  <1>1. Filtered(filter, r)' = Filtered(filter, r)
    BY DEF Filtered, RowBytes
  <1>2. Score(filter, r) = RowScore(Filtered(filter, r))
    BY Zenon DEF Score, RowScore, FoldFunction, FoldFunctionOnSet, MapThenFoldSet
  <1>3. Score(filter, r)' = RowScore(Filtered(filter, r)')
    BY Zenon DEF Score, RowScore, FoldFunction, FoldFunctionOnSet, MapThenFoldSet, Cost
  <1> QED BY <1>1, <1>2, <1>3

LEMMA BestKept ==
  ASSUME BestInv, UNCHANGED <<image, mode, lines, tried, best>>
  PROVE  BestInv'
  <1>1. \A filter, r : Score(filter, r)' = Score(filter, r)
    BY ScoresKept
  <1>2. Filters' = Filters
    BY DEF Filters
  <1> HIDE DEF Filters
  <1> QED BY <1>1, <1>2 DEF BestInv, BestSoFar, BestFilter

\* Filters are tried from 0 on; one replaces the best so far if its score is less.
LEMMA TryFilterBest == ASSUME PngInv, BestInv, TryFilter PROVE BestInv'
  <1> DEFINE r == Len(lines) + 1
             score  == Score(tried, r)
             better == IF Standing.score < 0 \/ score < Standing.score
                       THEN [line |-> Line(tried, r), score |-> score] ELSE Standing
  <1>1. /\ mode > 4 /\ Len(lines) < image.height
        /\ image' = image /\ mode' = mode
        /\ best' = better /\ tried' = (tried + 1) % Filters
        /\ lines' = IF tried' = 0 THEN Append(lines, better.line) ELSE lines
    BY DEF TryFilter, call
  <1>2. /\ Setting /\ r \in 1 .. image.height /\ Len(lines) \in Nat
        /\ tried \in 0 .. Filters - 1 /\ Filters \in {3, 5} /\ Filters' = Filters
    BY <1>1, ImageTypes DEF PngInv, LinesFiltered, BestOfRow, BestInv, BestSoFar, Filters
  <1>3. \A filter \in 0 .. 4, q \in 1 .. image.height : Score(filter, q) \in Nat
    BY <1>2, ScoreIsNumber
  <1>4. \A filter, q : Score(filter, q)' = Score(filter, q)
    BY <1>1, ScoresKept
  <1>5. tried # 0 => /\ best.line.filter \in 0 .. 4 /\ best.score = Score(best.line.filter, r)
                     /\ \A filter \in 0 .. tried - 1 : best.score <= Score(filter, r)
    BY DEF PngInv, BestOfRow, BestInv, BestSoFar
  <1>6. /\ better.line.filter \in 0 .. 4 /\ better.score = Score(better.line.filter, r)
        /\ \A filter \in 0 .. tried : better.score <= Score(filter, r)
    <2>1. score \in Nat /\ tried \in 0 .. 4
      BY <1>2, <1>3
    <2>2. CASE Standing.score < 0 \/ score < Standing.score
      <3>1. better.score = score /\ better.line.filter = tried
        BY <2>2 DEF Line
      <3>2. ASSUME NEW filter \in 0 .. tried - 1 PROVE score <= Score(filter, r)
        <4>1. tried # 0 /\ Standing = best
          BY <1>2 DEF Standing
        <4>2. best.score \in Nat /\ best.score <= Score(filter, r) /\ Score(filter, r) \in Nat
          BY SMTT(30), <1>2, <1>3, <1>5, <4>1
        <4> HIDE DEF score
        <4> QED BY <2>1, <2>2, <4>1, <4>2
      <3> HIDE DEF better
      <3> QED BY <1>2, <2>1, <3>1, <3>2
    <2>3. CASE ~(Standing.score < 0 \/ score < Standing.score)
      <3>1. tried # 0
        BY <2>3 DEF Standing, NoBest
      <3>2. better = best /\ Standing = best
        BY <2>3, <3>1 DEF Standing
      <3>3. best.score <= score
        <4>1. best.score \in Nat
          BY <1>2, <1>3, <1>5, <3>1
        <4> HIDE DEF score
        <4> QED BY <2>1, <2>3, <3>2, <4>1
      <3> HIDE DEF better
      <3> QED BY <1>2, <1>5, <3>1, <3>2, <3>3
    <2> QED BY <2>2, <2>3
  <1> HIDE DEF better
  <1>7. CASE tried + 1 < Filters
    <2>1. tried' = tried + 1 /\ lines' = lines
      BY <1>1, <1>2, <1>7
    <2>2. BestSoFar'
      BY <1>1, <1>2, <1>4, <1>6, <1>7, <2>1 DEF BestSoFar
    <2>3. BestFilter'
      BY <1>1, <1>2, <1>4, <2>1 DEF BestInv, BestFilter
    <2> QED BY <2>2, <2>3 DEF BestInv
  <1>8. CASE tried + 1 = Filters
    <2>1. tried' = 0 /\ lines' = Append(lines, better.line)
      BY <1>1, <1>2, <1>8
    <2>2. BestSoFar'
      BY <2>1 DEF BestSoFar
    <2>3. lines \in Seq([filter : 0 .. 4, bytes : [1 .. RowBytes -> Bytes]])
      BY DEF PngInv, LinesFiltered
    <2> DEFINE R == [filter : 0 .. 4, bytes : [1 .. RowBytes -> Bytes]]
    <2> HIDE DEF R
    <2>4. /\ DOMAIN lines' = 1 .. r /\ DOMAIN lines = 1 .. Len(lines)
          /\ lines'[r] = better.line /\ \A q \in 1 .. Len(lines) : lines'[q] = lines[q]
      <3>1. lines \in Seq(R)
        BY <2>3 DEF R
      <3> QED BY <1>2, <2>1, <3>1
    <2>5. ASSUME NEW q \in 1 .. r, NEW filter \in 0 .. Filters - 1
          PROVE  Score(lines'[q].filter, q) <= Score(filter, q)
      <3>1. CASE q = r
        <4>1. filter \in 0 .. tried
          BY <1>2, <1>8
        <4> QED BY <1>6, <2>4, <3>1, <4>1
      <3>2. CASE q # r
        <4>1. q \in 1 .. Len(lines)
          BY <1>2, <3>2
        <4> QED BY <1>1, <2>4, <4>1 DEF BestInv, BestFilter
      <3> QED BY <3>1, <3>2
    <2>6. BestFilter'
      BY <1>1, <1>2, <1>4, <2>4, <2>5 DEF BestFilter
    <2> QED BY <2>2, <2>6 DEF BestInv
  <1> QED BY <1>2, <1>7, <1>8

LEMMA BestInductive == PngSpec => []BestInv
  <1>1. PngInit => BestInv
    BY DEF PngInit, BestInv, BestSoFar, BestFilter
  <1>2. PngInv /\ BestInv /\ [PngNext]_pngVars => BestInv'
    <2> SUFFICES ASSUME PngInv, BestInv, [PngNext]_pngVars PROVE BestInv'
      OBVIOUS
    <2>1. CASE FilterRow
      <3>1. mode' \in 0 .. 4 /\ tried' = 0
        BY <2>1 DEF FilterRow, call, PngInv, Setting, BestOfRow
      <3> QED BY <3>1 DEF BestInv, BestSoFar, BestFilter
    <2>2. ASSUME EncodeFails \/ WriteChunks \/ Damage \/ Annotate \/ Open \/ ReadChunk \/ EndOfFile \/ Inflate \/ UnfilterByte
                   \/ UNCHANGED pngVars
          PROVE  BestInv'
      <3>1. UNCHANGED <<image, mode, lines, tried, best>>
        BY <2>2 DEF EncodeFails, WriteChunks, Damage, Annotate, Open, ReadChunk, EndOfFile, Inflate,
           UnfilterByte, call, encoding, pngVars
      <3> QED BY <3>1, BestKept
    <2> QED BY <2>1, <2>2, TryFilterBest DEF PngNext
  <1> QED BY <1>1, <1>2, PngInductive, PTL DEF PngSpec

\* For each row the adaptive modes keep a filter with the lowest score of those
\* they try (png.cpp:330-345).
THEOREM BestIsKept == PngSpec => []BestFilter
  <1>1. BestInv => BestFilter
    BY DEF BestInv
  <1> QED BY <1>1, BestInductive, PTL

-------------------------------------------------------------------------------
(* A file of which no chunk was lost or repeated: its IDAT chunks hold the
   stream in pieces that follow each other, up to some place, and decode()
   has collected them up to the end of the chunk it is at.  An intact file
   holds all of it, between IHDR and IEND. *)

\* The chunks of the file share the stream out, the i-th one up to ends[i].
Shared(ends) ==
  /\ ends[0] = 0
  /\ \A i \in 1 .. Len(chunks) :
       /\ ends[i - 1] <= ends[i]
       /\ chunks[i].type = "IDAT" => chunks[i].data = SubSeq(ZStream, ends[i - 1] + 1, ends[i])
       /\ chunks[i].type # "IDAT" => ends[i - 1] = ends[i]

InOrder ==
  /\ Len(chunks) \in Nat /\ 2 <= Len(chunks)
  /\ \A i \in 1 .. Len(chunks) :
       /\ chunks[i].sound
       /\ chunks[i].type = "IHDR" <=> i = 1
       /\ chunks[i].type = "IEND" <=> i = Len(chunks)

ReadTo ==
  /\ at \in 0 .. Len(chunks) /\ ihdr \in BOOLEAN
  /\ ihdr <=> at # 0
  /\ stage = "stored" => at = 0
  /\ stage = "read" => at < Len(chunks)
  /\ stage = "inflate" => at = Len(chunks)

Chunks == [type : {"IHDR", "IDAT", "IEND", "other"}, data : Seq(Nat), sound : BOOLEAN]

\* What decode() can get of the file, as long as everything is in its place.
Readable ==
  /\ chunks \in Seq(Chunks) /\ at \in 0 .. Len(chunks) /\ (stage = "stored" => at = 0)
  /\ \E ends \in [0 .. Len(chunks) -> 0 .. Held + 1] :
       /\ Shared(ends) /\ compressed = SubSeq(ZStream, 1, ends[at])
       /\ Intact => ends[Len(chunks)] = Held + 1

Unwritten == stage \in {"filter", "failed"}

IntactInv ==
  /\ InPlace => /\ Unwritten => at = 0 /\ compressed = <<>>
                /\ ~Unwritten => Readable
  /\ Intact => /\ ~extra /\ (Countable => stage # "refused")
               /\ Unwritten => ihdr = FALSE
               /\ ~Unwritten => InOrder /\ ReadTo

LEMMA IntactInPlace == Intact => InPlace
  BY DEF Intact, InPlace

LEMMA StreamIs ==
  ASSUME Setting
  PROVE  /\ Scanlines \in Nat /\ Scanlines > 0 /\ Held \in Nat
         /\ Scanlines <= MaxUInt => Held = Scanlines
         /\ ZStream \in Seq(Nat) /\ Len(ZStream) = Held + 1
  <1>1. Scanlines \in Nat /\ Scanlines > 0
    <2>1. RowBytes + 1 \in Nat \ {0} /\ image.height \in Nat \ {0}
      BY ImageTypes
    <2>2. \A a, b \in Nat \ {0} : a * b \in Nat \ {0}
      OBVIOUS
    <2>3. (RowBytes + 1) * image.height \in Nat \ {0}
      BY <2>1, <2>2
    <2> QED BY <2>3 DEF Scanlines
  <1>2. Held \in Nat /\ (Scanlines <= MaxUInt => Held = Scanlines)
    BY <1>1, BaseAssumption DEF Held, Cut
  <1>3. ZStream \in Seq(Nat) /\ Len(ZStream) = Held + 1
    BY <1>2 DEF ZStream
  <1> QED BY <1>1, <1>2, <1>3

\* Nothing but the image is in what the stream is.
LEMMA StreamKept ==
  ASSUME UNCHANGED image
  PROVE  Scanlines' = Scanlines /\ Held' = Held /\ ZStream' = ZStream
  BY DEF Scanlines, RowBytes, ZStream, Held, Cut

-------------------------------------------------------------------------------
\* The piece of the stream that is the k-th IDAT chunk ends where the next begins.
LEMMA PiecesOf ==
  ASSUME NEW n \in Nat \ {0}, NEW size \in Nat \ {0}
  PROVE  LET count == (n + size - 1) \div size
             upto(k) == IF k * size < n THEN k * size ELSE n
         IN /\ count \in Nat \ {0} /\ upto(0) = 0 /\ upto(count) = n
            /\ \A k \in 1 .. count : /\ upto(k) \in 0 .. n /\ upto(k - 1) = (k - 1) * size
                                     /\ upto(k - 1) <= upto(k)
  <1> DEFINE count == (n + size - 1) \div size
             upto(k) == IF k * size < n THEN k * size ELSE n
  <1>1. count \in Nat /\ count * size <= n + size - 1 /\ n + size - 1 < count * size + size
    OBVIOUS
  <1>2. \A a, b \in Nat : a <= b => a * size <= b * size /\ a * size \in Nat
    OBVIOUS
  <1>3. \A a \in Nat \ {0} : (a - 1) * size = a * size - size
    OBVIOUS
  <1>4. 0 * size = 0
    OBVIOUS
  <1> HIDE DEF count
  <1>5. count # 0
    BY <1>1, <1>4
  <1>6. upto(count) = n
    BY <1>1, <1>2
  <1>7. ASSUME NEW k \in 1 .. count
        PROVE  /\ upto(k) \in 0 .. n /\ upto(k - 1) = (k - 1) * size /\ upto(k - 1) <= upto(k)
    <2>1. k * size \in Nat /\ k * size <= count * size /\ (k - 1) * size = k * size - size
          /\ (k - 1) * size \in Nat
      BY <1>1, <1>2, <1>3
    <2>2. (k - 1) * size < n
      BY <1>1, <2>1
    <2> QED BY <2>1, <2>2
  <1> QED BY <1>1, <1>4, <1>5, <1>6, <1>7 DEF count

LEMMA WriteChunksIntact == ASSUME PngInv, IntactInv, WriteChunks PROVE IntactInv'
  <1> SUFFICES ASSUME InPlace'
               PROVE  Readable' /\ (Intact' => ~extra' /\ InOrder' /\ ReadTo')
    BY IntactInPlace DEF IntactInv, WriteChunks, Unwritten, Intact, InPlace
  <1>1. /\ stage = "filter" /\ stage' = "stored" /\ UNCHANGED <<image, extra, changes, at, ihdr, compressed>>
        /\ Setting
    BY DEF WriteChunks, reading, PngInv, call
  <1>2. Held' = Held /\ ZStream' = ZStream /\ InPlace /\ (Intact' <=> Intact)
    BY <1>1, StreamKept DEF Intact, InPlace
  <1>3. at = 0 /\ compressed = <<>> /\ (Intact => ihdr = FALSE /\ ~extra)
    BY <1>1, <1>2 DEF IntactInv, Unwritten
  <1> DEFINE n == Held + 1
  <1>4. n \in Nat \ {0} /\ ZStream \in Seq(Nat) /\ Len(ZStream) = n
    BY <1>1, StreamIs
  <1>5. PICK size \in ChunkSizes :
          chunks' = <<Chunk("IHDR", <<>>)>> \o Idats(size) \o <<Chunk("IEND", <<>>)>>
    BY DEF WriteChunks
  <1>6. size \in Nat \ {0}
    BY ModesAssumption
  <1> DEFINE count == (n + size - 1) \div size
             upto(k) == IF k * size < n THEN k * size ELSE n
             piece(k) == SubSeq(ZStream, (k - 1) * size + 1, upto(k))
  <1>e. PICK ends : ends = [i \in 0 .. count + 2 |-> IF i = 0 THEN 0 ELSE IF i = count + 2 THEN n ELSE upto(i - 1)]
    OBVIOUS
  <1>7. /\ count \in Nat \ {0} /\ upto(0) = 0 /\ upto(count) = n
        /\ \A k \in 1 .. count : /\ upto(k) \in 0 .. n /\ upto(k - 1) = (k - 1) * size
                                 /\ upto(k - 1) <= upto(k)
    BY <1>4, <1>6, PiecesOf
  <1>8. Idats(size) = [k \in 1 .. count |-> Chunk("IDAT", piece(k))]
    BY <1>4 DEF Idats
  <1>9. \A k \in 1 .. count : piece(k) \in Seq(Nat) /\ piece(k) = SubSeq(ZStream, upto(k - 1) + 1, upto(k))
    <2> TAKE k \in 1 .. count
    <2>1. upto(k) \in 0 .. n /\ upto(k - 1) \in 0 .. n
      <3>1. upto(k) \in 0 .. n /\ upto(k - 1) = (k - 1) * size /\ upto(k - 1) <= upto(k)
        BY <1>7
      <3>2. (k - 1) * size \in Nat
        BY <1>6, <1>7
      <3> HIDE DEF upto, n
      <3> QED BY <1>4, <3>1, <3>2
    <2>2. piece(k) = SubSeq(ZStream, upto(k - 1) + 1, upto(k))
      <3>1. upto(k - 1) = (k - 1) * size
        BY <1>7
      <3> HIDE DEF upto, n
      <3> QED BY <3>1
    <2> HIDE DEF upto, n, piece
    <2>3. SubSeq(ZStream, upto(k - 1) + 1, upto(k)) \in Seq(Nat)
      BY <1>4, <2>1
    <2> QED BY <2>2, <2>3
  <1>10. \A i \in 0 .. count + 2 : ends[i] \in 0 .. n
    <2> TAKE i \in 0 .. count + 2
    <2>1. CASE i \in {0, count + 2}
      BY <2>1, <1>4, <1>e
    <2>2. CASE i \notin {0, count + 2}
      <3>1. i - 1 = 0 \/ i - 1 \in 1 .. count
        BY <1>7, <2>2
      <3>2. upto(i - 1) \in 0 .. n
        <4> HIDE DEF upto, n, count
        <4> QED BY <1>4, <1>7, <3>1
      <3> QED BY <2>2, <3>2, <1>e
    <2> QED BY <2>1, <2>2
  <1> DEFINE head == Chunk("IHDR", <<>>) tail == Chunk("IEND", <<>>) mid(k) == Chunk("IDAT", piece(k))
  <1>11. /\ head \in Chunks /\ head.type = "IHDR" /\ head.sound = TRUE
         /\ tail \in Chunks /\ tail.type = "IEND" /\ tail.sound = TRUE
         /\ \A k \in 1 .. count : mid(k) \in Chunks /\ mid(k).type = "IDAT" /\ mid(k).sound = TRUE
                                  /\ mid(k).data = piece(k)
    <2> HIDE DEF piece, count
    <2>1. <<>> \in Seq(Nat)
      OBVIOUS
    <2> QED BY <1>9, <2>1 DEF Chunk, Chunks
  <1> HIDE DEF head, tail, mid
  <1>12. /\ chunks' \in Seq(Chunks) /\ Len(chunks') = count + 2
         /\ chunks'[1] = head /\ chunks'[count + 2] = tail
         /\ \A k \in 1 .. count : chunks'[k + 1] = mid(k)
    <2> DEFINE idats == [k \in 1 .. count |-> mid(k)]
    <2>1. chunks' = (<<head>> \o idats) \o <<tail>>
      BY <1>5, <1>8 DEF head, tail, mid
    <2> HIDE DEF count
    <2>2. idats \in Seq(Chunks) /\ Len(idats) = count /\ \A k \in 1 .. count : idats[k] = mid(k)
      BY <1>7, <1>11
    <2> HIDE DEF idats
    <2>3. <<head>> \o idats \in Seq(Chunks) /\ Len(<<head>> \o idats) = count + 1
          /\ (<<head>> \o idats)[1] = head
          /\ \A k \in 1 .. count : (<<head>> \o idats)[k + 1] = idats[k]
      BY <1>7, <1>11, <2>2
    <2> DEFINE front == <<head>> \o idats
    <2> HIDE DEF front
    <2>4. /\ front \in Seq(Chunks) /\ Len(front) = count + 1 /\ front[1] = head
          /\ \A k \in 1 .. count : front[k + 1] = mid(k)
      BY <2>2, <2>3 DEF front
    <2>5. chunks' = front \o <<tail>>
      BY <2>1 DEF front
    <2>6. /\ chunks' \in Seq(Chunks) /\ Len(chunks') = count + 2 /\ chunks'[count + 2] = tail
          /\ \A i \in 1 .. count + 1 : chunks'[i] = front[i]
      BY <1>7, <1>11, <2>4, <2>5
    <2>7. \A k \in 1 .. count : k + 1 \in 1 .. count + 1 /\ 1 \in 1 .. count + 1
      BY <1>7
    <2> QED BY <1>7, <2>4, <2>6, <2>7
  <1> HIDE DEF count, piece
  <1>13. InOrder'
    <2>1. ASSUME NEW i \in 1 .. Len(chunks')
          PROVE  /\ chunks'[i].sound
                 /\ chunks'[i].type = "IHDR" <=> i = 1
                 /\ chunks'[i].type = "IEND" <=> i = Len(chunks')
      <3>1. CASE i = 1
        BY <3>1, <1>7, <1>11, <1>12
      <3>2. CASE i = count + 2
        BY <3>2, <1>7, <1>11, <1>12
      <3>3. CASE i # 1 /\ i # count + 2
        <4>1. i - 1 \in 1 .. count /\ (i - 1) + 1 = i
          BY <1>7, <1>12, <3>3
        <4>2. chunks'[i] = mid(i - 1)
          BY <1>12, <4>1
        <4>3. chunks'[i].type = "IDAT" /\ chunks'[i].sound = TRUE
          BY <1>11, <4>1, <4>2
        <4> QED BY <3>3, <4>3, <1>12
      <3> QED BY <3>1, <3>2, <3>3
    <2>2. Len(chunks') \in Nat /\ 2 <= Len(chunks')
      BY <1>7, <1>12
    <2> QED BY <2>1, <2>2, Zenon DEF InOrder
  <1>14. Intact => ReadTo'
    <2> SUFFICES ASSUME Intact PROVE ReadTo'
      OBVIOUS
    <2>1. at' = 0 /\ ihdr' = FALSE /\ stage' = "stored"
      BY <1>1, <1>3
    <2>2. 0 \in 0 .. Len(chunks')
      BY <1>7, <1>12
    <2> QED BY <2>1, <2>2 DEF ReadTo
  <1>15. ends \in [0 .. Len(chunks') -> 0 .. Held' + 1]
    <2> HIDE DEF upto
    <2> QED BY <1>2, <1>10, <1>12, <1>e
  <1>16. Shared(ends)' /\ ends[Len(chunks')] = n
    <2> SUFFICES /\ ends[0] = 0 /\ ends[count + 2] = n
                 /\ \A i \in 1 .. count + 2 :
                      /\ ends[i - 1] <= ends[i]
                      /\ chunks'[i].type = "IDAT" => chunks'[i].data = SubSeq(ZStream, ends[i - 1] + 1, ends[i])
                      /\ chunks'[i].type # "IDAT" => ends[i - 1] = ends[i]
      BY <1>2, <1>12 DEF Shared
    <2>1. ends[0] = 0 /\ ends[1] = 0 /\ ends[count + 2] = n /\ ends[count + 1] = n
          /\ \A k \in 1 .. count : ends[k + 1] = upto(k) /\ ends[k] = upto(k - 1)
      <3>1. ends[0] = 0 /\ ends[count + 2] = n
        BY <1>7, <1>e
      <3> HIDE DEF upto
      <3>2. \A i \in 1 .. count + 1 : ends[i] = upto(i - 1)
        BY <1>7, <1>e
      <3>3. \A k \in 1 .. count : k \in 1 .. count + 1 /\ k + 1 \in 1 .. count + 1 /\ (k + 1) - 1 = k
        BY <1>7
      <3>4. 1 \in 1 .. count + 1 /\ count + 1 \in 1 .. count + 1 /\ 1 - 1 = 0 /\ (count + 1) - 1 = count
        BY <1>7
      <3>5. ends[1] = upto(0) /\ ends[count + 1] = upto(count)
        BY <3>2, <3>4
      <3> QED BY <1>7, <3>1, <3>2, <3>3, <3>5
    <2> HIDE DEF upto
    <2>2. ASSUME NEW i \in 1 .. count + 2
          PROVE  /\ ends[i - 1] <= ends[i]
                 /\ chunks'[i].type = "IDAT" => chunks'[i].data = SubSeq(ZStream, ends[i - 1] + 1, ends[i])
                 /\ chunks'[i].type # "IDAT" => ends[i - 1] = ends[i]
      <3>1. CASE i = 1
        BY <2>1, <3>1, <1>4, <1>11, <1>12
      <3>2. CASE i = count + 2
        <4>1. ends[i - 1] = n /\ ends[i] = n
          BY <2>1, <3>2, <1>7
        <4> QED BY <4>1, <3>2, <1>4, <1>11, <1>12
      <3>3. CASE i # 1 /\ i # count + 2
        <4> DEFINE k == i - 1
        <4>1. k \in 1 .. count /\ k + 1 = i
          BY <1>7, <3>3
        <4> HIDE DEF k
        <4>2. ends[i] = upto(k) /\ ends[i - 1] = upto(k - 1)
          <5>1. i - 1 = k
            BY DEF k
          <5> QED BY <2>1, <4>1, <5>1
        <4>3. chunks'[i] = mid(k)
          BY <1>12, <4>1
        <4>4. upto(k - 1) <= upto(k)
          BY <1>7, <4>1
        <4> QED BY <1>9, <1>11, <4>1, <4>2, <4>3, <4>4
      <3> QED BY <3>1, <3>2, <3>3
    <2> QED BY <2>1, <2>2
  <1>17. compressed' = SubSeq(ZStream', 1, ends[at'])
    <2>1. at' = 0 /\ ends[0] = 0 /\ compressed' = <<>>
      BY <1>1, <1>3, <1>7, <1>e
    <2>2. SubSeq(ZStream, 1, 0) = <<>>
      BY <1>4
    <2> QED BY <2>1, <2>2, <1>2
  <1>18. Readable'
    <2>1. at' = 0 /\ 0 \in 0 .. Len(chunks')
      BY <1>1, <1>3, <1>7, <1>12
    <2> QED BY <1>2, <1>12, <1>15, <1>16, <1>17, <2>1 DEF Readable
  <1> QED BY <1>1, <1>2, <1>3, <1>13, <1>14, <1>18

\* A chunk of another type goes in between, and takes nothing of the stream.
LEMMA AnnotateIntact == ASSUME PngInv, IntactInv, Annotate PROVE IntactInv'
  <1> SUFFICES ASSUME InPlace'
               PROVE  Readable' /\ (Intact' => ~extra' /\ InOrder' /\ ReadTo')
    BY IntactInPlace DEF IntactInv, Annotate, Unwritten, Intact, InPlace
  <1>1. /\ stage = "stored" /\ stage' = "stored" /\ UNCHANGED <<image, extra, at, ihdr, compressed>>
        /\ Setting
    BY DEF Annotate, reading, PngInv, call
  <1>2. Held' = Held /\ ZStream' = ZStream /\ InPlace /\ (Intact' <=> Intact)
    BY <1>1, StreamKept DEF Annotate, Intact, InPlace
  <1>3. Readable /\ (Intact => ~extra /\ InOrder /\ ReadTo)
    BY <1>1, <1>2 DEF IntactInv, Unwritten
  <1> DEFINE n == Len(chunks)
             new == Chunk("other", <<>>)
  <1>4. n \in Nat /\ chunks \in Seq(Chunks) /\ at = 0 /\ Held + 1 \in Nat
    BY <1>1, <1>3, StreamIs DEF Readable
  <1>5. PICK k \in 2 .. n : chunks' = InsertAt(chunks, k, new)
    BY DEF Annotate
  <1>6. PICK ends \in [0 .. n -> 0 .. Held + 1] :
          /\ Shared(ends) /\ compressed = SubSeq(ZStream, 1, ends[at])
          /\ Intact => ends[n] = Held + 1
    BY <1>3 DEF Readable
  <1>7. new \in Chunks /\ new.type = "other" /\ new.sound = TRUE
    <2>1. <<>> \in Seq(Nat)
      OBVIOUS
    <2> QED BY <2>1 DEF Chunk, Chunks
  <1> HIDE DEF new
  <1>8. /\ chunks' \in Seq(Chunks) /\ Len(chunks') = n + 1 /\ chunks'[k] = new
        /\ \A i \in 1 .. k - 1 : chunks'[i] = chunks[i]
        /\ \A i \in k .. n : chunks'[i + 1] = chunks[i]
    <2> DEFINE front == SubSeq(chunks, 1, k - 1) back == SubSeq(chunks, k, n)
    <2>1. front \in Seq(Chunks) /\ Len(front) = k - 1 /\ \A i \in 1 .. k - 1 : front[i] = chunks[i]
      BY <1>4
    <2>2. back \in Seq(Chunks) /\ Len(back) = n - k + 1 /\ \A i \in k .. n : back[i - k + 1] = chunks[i]
      BY <1>4
    <2>3. chunks' = (front \o <<new>>) \o back
      BY <1>5 DEF InsertAt
    <2> DEFINE s == front \o <<new>>
    <2> HIDE DEF front, back
    <2>4. s \in Seq(Chunks) /\ Len(s) = k /\ s[k] = new /\ \A i \in 1 .. k - 1 : s[i] = front[i]
      BY <1>7, <2>1
    <2> HIDE DEF s
    <2>5. chunks' = s \o back
      BY <2>3 DEF s
    <2>6. /\ chunks' \in Seq(Chunks) /\ Len(chunks') = n + 1
          /\ \A i \in 1 .. k : chunks'[i] = s[i]
          /\ \A i \in 1 .. n - k + 1 : chunks'[k + i] = back[i]
      BY SMTT(30), <1>4, <2>2, <2>4, <2>5
    <2>7. \A i \in k .. n : i - k + 1 \in 1 .. n - k + 1 /\ k + (i - k + 1) = i + 1
      BY <1>4
    <2>8. \A i \in k .. n : chunks'[i + 1] = chunks[i]
      BY <2>2, <2>6, <2>7
    <2>9. \A i \in 1 .. k - 1 : chunks'[i] = chunks[i]
      BY <2>1, <2>4, <2>6
    <2> QED BY <2>4, <2>6, <2>8, <2>9
  <1>9. ASSUME NEW i \in 1 .. n + 1
        PROVE  \/ i = k /\ chunks'[i] = new
               \/ i \in 1 .. k - 1 /\ i \in 1 .. n - 1 /\ chunks'[i] = chunks[i]
               \/ i - 1 \in k .. n /\ i - 1 \in 2 .. n /\ chunks'[i] = chunks[i - 1]
    <2>1. CASE i = k
      BY <1>8, <2>1
    <2>2. CASE i < k
      <3>1. i \in 1 .. k - 1 /\ i \in 1 .. n - 1
        BY <1>4, <2>2
      <3> QED BY <1>8, <3>1
    <2>3. CASE i > k
      <3>1. i - 1 \in k .. n /\ (i - 1) + 1 = i /\ i - 1 \in 2 .. n
        BY <1>4, <2>3
      <3>2. chunks'[(i - 1) + 1] = chunks[i - 1]
        BY <1>8, <3>1
      <3> QED BY <3>1, <3>2
    <2> QED BY <2>1, <2>2, <2>3
  <1>10. ASSUME Intact PROVE InOrder'
    <2>1. ASSUME NEW i \in 1 .. Len(chunks')
          PROVE  /\ chunks'[i].sound
                 /\ chunks'[i].type = "IHDR" <=> i = 1
                 /\ chunks'[i].type = "IEND" <=> i = Len(chunks')
      <3>0. \A j \in 1 .. n : /\ chunks[j].sound
                              /\ chunks[j].type = "IHDR" <=> j = 1
                              /\ chunks[j].type = "IEND" <=> j = n
        BY <1>3, <1>10 DEF InOrder
      <3>1. CASE i = k /\ chunks'[i] = new
        BY <1>4, <1>7, <1>8, <3>1
      <3>2. CASE i \in 1 .. k - 1 /\ i \in 1 .. n - 1 /\ chunks'[i] = chunks[i]
        BY <1>4, <1>8, <3>0, <3>2
      <3>3. CASE i - 1 \in k .. n /\ i - 1 \in 2 .. n /\ chunks'[i] = chunks[i - 1]
        BY <1>4, <1>8, <3>0, <3>3
      <3> QED BY <1>8, <1>9, <3>1, <3>2, <3>3
    <2>2. Len(chunks') \in Nat /\ 2 <= Len(chunks')
      BY <1>4, <1>5, <1>8
    <2> QED BY <2>1, <2>2, Zenon DEF InOrder
  <1>11. ASSUME Intact PROVE ReadTo'
    <2>1. at' = 0 /\ ihdr' = FALSE /\ stage' = "stored"
      BY <1>1, <1>3, <1>4, <1>11 DEF ReadTo
    <2>2. 0 \in 0 .. Len(chunks')
      BY <1>4, <1>8
    <2> QED BY <2>1, <2>2 DEF ReadTo
  <1>e. PICK more : more = [i \in 0 .. n + 1 |-> IF i < k THEN ends[i] ELSE ends[i - 1]]
    OBVIOUS
  <1>12. /\ \A i \in 0 .. k - 1 : more[i] = ends[i]
         /\ \A i \in k .. n + 1 : more[i] = ends[i - 1]
    BY <1>4, <1>e
  <1>13. more \in [0 .. Len(chunks') -> 0 .. Held' + 1]
    <2>1. \A i \in 0 .. n + 1 : (IF i < k THEN ends[i] ELSE ends[i - 1]) \in 0 .. Held + 1
      <3> TAKE i \in 0 .. n + 1
      <3>1. i < k => i \in 0 .. n
        BY <1>4
      <3>2. ~(i < k) => i - 1 \in 0 .. n
        BY <1>4
      <3> QED BY <3>1, <3>2
    <2> QED BY <2>1, <1>2, <1>8, <1>e
  <1>14. Shared(more)' /\ (Intact => more[n + 1] = Held + 1)
    <2>1. more[0] = 0 /\ more[n + 1] = ends[n]
      BY <1>4, <1>6, <1>12 DEF Shared
    <2>2. ASSUME NEW i \in 1 .. n + 1
          PROVE  /\ more[i - 1] <= more[i]
                 /\ chunks'[i].type = "IDAT" => chunks'[i].data = SubSeq(ZStream, more[i - 1] + 1, more[i])
                 /\ chunks'[i].type # "IDAT" => more[i - 1] = more[i]
      <3>0. \A j \in 1 .. n :
              /\ ends[j - 1] <= ends[j]
              /\ chunks[j].type = "IDAT" => chunks[j].data = SubSeq(ZStream, ends[j - 1] + 1, ends[j])
              /\ chunks[j].type # "IDAT" => ends[j - 1] = ends[j]
        BY <1>6 DEF Shared
      <3>1. CASE i = k /\ chunks'[i] = new
        <4>1. more[i] = ends[k - 1] /\ more[i - 1] = ends[k - 1] /\ ends[k - 1] \in Int
          <5>1. i \in k .. n + 1 /\ i - 1 \in 0 .. k - 1 /\ k - 1 \in 0 .. n
            BY <1>4, <3>1
          <5> QED BY <1>12, <3>1, <5>1
        <4> QED BY <1>7, <3>1, <4>1
      <3>2. CASE i \in 1 .. k - 1 /\ i \in 1 .. n - 1 /\ chunks'[i] = chunks[i]
        <4>1. more[i] = ends[i] /\ more[i - 1] = ends[i - 1]
          BY <1>4, <1>12, <3>2
        <4> QED BY <3>0, <3>2, <4>1
      <3>3. CASE i - 1 \in k .. n /\ i - 1 \in 2 .. n /\ chunks'[i] = chunks[i - 1]
        <4>1. more[i] = ends[i - 1] /\ more[i - 1] = ends[(i - 1) - 1] /\ i - 1 \in 1 .. n
          BY SMTT(30), <1>4, <1>12, <3>3
        <4> QED BY <3>0, <3>3, <4>1
      <3> QED BY <1>9, <3>1, <3>2, <3>3
    <2> QED BY <1>2, <1>6, <1>8, <2>1, <2>2 DEF Shared
  <1>15. compressed' = SubSeq(ZStream', 1, more[at'])
    <2>1. at = 0 /\ at' = 0 /\ compressed' = compressed
      BY <1>1, <1>4
    <2>2. more[0] = ends[0]
      BY <1>4, <1>12
    <2> QED BY <1>2, <1>6, <2>1, <2>2
  <1>16. Readable'
    <2>1. at' = 0 /\ 0 \in 0 .. Len(chunks')
      BY <1>1, <1>4, <1>8
    <2> QED BY <1>2, <1>8, <1>13, <1>14, <1>15, <2>1 DEF Readable
  <1> QED BY <1>1, <1>2, <1>3, <1>10, <1>11, <1>16

\* decode() takes the next chunk, and what an IDAT chunk holds follows on.
LEMMA ReadChunkIntact == ASSUME PngInv, IntactInv, ReadChunk PROVE IntactInv'
  <1>1. /\ stage = "read" /\ at < Len(chunks) /\ UNCHANGED <<image, dense, chunks, extra, changes>> /\ Setting
    BY DEF ReadChunk, PngInv, call
  <1>2. /\ Held' = Held /\ ZStream' = ZStream /\ (InPlace' <=> InPlace) /\ (Intact' <=> Intact)
        /\ stage' \in {"read", "inflate", "refused"} /\ ~Unwritten /\ ~Unwritten'
    BY <1>1, StreamKept DEF Intact, InPlace, Unwritten, ReadChunk
  <1> DEFINE n == Len(chunks)
             c == chunks[at + 1]
  <1>r. CASE Refused(c)
    <2>1. UNCHANGED <<at, ihdr, compressed>> /\ stage' = "refused"
      BY <1>r DEF ReadChunk, reading
    <2>2. ~Intact
      <3> SUFFICES ASSUME Intact PROVE FALSE
        OBVIOUS
      <3>1. InOrder /\ ReadTo /\ ~extra /\ at + 1 \in 1 .. n
        BY <1>1, <1>2 DEF IntactInv, InOrder, ReadTo
      <3>2. c.sound /\ (c.type = "IHDR" <=> at = 0) /\ (c.type = "IEND" <=> at + 1 = n)
        BY <3>1 DEF InOrder, ReadTo
      <3>3. ihdr \in BOOLEAN /\ (ihdr <=> at # 0)
        BY <3>1 DEF ReadTo
      <3> QED BY <1>r, <3>1, <3>2, <3>3 DEF Refused
    <2>3. \A ends : Shared(ends)' <=> Shared(ends)
      BY <1>1, <1>2 DEF Shared
    <2> QED BY <1>1, <1>2, <2>1, <2>2, <2>3 DEF IntactInv, Readable
  <1> SUFFICES ASSUME ~Refused(c), InPlace
               PROVE  Readable' /\ (Intact => ~extra /\ stage' # "refused" /\ InOrder' /\ ReadTo')
    BY <1>1, <1>2, <1>r, IntactInPlace DEF IntactInv
  <1>3. Readable /\ (Intact => ~extra /\ InOrder /\ ReadTo)
    BY <1>2 DEF IntactInv
  <1>4. /\ n \in Nat /\ chunks \in Seq(Chunks) /\ Held + 1 \in Nat
        /\ ZStream \in Seq(Nat) /\ Len(ZStream) = Held + 1 /\ at \in 0 .. n - 1 /\ at + 1 \in 1 .. n
    <2>1. n \in Nat /\ chunks \in Seq(Chunks) /\ at \in 0 .. n
      BY <1>3 DEF Readable
    <2> QED BY <1>1, <2>1, StreamIs
  <1>8. /\ at' = at + 1 /\ ihdr' = (ihdr \/ c.type = "IHDR")
        /\ compressed' = IF c.type = "IDAT" THEN compressed \o c.data ELSE compressed
        /\ stage' = IF c.type = "IEND" THEN "inflate" ELSE "read"
    BY DEF ReadChunk
  <1>9. PICK ends \in [0 .. n -> 0 .. Held + 1] :
          /\ Shared(ends) /\ compressed = SubSeq(ZStream, 1, ends[at])
          /\ Intact => ends[n] = Held + 1
    BY <1>3 DEF Readable
  <1>10. /\ ends[at] <= ends[at + 1]
         /\ c.type = "IDAT" => c.data = SubSeq(ZStream, ends[at] + 1, ends[at + 1])
         /\ c.type # "IDAT" => ends[at] = ends[at + 1]
    <2>1. (at + 1) - 1 = at
      BY <1>4
    <2> QED BY <1>4, <1>9, <2>1 DEF Shared
  <1>11. compressed' = SubSeq(ZStream, 1, ends[at + 1])
    <2>1. CASE c.type = "IDAT"
      <3>1. ends[at] \in 0 .. Held + 1 /\ ends[at + 1] \in 0 .. Held + 1
        <4>1. at \in 0 .. n /\ at + 1 \in 0 .. n
          BY <1>4
        <4> HIDE DEF n
        <4> QED BY <1>9, <4>1
      <3>2. SubSeq(ZStream, 1, ends[at]) \o SubSeq(ZStream, ends[at] + 1, ends[at + 1])
              = SubSeq(ZStream, 1, ends[at + 1])
        <4>1. 1 \in 1 .. Len(ZStream) + 1 /\ ends[at] \in 1 - 1 .. Len(ZStream) /\ ends[at + 1] \in ends[at] .. Len(ZStream)
          BY <1>4, <1>10, <3>1
        <4> QED BY <1>4, <4>1, ConcatAdjacentSubSeq
      <3> QED BY <1>8, <1>9, <1>10, <2>1, <3>2
    <2>2. CASE c.type # "IDAT"
      BY <1>8, <1>9, <1>10, <2>2
    <2> QED BY <2>1, <2>2
  <1>12. ASSUME Intact PROVE InOrder' /\ ReadTo'
    <2>1. InOrder /\ ReadTo
      BY <1>3, <1>12
    <2>2. (c.type = "IHDR" <=> at = 0) /\ (c.type = "IEND" <=> at + 1 = n)
      BY <1>4, <2>1 DEF InOrder
    <2>3. InOrder'
      BY <1>1, <2>1 DEF InOrder
    <2>4. at' \in 0 .. n /\ at' # 0
      BY <1>4, <1>8
    <2>5. ihdr \in BOOLEAN /\ (ihdr <=> at # 0)
      BY <2>1 DEF ReadTo
    <2>6. ihdr' = TRUE
      BY <1>8, <2>2, <2>5, Zenon
    <2>7. (stage' = "read" => at' < n) /\ (stage' = "inflate" => at' = n) /\ stage' # "stored"
      BY <1>4, <1>8, <2>2
    <2> QED BY <1>1, <2>3, <2>4, <2>6, <2>7 DEF ReadTo
  <1>14. Shared(ends)'
    BY <1>1, <1>2, <1>9 DEF Shared
  <1>15. Readable'
    <2>1. at' \in 0 .. n /\ stage' # "stored"
      BY <1>4, <1>8
    <2> QED BY <1>1, <1>2, <1>4, <1>8, <1>9, <1>11, <1>14, <2>1 DEF Readable
  <1> QED BY <1>3, <1>8, <1>12, <1>15

\* A chunk whose CRC is not right any more is still where it was.
LEMMA MarkedReadable ==
  ASSUME Setting, Readable, at = 0, NEW m \in 1 .. Len(chunks), ~Intact',
         UNCHANGED <<image, at, compressed>>,
         chunks' = [chunks EXCEPT ![m] = [chunks[m] EXCEPT !.sound = FALSE]]
  PROVE  Readable'
  <1>1. Held' = Held /\ ZStream' = ZStream
    BY StreamKept
  <1> DEFINE n == Len(chunks)
  <1>2. n \in Nat /\ chunks \in Seq(Chunks) /\ at = 0 /\ m \in 1 .. n
    BY DEF Readable
  <1>3. PICK ends \in [0 .. n -> 0 .. Held + 1] : Shared(ends) /\ compressed = SubSeq(ZStream, 1, ends[at])
    BY DEF Readable
  <1>4. chunks' = [chunks EXCEPT ![m] = [chunks[m] EXCEPT !.sound = FALSE]]
    OBVIOUS
  <1> DEFINE c == [chunks[m] EXCEPT !.sound = FALSE]
  <1>5. chunks[m] \in Chunks
    BY <1>2, ElementOfSeq
  <1>6. c \in Chunks /\ c.type = chunks[m].type /\ c.data = chunks[m].data
    BY <1>5 DEF Chunks
  <1> HIDE DEF c
  <1>7. /\ chunks' \in Seq(Chunks) /\ Len(chunks') = n
        /\ \A j \in 1 .. n : chunks'[j].type = chunks[j].type /\ chunks'[j].data = chunks[j].data
    <2>1. chunks' = [chunks EXCEPT ![m] = c]
      BY <1>4 DEF c
    <2>2. chunks' \in Seq(Chunks) /\ Len(chunks') = n
          /\ \A j \in 1 .. n : chunks'[j] = IF j = m THEN c ELSE chunks[j]
      <3> DEFINE C == Chunks
      <3>1. chunks \in Seq(C) /\ c \in C /\ m \in 1 .. Len(chunks)
        BY <1>2, <1>6
      <3> HIDE DEF C
      <3>2. /\ [chunks EXCEPT ![m] = c] \in Seq(C) /\ Len([chunks EXCEPT ![m] = c]) = Len(chunks)
            /\ \A j \in 1 .. Len(chunks) : [chunks EXCEPT ![m] = c][j] = IF j = m THEN c ELSE chunks[j]
        BY <3>1, ExceptSeq
      <3> QED BY <2>1, <3>2 DEF C
    <2> QED BY <1>6, <2>2
  <1>8. Shared(ends)'
    BY <1>1, <1>3, <1>7 DEF Shared
  <1> QED BY <1>1, <1>2, <1>3, <1>7, <1>8 DEF Readable

\* What is cut off leaves the pieces before it.
LEMMA CutReadable ==
  ASSUME Setting, Readable, at = 0, NEW m \in 1 .. Len(chunks), ~Intact',
         UNCHANGED <<image, at, compressed>>, chunks' = SubSeq(chunks, 1, m - 1)
  PROVE  Readable'
  <1>1. Held' = Held /\ ZStream' = ZStream
    BY StreamKept
  <1> DEFINE n == Len(chunks)
  <1>2. n \in Nat /\ chunks \in Seq(Chunks) /\ at = 0 /\ m \in 1 .. n
    BY DEF Readable
  <1>3. PICK ends \in [0 .. n -> 0 .. Held + 1] : Shared(ends) /\ compressed = SubSeq(ZStream, 1, ends[at])
    BY DEF Readable
  <1>4. chunks' = SubSeq(chunks, 1, m - 1)
    OBVIOUS
  <1>5. /\ chunks' \in Seq(Chunks) /\ Len(chunks') = m - 1
        /\ \A j \in 1 .. m - 1 : chunks'[j] = chunks[j]
    <2>1. m \in Int /\ 1 \in Int /\ m - 1 \in Int /\ 1 <= m /\ m - 1 <= n
      BY <1>2
    <2>2. \A j \in 1 .. m - 1 : j \in 1 .. Len(chunks)
      BY <1>2
    <2>3. \A j \in 1 .. m - 1 : chunks[j] \in Chunks
      BY <1>2, <2>2, ElementOfSeq
    <2>4. /\ chunks' \in Seq(Chunks)
          /\ Len(chunks') = IF 1 <= m - 1 THEN (m - 1) - 1 + 1 ELSE 0
          /\ \A j \in 1 .. (m - 1) - 1 + 1 : chunks'[j] = chunks[1 + j - 1]
      BY <1>4, <2>1, <2>3, SubSeqProperties
    <2> QED BY <2>1, <2>4
  <1>e. PICK less : less = [j \in 0 .. m - 1 |-> ends[j]]
    OBVIOUS
  <1>6. less \in [0 .. Len(chunks') -> 0 .. Held' + 1] /\ less[0] = ends[0]
        /\ \A j \in 1 .. m - 1 : less[j] = ends[j] /\ less[j - 1] = ends[j - 1]
    <2>1. m \in Int /\ 1 <= m /\ m - 1 <= n /\ n \in Nat
      BY <1>2
    <2>2. \A j \in 0 .. m - 1 : j \in 0 .. n /\ ends[j] \in 0 .. Held + 1 /\ less[j] = ends[j]
      BY SMTT(30), <2>1, <1>e
    <2>3. 0 \in 0 .. m - 1 /\ \A j \in 1 .. m - 1 : j \in 0 .. m - 1 /\ j - 1 \in 0 .. m - 1
      BY <2>1
    <2> QED BY <1>1, <1>5, <1>e, <2>2, <2>3
  <1>7. Shared(less)'
    <2>1. \A j \in 1 .. m - 1 : j \in 1 .. n
      BY <1>2
    <2> QED BY <1>1, <1>3, <1>5, <1>6, <2>1 DEF Shared
  <1>8. compressed' = SubSeq(ZStream', 1, less[at'])
    BY <1>1, <1>2, <1>3, <1>6
  <1>9. at' \in 0 .. Len(chunks') /\ at' = 0
    BY <1>2, <1>5
  <1> QED BY <1>3, <1>5, <1>6, <1>7, <1>8, <1>9 DEF Readable

\* What was changed without moving a chunk leaves the pieces where they were, and what
\* was cut off leaves those before it.
LEMMA DamageIntact == ASSUME PngInv, IntactInv, Damage PROVE IntactInv'
  <1>1. PICK m \in 1 .. Len(chunks), kind \in {"crc", "lost", "repeated", "cut off", "appended"} :
          /\ changes' = changes \cup {kind}
          /\ chunks' = CASE kind = "crc" -> [chunks EXCEPT ![m].sound = FALSE]
                         [] kind = "lost" -> RemoveAt(chunks, m)
                         [] kind = "repeated" -> InsertAt(chunks, m, chunks[m])
                         [] kind = "cut off" -> SubSeq(chunks, 1, m - 1)
                         [] kind = "appended" -> chunks
    BY DEF Damage
  <1>2. /\ stage = "stored" /\ stage' = "stored" /\ UNCHANGED <<image, at, compressed>> /\ Setting
    BY DEF Damage, reading, PngInv, call
  <1>3. ~Intact'
    BY <1>1 DEF Intact
  <1> SUFFICES ASSUME InPlace' PROVE Readable'
    BY <1>2, <1>3 DEF IntactInv, Unwritten
  <1>4. InPlace /\ kind \in {"crc", "cut off", "appended"}
    BY <1>1 DEF InPlace
  <1>5. Held' = Held /\ ZStream' = ZStream /\ Readable
    BY <1>2, <1>4, StreamKept DEF IntactInv, Unwritten
  <1>6. PICK ends \in [0 .. Len(chunks) -> 0 .. Held + 1] :
          Shared(ends) /\ compressed = SubSeq(ZStream, 1, ends[at])
    BY <1>5 DEF Readable
  <1> DEFINE n == Len(chunks)
  <1>7. n \in Nat /\ chunks \in Seq(Chunks) /\ at = 0 /\ m \in 1 .. n
    <2>1. chunks \in Seq(Chunks) /\ at = 0
      BY <1>2, <1>5 DEF Readable
    <2> HIDE DEF Chunks
    <2> QED BY <2>1, LenProperties
  <1>8. CASE kind = "appended"
    <2>1. chunks' = chunks
      BY <1>1, <1>8
    <2> QED BY <1>2, <1>3, <1>5, <1>6, <1>7, <2>1 DEF Readable, Shared
  <1>9. CASE kind = "crc"
    <2>1. chunks' = [chunks EXCEPT ![m] = [chunks[m] EXCEPT !.sound = FALSE]]
      BY <1>1, <1>9
    <2> QED BY <1>2, <1>3, <1>5, <1>7, <2>1, MarkedReadable
  <1>10. CASE kind = "cut off"
    <2>1. chunks' = SubSeq(chunks, 1, m - 1)
      BY <1>1, <1>10
    <2> QED BY <1>2, <1>3, <1>5, <1>7, <2>1, CutReadable
  <1> QED BY <1>4, <1>8, <1>9, <1>10

\* A front of the stream is compared.
LEMMA FrontOfStream ==
  ASSUME Setting, NEW k \in 0 .. Held + 1
  PROVE  /\ SubSeq(ZStream, 1, k) \in Seq(Nat) /\ Len(SubSeq(ZStream, 1, k)) = k
         /\ \A j \in 0 .. k : IsPrefix(SubSeq(ZStream, 1, j), SubSeq(ZStream, 1, k))
  <1>1. ZStream \in Seq(Nat) /\ Len(ZStream) = Held + 1 /\ Held \in Nat
    BY StreamIs
  <1>2. \A j \in 0 .. Held + 1 :
          /\ SubSeq(ZStream, 1, j) \in Seq(Nat) /\ Len(SubSeq(ZStream, 1, j)) = j
          /\ \A i \in 1 .. j : SubSeq(ZStream, 1, j)[i] = ZStream[i]
    BY <1>1
  <1>3. ASSUME NEW j \in 0 .. k
        PROVE  IsPrefix(SubSeq(ZStream, 1, j), SubSeq(ZStream, 1, k))
    <2> DEFINE s == SubSeq(ZStream, 1, j) u == SubSeq(ZStream, 1, k)
    <2>1. /\ s \in Seq(Nat) /\ Len(s) = j /\ u \in Seq(Nat) /\ Len(u) = k
          /\ \A i \in 1 .. j : s[i] = u[i]
      BY <1>1, <1>2
    <2> HIDE DEF s, u
    <2>2. j \in Nat /\ k \in Nat /\ j <= k
      BY <1>1
    <2>3. SubSeq(s, 1, j) = SubSeq(u, 1, j)
      BY <2>1, <2>2
    <2>4. IsPrefix(s, u)
      BY <2>1, <2>2, <2>3 DEF IsPrefix
    <2> QED BY <2>4 DEF s, u
  <1> QED BY <1>2, <1>3

\* As long as everything is in its place, nothing is misplaced in the stream.
LEMMA NothingMisplaced == PngInv /\ IntactInv /\ InPlace => ~Misplaced
  <1> SUFFICES ASSUME PngInv, IntactInv, InPlace PROVE ~Misplaced
    OBVIOUS
  <1>1. Setting /\ Held \in Nat /\ ZStream \in Seq(Nat) /\ Len(ZStream) = Held + 1
    BY StreamIs DEF PngInv
  <1>2. PICK k \in 0 .. Held + 1 : compressed = SubSeq(ZStream, 1, k)
    <2>1. CASE Unwritten
      <3>1. compressed = <<>>
        BY <2>1 DEF IntactInv
      <3>2. SubSeq(ZStream, 1, 0) = <<>>
        BY <1>1
      <3>3. 0 \in 0 .. Held + 1
        BY <1>1
      <3> QED BY <3>1, <3>2, <3>3
    <2>2. CASE ~Unwritten
      <3>1. PICK ends \in [0 .. Len(chunks) -> 0 .. Held + 1] : compressed = SubSeq(ZStream, 1, ends[at])
        BY <2>2 DEF IntactInv, Readable
      <3>2. at \in 0 .. Len(chunks)
        BY <2>2 DEF IntactInv, Readable
      <3>3. ends[at] \in 0 .. Held + 1
        BY <3>2
      <3> QED BY <3>1, <3>3
    <2> QED BY <2>1, <2>2
  <1>3. Rows = SubSeq(ZStream, 1, Held) /\ Held \in 0 .. Held + 1
    BY <1>1 DEF Rows
  <1>4. CASE k <= Held
    <2>1. k \in 0 .. Held
      BY <1>1, <1>4
    <2> QED BY <1>1, <1>2, <1>3, <2>1, FrontOfStream DEF Misplaced
  <1>5. CASE k = Held + 1
    <2>1. Held \in 0 .. k
      BY <1>1, <1>5
    <2> QED BY <1>1, <1>2, <1>3, <2>1, FrontOfStream DEF Misplaced
  <1> QED BY <1>1, <1>4, <1>5

\* All of the stream has been collected when it is inflated.
LEMMA InflateIntact == ASSUME PngInv, IntactInv, Inflate, Intact, Countable PROVE stage' # "refused"
  <1>1. stage = "inflate" /\ Setting /\ InPlace /\ Readable /\ ReadTo
    BY IntactInPlace DEF Inflate, PngInv, IntactInv, Unwritten
  <1>2. /\ Scanlines \in Nat /\ ZStream \in Seq(Nat) /\ Len(ZStream) = Held + 1 /\ Held = Scanlines
    BY <1>1, StreamIs DEF Countable
  <1>3. at = Len(chunks)
    BY <1>1 DEF ReadTo
  <1>4. PICK ends \in [0 .. Len(chunks) -> 0 .. Held + 1] :
          compressed = SubSeq(ZStream, 1, ends[at]) /\ ends[Len(chunks)] = Held + 1
    BY <1>1 DEF Readable
  <1>5. compressed = ZStream
    BY <1>2, <1>3, <1>4, SubSeqFull
  <1>6. Seen = ZStream
    <2>1. CASE dense
      <3>1. Len(compressed) \in Nat /\ Len(compressed) <= MaxUInt
        BY <1>2, <1>5, <2>1 DEF Countable
      <3>2. Cut(Len(compressed)) = Len(compressed)
        BY <3>1, BaseAssumption DEF Cut
      <3> QED BY <1>2, <1>5, <2>1, <3>2, SubSeqFull DEF Seen
    <2>2. CASE ~dense
      BY <1>5, <2>2 DEF Seen
    <2> QED BY <2>1, <2>2
  <1>7. IsPrefix(ZStream, Seen)
    BY <1>2, <1>6 DEF IsPrefix
  <1> QED BY <1>2, <1>7 DEF Inflate, ZlibInflates

LEMMA IntactInductive == PngSpec => []IntactInv
  <1>1. PngInit => IntactInv
    BY DEF PngInit, IntactInv, Unwritten
  <1>2. PngInv /\ IntactInv /\ [PngNext]_pngVars => IntactInv'
    <2> SUFFICES ASSUME PngInv, IntactInv, [PngNext]_pngVars PROVE IntactInv'
      OBVIOUS
    <2>1. ASSUME UNCHANGED <<image, dense, extra, changes, at, ihdr, compressed, chunks>>,
                 \/ stage = "filter" /\ stage' \in {"filter", "failed"}
                 \/ stage' = stage
                 \/ stage = "stored" /\ stage' = "read"
                 \/ stage \notin {"filter", "failed"} /\ stage' \in {"unfilter", "decoded"}
                 \/ /\ stage \notin {"filter", "failed"} /\ stage' = "refused"
                    /\ ~(Intact /\ Countable)
          PROVE  IntactInv'
      <3>1. Scanlines' = Scanlines /\ Held' = Held /\ ZStream' = ZStream
        BY <2>1, StreamKept
      <3>2. \A ends : Shared(ends)' <=> Shared(ends)
        BY <2>1, <3>1 DEF Shared
      <3>3. (InOrder' <=> InOrder) /\ (Intact' <=> Intact) /\ (InPlace' <=> InPlace) /\ (Countable' <=> Countable)
        BY <2>1, <3>1 DEF InOrder, Intact, InPlace, Countable
      <3>4. Unwritten' <=> Unwritten
        BY <2>1 DEF Unwritten
      <3>5. InOrder /\ ReadTo /\ ~Unwritten => ReadTo'
        BY <2>1 DEF InOrder, ReadTo, Unwritten
      <3>6. Readable /\ ~Unwritten => Readable'
        BY <2>1, <3>1, <3>2, <3>3 DEF Readable, Unwritten
      <3>7. Intact => (Countable => stage' # "refused")
        BY <2>1 DEF IntactInv
      <3> QED BY <2>1, <3>3, <3>4, <3>5, <3>6, <3>7 DEF IntactInv
    <2>2. CASE FilterRow \/ TryFilter \/ EncodeFails
      BY <2>1, <2>2 DEF FilterRow, TryFilter, EncodeFails, reading, call
    <2>3. CASE Open
      BY <2>1, <2>3 DEF Open, reading, call
    <2>4. CASE EndOfFile
      <3>1. ~Intact
        BY <2>4 DEF EndOfFile, IntactInv, InOrder, ReadTo, Unwritten
      <3> QED BY <2>1, <2>4, <3>1 DEF EndOfFile, reading, call
    <2>5. CASE Inflate
      <3>1. Intact /\ Countable => stage' # "refused"
        BY <2>5, InflateIntact
      <3> QED BY <2>1, <2>5, <3>1 DEF Inflate, reading, call
    <2>6. CASE UnfilterByte
      BY <2>1, <2>6 DEF UnfilterByte, reading, call
    <2>7. CASE UNCHANGED pngVars
      BY <2>1, <2>7 DEF pngVars, reading, call
    <2> QED BY <2>2, <2>3, <2>4, <2>5, <2>6, <2>7, WriteChunksIntact, DamageIntact, AnnotateIntact,
               ReadChunkIntact DEF PngNext
  <1> QED BY <1>1, <1>2, PngInductive, PTL DEF PngSpec

\* Whatever was done to the file, decode() returns the image that was encoded or none;
\* only if the build has ISA-L and chunks were lost or repeated, another image may
\* come out (png.cpp:187-190, 274-374, 544-630).
THEOREM DecodesTheImage == PngSpec => []AlwaysTheImage
  <1>1. PngInv /\ IntactInv => AlwaysTheImage
    BY NothingMisplaced DEF PngInv, Restoring, AlwaysTheImage
  <1> QED BY <1>1, PngInductive, IntactInductive, PTL

\* No file as encode() wrote it is refused, whatever other programs have put in
\* between, unless the filtered rows or the stream exceed the counters of zlib
\* (png.cpp:175, 249, 558-615).
THEOREM IntactIsDecoded == PngSpec => []IntactDecodes
  <1>1. IntactInv => IntactDecodes
    BY DEF IntactInv, IntactDecodes
  <1> QED BY <1>1, IntactInductive, PTL
===============================================================================
