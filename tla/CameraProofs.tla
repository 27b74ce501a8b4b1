---------------------------- MODULE CameraProofs ----------------------------
(***************************************************************************)
(* Proofs about the camera, for any sizes, numbers of buffers and bounds, and*)
(* about Scaling, for frames of every size.                                  *)
(*                                                                           *)
(* That each picture is half the one before it: the inductive invariant says *)
(* how far a loop has got.  What lies before newbufpos is the picture to be, *)
(* what lies from newbufpos on is still the picture as it was.               *)
(*                                                                           *)
(* That pictures are as told: the invariant follows a number from the answer *)
(* of the server through the mail into the camera's record and back to the   *)
(* server, and says that none of it outlives its connection.                 *)
(***************************************************************************)
EXTENDS Camera, Scaling, SequenceTheorems, TLAPS

-----------------------------------------------------------------------------
(* Scaling: its invariant.                                                  *)

Latest == jci[Len(jci)]

\* The memory is long enough for the picture in it.
Roomy == \E n \in Nat : DOMAIN image_raw = 0..n /\ w * h <= n

Shape ==
  /\ stage \in {"flipv", "fliph", "encode", "lines", "columns", "end"}
  /\ w \in Nat /\ h \in Nat /\ smallest \in 1..(MaxImages - 1)
  /\ nlines \in Nat /\ npixel \in Nat /\ newbufpos \in Nat /\ oldbufpos \in Nat
  /\ \E S : jci \in Seq(S)
  /\ Len(jci) <= smallest + 1
  /\ stage # "end" => Len(jci) <= smallest
  /\ stage \in {"flipv", "fliph"} => Len(jci) = 0
  /\ stage \in {"lines", "columns"} => Len(jci) > 0

\* deinterlace: kept lines first, then lines not looked at yet.
AtLines ==
  /\ Latest.w = w /\ Latest.h = h
  /\ nlines \in 1..(h \div 2 + 1) /\ npixel \in 1..(w + 1)
  /\ nlines > h \div 2 => npixel = 1
  /\ newbufpos = (nlines - 1) * w + (npixel - 1)
  /\ oldbufpos = (2 * nlines - 1) * w + (npixel - 1)
  /\ \A y \in 0..(h \div 2 - 1), x \in 0..(w - 1) :
       y * w + x < newbufpos => image_raw[y * w + x] = Latest.data[2 * y + 1][x]
  /\ \A y \in 0..(h - 1), x \in 0..(w - 1) :
       y * w + x >= newbufpos => image_raw[y * w + x] = Latest.data[y][x]

Mixed(y, x) == Average(Latest.data[2 * y + 1][2 * x], Latest.data[2 * y + 1][2 * x + 1])

\* halfwidth: means first, then pixels not looked at yet.
AtColumns ==
  /\ Latest.w = w /\ Latest.h \in Nat /\ Latest.h \div 2 = h
  /\ nlines \in 1..(h + 1) /\ npixel \in 1..(w \div 2 + 1)
  /\ nlines > h => npixel = 1
  /\ newbufpos = (nlines - 1) * (w \div 2) + (npixel - 1)
  /\ oldbufpos = (nlines - 1) * w + 2 * (npixel - 1)
  /\ \A y \in 0..(h - 1), x \in 0..(w \div 2 - 1) :
       y * (w \div 2) + x < newbufpos => image_raw[y * (w \div 2) + x] = Mixed(y, x)
  /\ \A y \in 0..(h - 1), x \in 0..(w - 1) :
       y * w + x >= newbufpos => image_raw[y * w + x] = Latest.data[2 * y + 1][x]

AtEncode ==
  /\ w = Latest.w \div 2 /\ h = Latest.h \div 2
  /\ \A y \in 0..(h - 1), x \in 0..(w - 1) : image_raw[y * w + x] = Mixed(y, x)

ScalingInv ==
  /\ Shape /\ Roomy /\ EachIsHalved
  /\ stage = "lines" => AtLines
  /\ stage = "columns" => AtColumns
  /\ stage = "encode" /\ Len(jci) > 0 => AtEncode

-----------------------------------------------------------------------------
(* Places in a picture k pixels wide.                                       *)

LEMMA Product == ASSUME NEW a \in Nat, NEW k \in Nat PROVE a * k \in Nat
  BY SMT

\* A pixel lies before the next line.
LEMMA Below ==
  ASSUME NEW a \in Nat, NEW b \in Nat, NEW k \in Nat, NEW x \in 0..(k - 1), a < b
  PROVE  a * k + x < b * k
<1> DEFINE d == b - a - 1
<1>1. d \in Nat /\ b = a + 1 + d
  OBVIOUS
<1>2. d * k \in Nat /\ a * k \in Nat
  BY <1>1, Product
<1>3. b * k = a * k + k + d * k
  BY <1>1, SMT
<1> QED
  BY <1>2, <1>3

\* No two pixels share a place.
LEMMA SamePlace ==
  ASSUME NEW a \in Nat, NEW b \in Nat, NEW k \in Nat,
         NEW x \in 0..(k - 1), NEW z \in 0..(k - 1), a * k + x = b * k + z
  PROVE  a = b /\ x = z
<1>1. a * k \in Nat /\ b * k \in Nat
  BY Product
<1>2. ~(a < b)
  <2>1. a < b => a * k + x < b * k
    BY Below
  <2> QED
    BY <2>1, <1>1
<1>3. ~(b < a)
  <2>1. b < a => b * k + z < a * k
    BY Below
  <2> QED
    BY <2>1, <1>1
<1>4. a = b
  BY <1>2, <1>3
<1> QED
  BY <1>4, <1>1

LEMMA Narrower ==
  ASSUME NEW a \in Nat, NEW j \in Nat, NEW k \in Nat, j <= k
  PROVE  a * j <= a * k
<1> DEFINE d == k - j
<1>1. d \in Nat /\ k = j + d
  OBVIOUS
<1>2. a * d \in Nat /\ a * j \in Nat
  BY <1>1, Product
<1>3. a * k = a * j + a * d
  BY <1>1, SMT
<1> QED
  BY <1>2, <1>3

LEMMA NextPlace == ASSUME NEW a \in Nat, NEW k \in Nat PROVE (a + 1) * k = a * k + k
  BY SMT

LEMMA Halves == ASSUME NEW n \in Nat
                PROVE  n \div 2 \in Nat /\ 2 * (n \div 2) <= n /\ n \div 2 <= n
  BY SMT

LEMMA Higher ==
  ASSUME NEW a \in Nat, NEW j \in Nat, NEW k \in Nat, j <= k
  PROVE  j * a <= k * a
<1> DEFINE d == k - j
<1>1. d \in Nat /\ k = j + d
  OBVIOUS
<1>2. d * a \in Nat /\ j * a \in Nat
  BY <1>1, Product
<1>3. k * a = j * a + d * a
  BY <1>1, SMT
<1> QED
  BY <1>2, <1>3

-----------------------------------------------------------------------------
(* The loops.                                                               *)

\* deinterlace reads within the picture and writes over what it has read.
LEMMA LinesInMemory ==
  ASSUME Shape, Roomy, AtLines
  PROVE  /\ newbufpos <= oldbufpos
         /\ nlines <= h \div 2 /\ npixel <= w => oldbufpos \in DOMAIN image_raw
<1> DEFINE r == nlines - 1
           c == npixel - 1
           o == 2 * nlines - 1
<1>1. w \in Nat /\ h \in Nat /\ h \div 2 \in Nat /\ 2 * (h \div 2) <= h
  BY Halves DEF Shape
<1>2. r \in Nat /\ o \in Nat /\ c \in Nat /\ r <= o
  BY DEF AtLines, Shape
<1>3. newbufpos = r * w + c /\ oldbufpos = o * w + c
  BY DEF AtLines
<1>4. nlines <= h \div 2 /\ npixel <= w => o < h /\ c \in 0..(w - 1)
  BY <1>1, <1>2 DEF Shape
<1>5. r * w <= o * w /\ r * w \in Nat /\ o * w \in Nat
  BY <1>1, <1>2, Higher, Product
<1> HIDE DEF r, c, o
<1>6. ASSUME o < h, c \in 0..(w - 1) PROVE oldbufpos \in DOMAIN image_raw
  <2>1. o * w + c < h * w /\ w * h = h * w /\ w * h \in Nat
    BY <1>1, <1>2, <1>6, Below, Product
  <2>2. PICK n \in Nat : DOMAIN image_raw = 0..n /\ w * h <= n
    BY DEF Roomy
  <2> QED
    BY <2>1, <2>2, <1>2, <1>3, <1>5
<1> QED
  BY <1>2, <1>3, <1>4, <1>5, <1>6

\* So does halfwidth.
LEMMA ColumnsInMemory ==
  ASSUME Shape, Roomy, AtColumns
  PROVE  /\ newbufpos <= oldbufpos
         /\ nlines <= h /\ npixel <= w \div 2 => oldbufpos + 1 \in DOMAIN image_raw
<1> DEFINE r == nlines - 1
           c == npixel - 1
           k == w \div 2
<1>1. w \in Nat /\ h \in Nat /\ k \in Nat /\ 2 * k <= w /\ k <= w
  BY Halves DEF Shape
<1>2. r \in Nat /\ c \in Nat
  BY DEF AtColumns
<1>3. newbufpos = r * k + c /\ oldbufpos = r * w + 2 * c
  BY DEF AtColumns
<1>4. nlines <= h /\ npixel <= k => r < h /\ 2 * c + 1 \in 0..(w - 1)
  BY <1>1, <1>2 DEF Shape
<1>5. r * k <= r * w /\ r * w \in Nat /\ r * k \in Nat
  BY <1>1, <1>2, Narrower, Product
<1> HIDE DEF r, c
<1>6. ASSUME r < h, 2 * c + 1 \in 0..(w - 1) PROVE oldbufpos + 1 \in DOMAIN image_raw
  <2>1. r * w + (2 * c + 1) < h * w /\ w * h = h * w /\ w * h \in Nat
    BY <1>1, <1>2, <1>6, Below, Product
  <2>2. PICK n \in Nat : DOMAIN image_raw = 0..n /\ w * h <= n
    BY DEF Roomy
  <2> QED
    BY <2>1, <2>2, <1>2, <1>3, <1>5
<1> QED
  BY <1>2, <1>3, <1>4, <1>5, <1>6

\* deinterlace copies a pixel of the line it keeps over one it has passed.
LEMMA CopyPixelKeeps ==
  ASSUME ScalingInv, CopyPixel
  PROVE  ScalingInv'
<1> DEFINE r == nlines - 1
           c == npixel - 1
           o == 2 * nlines - 1
<1>1. stage = "lines" /\ Shape /\ Roomy /\ EachIsHalved /\ AtLines
  BY DEF ScalingInv, CopyPixel
<1>2. w \in Nat /\ h \in Nat /\ h \div 2 \in Nat /\ 2 * (h \div 2) <= h
  BY <1>1, Halves DEF Shape
<1>3. r \in 0..(h \div 2 - 1) /\ c \in 0..(w - 1) /\ o \in 0..(h - 1) /\ o = 2 * r + 1
  BY <1>1, <1>2 DEF AtLines, CopyPixel
<1>4. newbufpos = r * w + c /\ oldbufpos = o * w + c /\ newbufpos \in Nat /\ oldbufpos \in Nat
  BY <1>1 DEF AtLines, Shape
<1>4a. nlines - 1 = r /\ npixel = c + 1 /\ 2 * nlines - 1 = o
  BY <1>1 DEF Shape
<1> HIDE DEF r, c, o
<1>5. newbufpos <= oldbufpos /\ oldbufpos \in DOMAIN image_raw
  BY <1>1, LinesInMemory DEF CopyPixel
<1>6. newbufpos \in DOMAIN image_raw
  BY <1>1, <1>4, <1>5 DEF Roomy
<1>7. image_raw[oldbufpos] = Latest.data[o][c]
  BY <1>1, <1>3, <1>4, <1>5 DEF AtLines
<1>8. /\ image_raw'[newbufpos] = Latest.data[o][c]
      /\ \A i \in Int : i # newbufpos => image_raw'[i] = image_raw[i]
      /\ DOMAIN image_raw' = DOMAIN image_raw
  BY <1>6, <1>7 DEF CopyPixel
<1>9. UNCHANGED <<stage, w, h, smallest, jci, nlines, Latest>>
  BY DEF CopyPixel, Latest
<1>10. newbufpos' = newbufpos + 1 /\ oldbufpos' = oldbufpos + 1 /\ npixel' = npixel + 1
  BY DEF CopyPixel
<1>11. ASSUME NEW y \in 0..(h \div 2 - 1), NEW x \in 0..(w - 1), y * w + x < newbufpos'
       PROVE  image_raw'[y * w + x] = Latest.data[2 * y + 1][x]
  <2>1. y * w \in Nat
    BY <1>2, Product
  <2>2. CASE y * w + x = newbufpos
    <3>1. y \in Nat /\ r \in Nat /\ y * w + x = r * w + c
      BY <2>2, <1>2, <1>3, <1>4
    <3>2. y = r /\ x = c
      BY <3>1, <1>2, <1>3, SamePlace
    <3> QED
      BY <3>2, <2>2, <1>3, <1>8
  <2>3. CASE y * w + x # newbufpos
    <3>1. y * w + x \in Int /\ y * w + x < newbufpos
      BY <2>1, <2>3, <1>4, <1>10, <1>11
    <3> QED
      BY <3>1, <2>3, <1>1, <1>8 DEF AtLines
  <2> QED
    BY <2>2, <2>3
<1>12. ASSUME NEW y \in 0..(h - 1), NEW x \in 0..(w - 1), y * w + x >= newbufpos'
       PROVE  image_raw'[y * w + x] = Latest.data[y][x]
  <2>1. y * w \in Nat
    BY <1>2, Product
  <2>2. y * w + x \in Int /\ y * w + x > newbufpos
    BY <2>1, <1>4, <1>10, <1>12
  <2> QED
    BY <2>2, <1>1, <1>4, <1>8 DEF AtLines
<1>13. Shape'
  BY <1>1, <1>9, <1>10 DEF Shape
<1>14. Roomy' /\ EachIsHalved'
  BY <1>1, <1>8, <1>9 DEF Roomy, EachIsHalved
<1>15. AtLines'
  <2>1. npixel' \in 1..(w + 1) /\ (nlines > h \div 2 => npixel' = 1)
    BY <1>2, <1>3, <1>4a, <1>10, <1>1 DEF CopyPixel, AtLines
  <2>2. /\ newbufpos' = (nlines - 1) * w + (npixel' - 1)
        /\ oldbufpos' = (2 * nlines - 1) * w + (npixel' - 1)
    <3>1. r * w \in Nat /\ o * w \in Nat
      BY <1>2, <1>3, Product
    <3> QED
      BY <3>1, <1>4a, <1>3, <1>4, <1>10
  <2>3. nlines \in 1..(h \div 2 + 1) /\ Latest.w = w /\ Latest.h = h
    BY <1>1 DEF AtLines
  <2> QED
    BY <2>1, <2>2, <2>3, <1>9, <1>11, <1>12 DEF AtLines
<1> QED
  BY <1>1, <1>9, <1>13, <1>14, <1>15 DEF ScalingInv

\* The lines already kept end where the next one starts.
LEMMA NextLineKeeps ==
  ASSUME ScalingInv, NextLine
  PROVE  ScalingInv'
<1> DEFINE r == nlines - 1
           o == 2 * nlines - 1
<1>1. stage = "lines" /\ Shape /\ Roomy /\ EachIsHalved /\ AtLines
  BY DEF ScalingInv, NextLine
<1>2. w \in Nat /\ h \div 2 \in Nat /\ r \in Nat /\ o \in Nat /\ nlines \in Nat
  BY <1>1, Halves DEF Shape, AtLines
<1>3. UNCHANGED <<stage, image_raw, w, h, smallest, jci, newbufpos, Latest>>
  BY DEF NextLine, Latest
<1>4. nlines' = nlines + 1 /\ npixel' = 1 /\ oldbufpos' = oldbufpos + w
  BY DEF NextLine
<1>5. newbufpos = r * w + w /\ oldbufpos = o * w + w
  BY <1>1 DEF AtLines, Shape, NextLine
<1>6. newbufpos' = (nlines' - 1) * w + (npixel' - 1)
  <2>1. nlines' - 1 = r + 1 /\ (r + 1) * w = r * w + w /\ (r + 1) * w \in Nat
    BY <1>2, <1>4, NextPlace, Product
  <2> QED
    BY <2>1, <1>3, <1>4, <1>5
<1>7. oldbufpos' = (2 * nlines' - 1) * w + (npixel' - 1)
  <2>1. 2 * nlines' - 1 = o + 2 /\ o + 1 \in Nat /\ (o + 1) + 1 = o + 2
    BY <1>2, <1>4
  <2>2. (o + 1) * w = o * w + w /\ (o + 2) * w = (o + 1) * w + w
    BY <2>1, <1>2, NextPlace
  <2>3. o * w \in Nat
    BY <1>2, Product
  <2> QED
    BY <2>1, <2>2, <2>3, <1>2, <1>4, <1>5
<1>8. nlines' \in 1..(h \div 2 + 1) /\ npixel' \in 1..(w + 1)
  BY <1>1, <1>2, <1>4 DEF NextLine, AtLines
<1>9. Shape' /\ Roomy' /\ EachIsHalved'
  BY <1>1, <1>3, <1>4 DEF Shape, Roomy, EachIsHalved
<1>10. AtLines'
  BY <1>1, <1>3, <1>4, <1>6, <1>7, <1>8 DEF AtLines
<1> QED
  BY <1>1, <1>3, <1>9, <1>10 DEF ScalingInv

\* With all lines kept, the picture is as high as scaleimage says.
LEMMA EndLinesKeeps ==
  ASSUME ScalingInv, EndLines
  PROVE  ScalingInv'
<1> DEFINE g == h \div 2
<1>1. stage = "lines" /\ Shape /\ Roomy /\ EachIsHalved /\ AtLines
  BY DEF ScalingInv, EndLines
<1>2. w \in Nat /\ h \in Nat /\ g \in Nat /\ g <= h
  BY <1>1, Halves DEF Shape
<1>3. /\ stage' = "columns" /\ h' = g
      /\ nlines' = 1 /\ npixel' = 1 /\ newbufpos' = 0 /\ oldbufpos' = 0
      /\ UNCHANGED <<image_raw, w, smallest, jci, Latest>>
  BY DEF EndLines, Rewind, Latest
<1>4. newbufpos = g * w
  <2>1. nlines - 1 = g /\ npixel = 1
    BY <1>1, <1>2 DEF EndLines, AtLines
  <2>2. g * w \in Nat
    BY <1>2, Product
  <2> QED
    BY <2>1, <2>2, <1>1 DEF AtLines
<1>5. Roomy'
  <2>1. PICK n \in Nat : DOMAIN image_raw = 0..n /\ w * h <= n
    BY <1>1 DEF Roomy
  <2>2. w * g <= w * h /\ w * g \in Nat /\ w * h \in Nat
    BY <1>2, Narrower, Product
  <2>3. w * g <= n
    BY <2>1, <2>2
  <2> QED
    BY <2>1, <2>3, <1>3 DEF Roomy
<1>6. ASSUME NEW y \in 0..(g - 1), NEW x \in 0..(w - 1)
      PROVE  image_raw[y * w + x] = Latest.data[2 * y + 1][x]
  <2>1. y * w + x < newbufpos
    BY <1>2, <1>4, Below
  <2> QED
    BY <2>1, <1>1 DEF AtLines
<1>7. AtColumns'
  <2>1. \A y \in 0..(g - 1), x \in 0..(w - 1) :
          y * w + x >= newbufpos' => image_raw'[y * w + x] = Latest'.data[2 * y + 1][x]
    BY <1>3, <1>6
  <2>2. w \div 2 \in Nat
    BY <1>2, Halves
  <2>3. ASSUME NEW y \in 0..(g - 1), NEW x \in 0..(w \div 2 - 1)
        PROVE  ~(y * (w \div 2) + x < newbufpos')
    <3>1. y * (w \div 2) \in Nat
      BY <2>2, <1>2, Product
    <3> QED
      BY <3>1, <1>3
  <2>4. newbufpos' = (nlines' - 1) * (w \div 2) + (npixel' - 1)
    BY <2>2, <1>3
  <2>5. oldbufpos' = (nlines' - 1) * w + 2 * (npixel' - 1)
    BY <1>2, <1>3
  <2>6. /\ Latest'.w = w /\ Latest'.h \in Nat /\ Latest'.h \div 2 = g
        /\ nlines' \in 1..(g + 1) /\ npixel' \in 1..(w \div 2 + 1)
    BY <2>2, <1>1, <1>2, <1>3 DEF AtLines
  <2> HIDE DEF g
  <2>7. npixel' = 1 /\ h' = g /\ w' = w
    BY <1>3
  <2> QED
    BY <2>1, <2>3, <2>4, <2>5, <2>6, <2>7 DEF AtColumns
<1>8. Shape' /\ EachIsHalved'
  BY <1>1, <1>2, <1>3 DEF Shape, EachIsHalved
<1> QED
  BY <1>3, <1>5, <1>7, <1>8 DEF ScalingInv

\* halfwidth puts the mean of two pixels over one it has passed, or the first of the
\* two itself.
LEMMA MeanPixelKeeps ==
  ASSUME ScalingInv, MeanPixel
  PROVE  ScalingInv'
<1> DEFINE r == nlines - 1
           c == npixel - 1
           k == w \div 2
<1>1. stage = "columns" /\ Shape /\ Roomy /\ EachIsHalved /\ AtColumns
  BY DEF ScalingInv, MeanPixel
<1>2. w \in Nat /\ h \in Nat /\ k \in Nat /\ 2 * k <= w /\ k <= w
  BY <1>1, Halves DEF Shape
<1>3. r \in 0..(h - 1) /\ c \in 0..(k - 1) /\ 2 * c \in 0..(w - 1) /\ 2 * c + 1 \in 0..(w - 1)
  BY <1>1, <1>2 DEF AtColumns, MeanPixel
<1>4. newbufpos = r * k + c /\ oldbufpos = r * w + 2 * c /\ newbufpos \in Nat /\ oldbufpos \in Nat
  BY <1>1 DEF AtColumns, Shape
<1>5. nlines - 1 = r /\ npixel = c + 1
  BY <1>1 DEF Shape
<1>6. r * k \in Nat /\ r * w \in Nat /\ r * k <= r * w
  BY <1>2, <1>3, Product, Narrower
<1>7. /\ image_raw' = [image_raw EXCEPT
             ![newbufpos] = Average(image_raw[oldbufpos], image_raw[oldbufpos + 1])]
      /\ newbufpos' = newbufpos + 1 /\ oldbufpos' = oldbufpos + 2 /\ npixel' = npixel + 1
      /\ UNCHANGED <<stage, w, h, smallest, jci, nlines, Latest>>
  BY DEF MeanPixel, Latest
<1>8. nlines \in 1..(h + 1) /\ Latest.w = w /\ Latest.h \in Nat /\ Latest.h \div 2 = h
  BY <1>1 DEF AtColumns
<1>9. \A y \in 0..(h - 1), x \in 0..(k - 1) :
        y * k + x < newbufpos => image_raw[y * k + x] = Mixed(y, x)
  BY <1>1 DEF AtColumns
<1>10. \A y \in 0..(h - 1), x \in 0..(w - 1) :
         y * w + x >= newbufpos => image_raw[y * w + x] = Latest.data[2 * y + 1][x]
  BY <1>1 DEF AtColumns
<1>11. nlines <= h
  BY DEF MeanPixel
<1> HIDE DEF r, c, k
<1>12. newbufpos <= oldbufpos /\ oldbufpos + 1 \in DOMAIN image_raw
  BY <1>1, ColumnsInMemory DEF MeanPixel
<1>13. newbufpos \in DOMAIN image_raw
  BY <1>1, <1>4, <1>12 DEF Roomy
<1>14. /\ image_raw[oldbufpos] = Latest.data[2 * r + 1][2 * c]
       /\ image_raw[oldbufpos + 1] = Latest.data[2 * r + 1][2 * c + 1]
  <2>1. /\ r * w + 2 * c = oldbufpos /\ oldbufpos >= newbufpos
        /\ r * w + (2 * c + 1) = oldbufpos + 1 /\ oldbufpos + 1 >= newbufpos
    BY <1>3, <1>4, <1>6, <1>12
  <2>2. r * w + 2 * c >= newbufpos => image_raw[r * w + 2 * c] = Latest.data[2 * r + 1][2 * c]
    BY <1>3, <1>10
  <2>3. r * w + (2 * c + 1) >= newbufpos
          => image_raw[r * w + (2 * c + 1)] = Latest.data[2 * r + 1][2 * c + 1]
    BY <1>3, <1>10
  <2> QED
    BY <2>1, <2>2, <2>3
<1>15. /\ image_raw'[newbufpos] = Mixed(r, c)
       /\ \A i \in Int : i # newbufpos => image_raw'[i] = image_raw[i]
       /\ DOMAIN image_raw' = DOMAIN image_raw
  BY <1>7, <1>13, <1>14 DEF Mixed
<1>16. ASSUME NEW y \in 0..(h - 1), NEW x \in 0..(k - 1), y * k + x < newbufpos'
       PROVE  image_raw'[y * k + x] = Mixed(y, x)
  <2>1. y * k \in Nat
    BY <1>2, Product
  <2>2. CASE y * k + x = newbufpos
    <3>1. y \in Nat /\ r \in Nat /\ y * k + x = r * k + c
      BY <2>2, <1>2, <1>3, <1>4
    <3>2. y = r /\ x = c
      BY <3>1, <1>2, <1>3, SamePlace
    <3> QED
      BY <3>2, <2>2, <1>15
  <2>3. CASE y * k + x # newbufpos
    <3>1. y * k + x \in Int /\ y * k + x < newbufpos
      BY <2>1, <2>3, <1>4, <1>7, <1>16
    <3> QED
      BY <3>1, <2>3, <1>9, <1>15
  <2> QED
    BY <2>2, <2>3
<1>17. ASSUME NEW y \in 0..(h - 1), NEW x \in 0..(w - 1), y * w + x >= newbufpos'
       PROVE  image_raw'[y * w + x] = Latest.data[2 * y + 1][x]
  <2>1. y * w \in Nat
    BY <1>2, Product
  <2>2. y * w + x \in Int /\ y * w + x > newbufpos
    BY <2>1, <1>4, <1>7, <1>17
  <2> QED
    BY <2>2, <1>4, <1>10, <1>15
<1>18. Shape' /\ Roomy' /\ EachIsHalved'
  BY <1>1, <1>7, <1>15 DEF Shape, Roomy, EachIsHalved
<1>19. AtColumns'
  <2>1. npixel' \in 1..(k + 1) /\ ~(nlines > h)
    BY <1>2, <1>3, <1>5, <1>7, <1>8, <1>11
  <2>2. /\ newbufpos' = (nlines - 1) * k + (npixel' - 1)
        /\ oldbufpos' = (nlines - 1) * w + 2 * (npixel' - 1)
    BY <1>3, <1>4, <1>5, <1>6, <1>7
  <2>3. k' = k /\ \A y, x : Mixed(y, x)' = Mixed(y, x)
    BY <1>7 DEF k, Mixed
  <2> QED
    BY <2>1, <2>2, <2>3, <1>7, <1>8, <1>16, <1>17 DEF AtColumns, k
<1> QED
  BY <1>1, <1>7, <1>18, <1>19 DEF ScalingInv

\* The next line is found anew, so that an odd pixel at the end of this one is skipped.
LEMMA NextRowKeeps ==
  ASSUME ScalingInv, NextRow
  PROVE  ScalingInv'
<1> DEFINE r == nlines - 1
           k == w \div 2
<1>1. stage = "columns" /\ Shape /\ Roomy /\ EachIsHalved /\ AtColumns
  BY DEF ScalingInv, NextRow
<1>2. w \in Nat /\ h \in Nat /\ k \in Nat /\ r \in Nat /\ nlines \in Nat
  BY <1>1, Halves DEF Shape, AtColumns
<1>3. /\ nlines' = nlines + 1 /\ npixel' = 1 /\ oldbufpos' = nlines * w
      /\ UNCHANGED <<stage, image_raw, w, h, smallest, jci, newbufpos, Latest>>
  BY DEF NextRow, Latest
<1>4. newbufpos = r * k + k
  <2>1. npixel - 1 = k
    BY <1>1, <1>2 DEF AtColumns, NextRow
  <2> QED
    BY <2>1, <1>1 DEF AtColumns
<1>5. newbufpos' = (nlines' - 1) * k + (npixel' - 1)
  <2>1. nlines' - 1 = r + 1 /\ (r + 1) * k = r * k + k /\ (r + 1) * k \in Nat
    BY <1>2, <1>3, NextPlace, Product
  <2> QED
    BY <2>1, <1>3, <1>4
<1>6. oldbufpos' = (nlines' - 1) * w + 2 * (npixel' - 1) /\ oldbufpos' \in Nat
  <2>1. nlines' - 1 = nlines /\ nlines * w \in Nat
    BY <1>2, <1>3, Product
  <2> QED
    BY <2>1, <1>3
<1>7. nlines' \in 1..(h + 1) /\ npixel' \in 1..(k + 1)
  BY <1>1, <1>2, <1>3 DEF NextRow, AtColumns
<1>8. Shape' /\ Roomy' /\ EachIsHalved'
  BY <1>1, <1>2, <1>3, <1>6 DEF Shape, Roomy, EachIsHalved
<1>9. AtColumns'
  <2>1. k' = k /\ \A y, x : Mixed(y, x)' = Mixed(y, x)
    BY <1>3 DEF Mixed
  <2> QED
    BY <2>1, <1>1, <1>3, <1>5, <1>6, <1>7 DEF AtColumns
<1> QED
  BY <1>1, <1>3, <1>8, <1>9 DEF ScalingInv

\* With all means taken, the picture is half the last one.
LEMMA EndColumnsKeeps ==
  ASSUME ScalingInv, EndColumns
  PROVE  ScalingInv'
<1> DEFINE k == w \div 2
<1>1. stage = "columns" /\ Shape /\ Roomy /\ EachIsHalved /\ AtColumns
  BY DEF ScalingInv, EndColumns
<1>2. w \in Nat /\ h \in Nat /\ k \in Nat /\ k <= w
  BY <1>1, Halves DEF Shape
<1>3. /\ stage' = "encode" /\ w' = k
      /\ UNCHANGED <<image_raw, h, smallest, jci, nlines, npixel, newbufpos, oldbufpos, Latest>>
  BY DEF EndColumns, Latest, loop
<1>4. newbufpos = h * k
  <2>1. nlines - 1 = h /\ npixel = 1
    BY <1>1, <1>2 DEF EndColumns, AtColumns
  <2>2. h * k \in Nat
    BY <1>2, Product
  <2> QED
    BY <2>1, <2>2, <1>1 DEF AtColumns
<1>5. Roomy'
  <2>1. PICK n \in Nat : DOMAIN image_raw = 0..n /\ w * h <= n
    BY <1>1 DEF Roomy
  <2>2. k * h <= w * h /\ k * h \in Nat /\ w * h \in Nat
    BY <1>2, Higher, Product
  <2>3. k * h <= n
    BY <2>1, <2>2
  <2> QED
    BY <2>1, <2>3, <1>3 DEF Roomy
<1>6. ASSUME NEW y \in 0..(h - 1), NEW x \in 0..(k - 1)
      PROVE  image_raw[y * k + x] = Mixed(y, x)
  <2>1. y * k + x < newbufpos
    BY <1>2, <1>4, Below
  <2> QED
    BY <2>1, <1>1 DEF AtColumns
<1>7. AtEncode'
  <2>1. \A y, x : Mixed(y, x)' = Mixed(y, x)
    BY <1>3 DEF Mixed
  <2>2. k = Latest.w \div 2 /\ h = Latest.h \div 2
    BY <1>1 DEF AtColumns
  <2> HIDE DEF k
  <2> QED
    BY <2>1, <2>2, <1>3, <1>6 DEF AtEncode
<1>8. Shape' /\ EachIsHalved'
  BY <1>1, <1>2, <1>3 DEF Shape, EachIsHalved
<1> QED
  BY <1>3, <1>5, <1>7, <1>8 DEF ScalingInv

\* A picture encoded after the first is half the last; the loops start from it.
LEMMA EncodeKeeps ==
  ASSUME ScalingInv, Encode
  PROVE  ScalingInv'
<1>1. stage = "encode" /\ Shape /\ Roomy /\ EachIsHalved /\ (Len(jci) > 0 => AtEncode)
  BY DEF ScalingInv, Encode
<1>2. PICK S : jci \in Seq(S)
  BY <1>1 DEF Shape
<1>3. jci' = Append(jci, Encoded) /\ UNCHANGED <<image_raw, w, h, smallest>>
  BY DEF Encode
<1>4. /\ jci' \in Seq(S \cup {Encoded}) /\ Len(jci) \in Nat /\ Len(jci') = Len(jci) + 1
      /\ Latest' = Encoded /\ \A i \in 1..Len(jci) : jci'[i] = jci[i]
  BY <1>2, <1>3 DEF Latest
<1>5. /\ Encoded.w = w /\ Encoded.h = h
      /\ \A y \in 0..(h - 1), x \in 0..(w - 1) : Encoded.data[y][x] = image_raw[y * w + x]
  BY DEF Encoded
<1>6. Len(jci) > 0 => Encoded = Halved(Latest)
  <2> SUFFICES ASSUME Len(jci) > 0 PROVE Encoded = Halved(Latest)
    OBVIOUS
  <2>1. w = Latest.w \div 2 /\ h = Latest.h \div 2
    BY <1>1 DEF AtEncode
  <2>2. \A y \in 0..(h - 1), x \in 0..(w - 1) : image_raw[y * w + x] = Mixed(y, x)
    BY <1>1 DEF AtEncode
  <2>3. \A y \in 0..(h - 1) :
          [x \in 0..(w - 1) |-> image_raw[y * w + x]] = [x \in 0..(w - 1) |-> Mixed(y, x)]
    BY <2>2
  <2>4. [y \in 0..(h - 1) |-> [x \in 0..(w - 1) |-> image_raw[y * w + x]]]
          = [y \in 0..(h - 1) |-> [x \in 0..(w - 1) |-> Mixed(y, x)]]
    BY <2>3
  <2> QED
    BY <2>1, <2>4 DEF Encoded, Halved, Mixed
<1>7. EachIsHalved'
  <2> SUFFICES ASSUME NEW i \in 1..(Len(jci') - 1) PROVE jci'[i + 1] = Halved(jci'[i])
    BY DEF EachIsHalved, Halved
  <2>1. CASE i < Len(jci)
    <3>1. i \in 1..(Len(jci) - 1) /\ jci'[i + 1] = jci[i + 1] /\ jci'[i] = jci[i]
      BY <2>1, <1>4
    <3> QED
      BY <3>1, <1>1 DEF EachIsHalved
  <2>2. CASE i = Len(jci)
    <3>1. jci'[i + 1] = Encoded /\ jci'[i] = Latest /\ Len(jci) > 0
      BY <2>2, <1>4 DEF Latest
    <3> QED
      BY <3>1, <1>6
  <2> QED
    BY <2>1, <2>2, <1>4
<1>8. Roomy'
  BY <1>1, <1>3 DEF Roomy
<1>9. CASE Len(jci) = smallest /\ stage' = "end" /\ UNCHANGED loop
  <2>1. Shape'
    BY <1>1, <1>3, <1>4, <1>9 DEF Shape, loop
  <2> QED
    BY <2>1, <1>7, <1>8, <1>9 DEF ScalingInv
<1>10. CASE Len(jci) # smallest /\ stage' = "lines" /\ Rewind(w)
  <2>1. nlines' = 1 /\ npixel' = 1 /\ newbufpos' = 0 /\ oldbufpos' = w
    BY <1>10 DEF Rewind
  <2>2. w \in Nat /\ h \in Nat /\ h \div 2 \in Nat
    BY <1>1, Halves DEF Shape
  <2>3. Shape'
    BY <1>1, <1>3, <1>4, <1>10, <2>1 DEF Shape
  <2>4. ASSUME NEW y \in 0..(h \div 2 - 1), NEW x \in 0..(w - 1)
        PROVE  ~(y * w + x < newbufpos')
    <3>1. y * w \in Nat
      BY <2>2, Product
    <3> QED
      BY <3>1, <2>1
  <2>5. /\ newbufpos' = (nlines' - 1) * w + (npixel' - 1)
        /\ oldbufpos' = (2 * nlines' - 1) * w + (npixel' - 1)
    BY <2>1, <2>2
  <2>6. /\ (Latest.w)' = w' /\ (Latest.h)' = h'
        /\ nlines' \in 1..(h' \div 2 + 1) /\ npixel' \in 1..(w' + 1)
        /\ nlines' > h' \div 2 => npixel' = 1
    BY <1>3, <1>4, <1>5, <2>1, <2>2
  <2>7. \A y \in 0..(h - 1), x \in 0..(w - 1) :
          image_raw'[y * w + x] = (Latest.data)'[y][x]
    BY <1>3, <1>4, <1>5
  <2>8. AtLines'
    BY <1>3, <2>4, <2>5, <2>6, <2>7, SMTT(30) DEF AtLines
  <2> QED
    BY <2>3, <2>8, <1>7, <1>8, <1>10 DEF ScalingInv
<1> QED
  BY <1>9, <1>10 DEF Encode

\* A flip leaves the size of the memory alone.
LEMMA FlipsKeep ==
  ASSUME ScalingInv, imageflipv \/ imagefliph
  PROVE  ScalingInv'
<1>1. /\ stage \in {"flipv", "fliph"} /\ stage' \in {"fliph", "encode"}
      /\ UNCHANGED <<w, h, smallest, jci, nlines, npixel, newbufpos, oldbufpos>>
  BY DEF imageflipv, imagefliph, loop
<1>2. DOMAIN image_raw' = DOMAIN image_raw
  BY DEF imageflipv, imagefliph, Replaced
<1>3. Shape /\ Roomy /\ EachIsHalved /\ Len(jci) = 0
  BY <1>1 DEF ScalingInv, Shape
<1>4. Shape' /\ Roomy' /\ EachIsHalved'
  BY <1>1, <1>2, <1>3 DEF Shape, Roomy, EachIsHalved
<1> QED
  BY <1>1, <1>3, <1>4 DEF ScalingInv

LEMMA ScalingInitially == ScalingInit => ScalingInv
<1> SUFFICES ASSUME ScalingInit PROVE ScalingInv
  OBVIOUS
<1>1. PICK f \in FrameSet : image_raw = f.mem /\ w = f.w /\ h = f.h
  BY DEF ScalingInit
<1>2. w \in Nat /\ h \in Nat /\ DOMAIN image_raw = 0..(w * h)
  BY <1>1, ScalingAssumption DEF ScalingAssumption
<1>3. Roomy
  BY <1>2, Product DEF Roomy
<1>4. jci \in Seq({}) /\ Len(jci) = 0
  BY DEF ScalingInit
<1>5. Shape
  BY <1>2, <1>4 DEF ScalingInit, Shape
<1>6. EachIsHalved
  BY <1>4 DEF EachIsHalved
<1> QED
  BY <1>3, <1>5, <1>6 DEF ScalingInit, ScalingInv

LEMMA ScalingStep == ScalingInv /\ [ScalingNext]_scalingVars => ScalingInv'
<1> SUFFICES ASSUME ScalingInv, [ScalingNext]_scalingVars PROVE ScalingInv'
  OBVIOUS
<1>1. CASE imageflipv \/ imagefliph
  BY <1>1, FlipsKeep
<1>2. CASE Encode
  BY <1>2, EncodeKeeps
<1>3. CASE CopyPixel
  BY <1>3, CopyPixelKeeps
<1>4. CASE NextLine
  BY <1>4, NextLineKeeps
<1>5. CASE EndLines
  BY <1>5, EndLinesKeeps
<1>6. CASE MeanPixel
  BY <1>6, MeanPixelKeeps
<1>7. CASE NextRow
  BY <1>7, NextRowKeeps
<1>8. CASE EndColumns
  BY <1>8, EndColumnsKeeps
<1>9. CASE UNCHANGED scalingVars
  BY <1>9 DEF scalingVars, loop, ScalingInv, Shape, Roomy, EachIsHalved, AtLines, AtColumns,
              AtEncode, Latest, Mixed
<1> QED
  BY <1>1, <1>2, <1>3, <1>4, <1>5, <1>6, <1>7, <1>8, <1>9 DEF ScalingNext

LEMMA ScalingInvariant == ScalingSpec => []ScalingInv
<1>1. ScalingInit => ScalingInv
  BY ScalingInitially
<1>2. ScalingInv /\ [ScalingNext]_scalingVars => ScalingInv'
  BY ScalingStep
<1> QED
  BY <1>1, <1>2, PTL DEF ScalingSpec

-----------------------------------------------------------------------------
(* The results.                                                             *)

\* For frames of every size the loops stay within the frame and never write ahead of
\* what they read (deinterlace, halfwidth).
THEOREM ScalingTyped == ScalingSpec => []ScalingTypeOK
<1>1. ScalingInv => ScalingTypeOK
  <2> SUFFICES ASSUME ScalingInv PROVE ScalingTypeOK
    OBVIOUS
  <2>1. stage = "lines" =>
          /\ newbufpos <= oldbufpos
          /\ nlines <= h \div 2 /\ npixel <= w => oldbufpos \in DOMAIN image_raw
    BY LinesInMemory DEF ScalingInv
  <2>2. stage = "columns" =>
          /\ newbufpos <= oldbufpos
          /\ nlines <= h /\ npixel <= w \div 2 => oldbufpos + 1 \in DOMAIN image_raw
    BY ColumnsInMemory DEF ScalingInv
  <2>3. Shape
    BY DEF ScalingInv
  <2> QED
    BY <2>1, <2>2, <2>3 DEF ScalingTypeOK, Shape
<1> QED
  BY <1>1, ScalingInvariant, PTL

\* For frames of every size, and however pixels are averaged, each picture that is
\* encoded is half the one before it (scaleimage).
THEOREM PicturesAreHalved == ScalingSpec => []EachIsHalved
<1>1. ScalingInv => EachIsHalved
  BY DEF ScalingInv
<1> QED
  BY <1>1, ScalingInvariant, PTL

-----------------------------------------------------------------------------
(* The camera: its invariant.                                               *)

\* A buffer is with the driver or on the way back to it, or all will be queued anew.
Stock ==
  /\ at \in {"events", "reinit"} => reinit \/ queued + filled > 0
  /\ at = "select" => queued + filled > 0
  /\ at = "frame" => filled > 0 \/ queued + filled < Buffers

\* After a stale picture the capture is in YUV.
YuvOnce == stale = 0 \/ (stale = 1 /\ useyuv)

\* The driver has granted a size before a frame is waited for.
Granted == fmt \in Sizes \/ (reinit /\ at \in {"events", "reinit", "exit"})

\* Only a session has a socket; until the server has answered nothing is known of it.
Session ==
  /\ cstate = "running" <=> link # "none"
  /\ cstate \in {"find", "pause", "connect"} => ~sendnow
  /\ link = "none" => number = 0 /\ told = Nothing
  /\ number = 0 => inbox = <<>>

\* Records on their way carry the number of this connection.
Mail ==
  \A i \in 1..Len(inbox) : inbox[i].type = "camerasettings" => inbox[i].rec.cam = number

\* Once it may send pictures, the camera has the number, and the server the size.
Agreed ==
  link # "none" /\ sendnow =>
    /\ number # 0 /\ jcs.cam = number
    /\ link = "up" => told.cam = number /\ told.size = fmt

\* A picture is sent at the end of a turn.
Pictured == pic # None => at = "events" /\ remaining > 0 /\ number # 0

CameraInv ==
  /\ CameraTypeOK /\ Stock /\ YuvOnce /\ Granted
  /\ Session /\ Mail /\ Agreed /\ Pictured /\ PictureAsTold

-----------------------------------------------------------------------------
(* The camera: its type.                                                    *)

\* Reading takes a message of the right kind and leaves the others in their order.
LEMMA Taken ==
  ASSUME CameraTypeOK, inbox # <<>>
  PROVE  /\ Head(inbox) \in SettingsMsg \cup {RegisterMsg}
         /\ Tail(inbox) \in Seq(SettingsMsg \cup {RegisterMsg})
         /\ Head(inbox) = inbox[1] /\ Len(Tail(inbox)) = Len(inbox) - 1
         /\ \A i \in 1..Len(Tail(inbox)) : Tail(inbox)[i] = inbox[i + 1]
  BY DEF CameraTypeOK

LEMMA SettingsTaken ==
  ASSUME CameraTypeOK, inbox # <<>>, Head(inbox).type = "camerasettings"
  PROVE  Head(inbox).rec \in Record
<1>1. Head(inbox) \in SettingsMsg
  BY Taken DEF RegisterMsg
<1> QED
  BY <1>1 DEF SettingsMsg, Record

\* An answer gives the connection its number and the camera its record.
LEMMA Answered ==
  ASSUME CameraTypeOK, Answer
  PROVE  /\ number' \in Numbers /\ inbox' \in Seq(SettingsMsg \cup {RegisterMsg})
         /\ \A i \in 1..Len(inbox') :
              inbox'[i].type = "camerasettings" => inbox'[i].rec.cam = number'
<1> DEFINE Rec(n) == [type |-> "camerasettings",
                      rec |-> [cam |-> n, size |-> wanted.size, on |-> wanted.on]]
<1>1. PICK n \in Numbers :
        number' = n /\ inbox' = (IF id THEN <<>> ELSE <<RegisterMsg>>) \o <<Rec(n)>>
  BY DEF Answer
<1>2. Rec(n) \in SettingsMsg /\ Rec(n).rec.cam = n
  BY DEF CameraTypeOK, SettingsMsg
<1> HIDE DEF Rec
<1> DEFINE M == {RegisterMsg, Rec(n)}
           front == IF id THEN <<>> ELSE <<RegisterMsg>>
           back == <<Rec(n)>>
<1>3. front \in Seq(M) /\ back \in Seq(M) /\ inbox' = front \o back
  BY <1>1
<1> HIDE DEF front, back
<1>4. inbox' \in Seq(M)
  BY <1>3, ConcatProperties
<1>5. \A i \in 1..Len(inbox') : inbox'[i] = RegisterMsg \/ inbox'[i] = Rec(n)
  BY <1>4, ElementOfSeq
<1>6. M \subseteq SettingsMsg \cup {RegisterMsg}
  BY <1>2
<1> HIDE DEF M
<1>7. inbox' \in Seq(SettingsMsg \cup {RegisterMsg})
  BY <1>4, <1>6
<1>8. RegisterMsg.type # "camerasettings"
  BY DEF RegisterMsg
<1> QED
  BY <1>1, <1>2, <1>5, <1>7, <1>8

\* An edit on its way carries the number of the connection.
LEMMA Edited ==
  ASSUME CameraTypeOK, Edit
  PROVE  /\ wanted' \in [size : Sizes, on : BOOLEAN]
         /\ \/ inbox' = inbox
            \/ number # 0 /\ \E m \in SettingsMsg : m.rec.cam = number /\ inbox' = Append(inbox, m)
         /\ inbox' \in Seq(SettingsMsg \cup {RegisterMsg})
<1>1. PICK s \in Sizes, o \in BOOLEAN :
        /\ wanted' = [size |-> s, on |-> o]
        /\ inbox' = IF link = "up" /\ number # 0
                      THEN Append(inbox, [type |-> "camerasettings",
                                          rec |-> [cam |-> number, size |-> s, on |-> o]])
                      ELSE inbox
  BY DEF Edit
<1>2. number # 0 => [type |-> "camerasettings",
                     rec |-> [cam |-> number, size |-> s, on |-> o]] \in SettingsMsg
  BY DEF CameraTypeOK, SettingsMsg
<1> QED
  BY <1>1, <1>2 DEF CameraTypeOK

LEMMA CameraTyping ==
  ASSUME CameraInv, CameraNext
  PROVE  CameraTypeOK'
<1> USE CameraAssumption DEF CameraTypeOK, session, capture, driver, peer, world
<1>0. CameraTypeOK /\ Stock
  BY DEF CameraInv
<1>1. CASE Initial
  <2>1. cstate' \in {"find", "connect"} /\ sendnow' \in BOOLEAN
    BY <1>1 DEF Initial
  <2>2. /\ remaining > 0 /\ remaining' = remaining - 1
        /\ UNCHANGED <<at, host, capture, driver, peer, world, ipaddr, id, jcs>>
    BY <1>1 DEF Initial, Event, Stay
  <2> QED
    BY <1>0, <2>1, <2>2
<1>2. CASE FindServer
  BY <1>0, <1>2 DEF FindServer, Event, Stay
<1>3. CASE FindFails
  BY <1>0, <1>3 DEF FindFails, Event, Stay, Trouble
<1>4. CASE Pause
  BY <1>0, <1>4 DEF Pause, Event, Stay
<1>5. CASE ConnectAndAuth
  BY <1>0, <1>5 DEF ConnectAndAuth, Event, Stay
<1>6. CASE ConnectFails
  BY <1>0, <1>6 DEF ConnectFails, Event, Stay, Trouble
<1>7. CASE AuthFails
  BY <1>0, <1>7 DEF AuthFails, Event, Stay, Exit, Trouble
<1>8. CASE ReadSettings
  <2>1. inbox # <<>> /\ Head(inbox).type = "camerasettings" /\ inbox' = Tail(inbox)
    BY <1>8 DEF ReadSettings, Take
  <2>2. jcs' \in Record /\ inbox' \in Seq(SettingsMsg \cup {RegisterMsg})
    BY <1>0, <1>8, <2>1, Taken, SettingsTaken DEF ReadSettings
  <2>3. told' \in [cam : Numbers \cup {0}, size : Sizes \cup {None}, on : BOOLEAN]
    BY <1>0, <1>8, <2>2 DEF ReadSettings, Tell, Record
  <2> QED
    BY <1>0, <1>8, <2>2, <2>3 DEF ReadSettings, Event, Stay, Take
<1>9. CASE ReadRegister
  <2>1. inbox' \in Seq(SettingsMsg \cup {RegisterMsg})
    BY <1>0, <1>9, Taken DEF ReadRegister, Take
  <2> QED
    BY <1>0, <1>9, <2>1 DEF ReadRegister, Event, Stay, Exit, Take
<1>10. CASE ReadNone
  BY <1>0, <1>10 DEF ReadNone, Event, Stay
<1>11. CASE HangUp
  BY <1>0, <1>11 DEF HangUp, Event, Stay, Closed, Nothing
<1>12. CASE TurnOver
  BY <1>0, <1>12 DEF TurnOver
<1>13. CASE Reinit
  <2>1. fmt' \in Sizes \cup {None} /\ prequested' \in Sizes
    BY <1>0, <1>13 DEF Reinit, Record
  <2>2. told' \in [cam : Numbers \cup {0}, size : Sizes \cup {None}, on : BOOLEAN]
    BY <1>0, <1>13, <2>1 DEF Reinit, Record
  <2>3. queued' \in Nat /\ filled' \in Nat /\ queued' + filled' <= Buffers
    BY <1>0, <1>13 DEF Reinit
  <2>4. /\ at' = "select" /\ reinit' \in BOOLEAN
        /\ UNCHANGED <<remaining, host, session, useyuv, rgb, link, inbox, number, world>>
    BY <1>13 DEF Reinit
  <2>5. /\ UNCHANGED <<remaining, host, ipaddr, cstate, id, sendnow, useyuv, jcs>>
        /\ UNCHANGED <<rgb, link, inbox, number, server, wanted, troubles, edits>>
    BY <2>4
  <2> QED
    BY <1>0, <2>1, <2>2, <2>3, <2>4, <2>5, ZenonT(60)
<1>14. CASE DeviceFails
  BY <1>0, <1>14 DEF DeviceFails, Exit
<1>15. CASE Select
  BY <1>0, <1>15 DEF Select
<1>16. CASE Dequeue
  BY <1>0, <1>16 DEF Dequeue
<1>17. CASE Frame
  <2>1. reinit' \in BOOLEAN /\ useyuv' \in BOOLEAN
    BY <1>0, <1>17 DEF Frame, FrameDone
  <2>2. prequested' = prequested /\ fmt' = fmt
    BY <1>17 DEF Frame, FrameDone
  <2>3. queued' \in Nat /\ queued' + filled' <= Buffers
    BY <1>0, <1>17 DEF Frame, FrameDone, Stock
  <2>4. at' = "events" /\ remaining' = Events /\ filled' = filled /\ rgb' = rgb
    BY <1>17 DEF Frame, FrameDone
  <2> QED
    BY <1>0, <1>17, <2>1, <2>2, <2>3, <2>4 DEF Frame, FrameDone
<1>18. CASE Fill
  BY <1>0, <1>18 DEF Fill
<1>19. CASE Answer
  <2>1. number' \in Numbers /\ inbox' \in Seq(SettingsMsg \cup {RegisterMsg})
    BY <1>0, <1>19, Answered
  <2>2. UNCHANGED <<at, remaining, host, session, capture, driver, link, told, world>>
    BY <1>19 DEF Answer
  <2> QED
    BY <1>0, <2>1, <2>2
<1>20. CASE Edit
  BY <1>0, <1>20, Edited DEF Edit
<1>21. CASE LinkBreaks
  <2>1. inbox' \in Seq(SettingsMsg \cup {RegisterMsg})
    <3>1. inbox' = inbox \/ inbox' = <<>>
      BY <1>21 DEF LinkBreaks
    <3>2. inbox \in Seq(SettingsMsg \cup {RegisterMsg})
      BY <1>0
    <3> QED
      BY <3>1, <3>2, EmptySeq
  <2> QED
    BY <1>0, <1>21, <2>1 DEF LinkBreaks, Trouble
<1>22. CASE ServerMoves
  BY <1>0, <1>22 DEF ServerMoves
<1> QED
  BY <1>1, <1>2, <1>3, <1>4, <1>5, <1>6, <1>7, <1>8, <1>9, <1>10, <1>11, <1>12, <1>13,
     <1>14, <1>15, <1>16, <1>17, <1>18, <1>19, <1>20, <1>21, <1>22
     DEF CameraNext, Main, JcEvents

-----------------------------------------------------------------------------
(* The camera: its buffers and what it makes of a frame.                    *)

\* An event of the session leaves the capture alone and ends the showing of a picture.
LEMMA EventLeaves ==
  ASSUME JcEvents
  PROVE  /\ at = "events" /\ at' \in {"events", "exit"} /\ remaining > 0
         /\ pic' = None /\ UNCHANGED <<capture, driver, stale>>
  BY DEF JcEvents, Initial, FindServer, FindFails, Pause, ConnectAndAuth, ConnectFails, AuthFails,
         ReadSettings, ReadRegister, ReadNone, HangUp, Event, Stay, Exit

Around == Answer \/ Edit \/ LinkBreaks \/ ServerMoves

LEMMA AroundLeaves ==
  ASSUME Around
  PROVE  UNCHANGED <<at, remaining, session, capture, driver, told, pic, stale>>
  BY DEF Around, Answer, Edit, LinkBreaks, ServerMoves, driver

LEMMA StockKeeps ==
  ASSUME CameraInv, CameraNext
  PROVE  Stock'
<1> USE CameraAssumption DEF Stock
<1>0. /\ Stock /\ queued \in Nat /\ filled \in Nat
  BY DEF CameraInv, CameraTypeOK
<1>1. CASE JcEvents
  BY <1>0, <1>1, EventLeaves DEF capture, driver
<1>2. CASE TurnOver
  BY <1>0, <1>2 DEF TurnOver, capture, driver
<1>3. CASE Reinit
  BY <1>0, <1>3 DEF Reinit, Due
<1>4. CASE DeviceFails
  BY <1>0, <1>4 DEF DeviceFails, Exit, driver
<1>5. CASE Select
  BY <1>0, <1>5 DEF Select, driver
<1>6. CASE Dequeue
  <2>1. at' = "frame" /\ filled > 0 /\ filled' = filled - 1 /\ queued' = queued
    BY <1>6 DEF Dequeue
  <2>2. queued + filled <= Buffers
    BY DEF CameraInv, CameraTypeOK
  <2> QED
    BY <1>0, <2>1, <2>2
<1>7. CASE Frame
  <2>1. at' = "events" /\ filled' = filled /\ queued' = queued + 1
    BY <1>7 DEF Frame, FrameDone
  <2> QED
    BY <1>0, <2>1
<1>8. CASE Fill
  BY <1>0, <1>8 DEF Fill, capture
<1>9. CASE Around
  BY <1>0, <1>9, AroundLeaves DEF capture, driver
<1> QED
  BY <1>1, <1>2, <1>3, <1>4, <1>5, <1>6, <1>7, <1>8, <1>9 DEF CameraNext, Main, Around

\* A frame that cannot be used turns the capture to YUV, and frames in YUV can be used.
LEMMA YuvKeeps ==
  ASSUME CameraInv, CameraNext
  PROVE  YuvOnce'
<1>0. YuvOnce /\ useyuv \in BOOLEAN /\ rgb \in BOOLEAN
  BY DEF CameraInv, CameraTypeOK
<1>1. CASE JcEvents
  BY <1>0, <1>1, EventLeaves DEF YuvOnce, capture
<1>2. CASE TurnOver
  BY <1>0, <1>2 DEF TurnOver, YuvOnce, capture
<1>3. CASE Reinit
  BY <1>0, <1>3 DEF Reinit, YuvOnce
<1>4. CASE DeviceFails
  BY <1>0, <1>4 DEF DeviceFails, YuvOnce, capture
<1>5. CASE Select
  BY <1>0, <1>5 DEF Select, YuvOnce, capture
<1>6. CASE Dequeue
  BY <1>0, <1>6 DEF Dequeue, YuvOnce, capture
<1>7. CASE Frame
  <2>1. CASE Usable \/ link = "none"
    <3>1. stale' = stale /\ (useyuv => useyuv')
      BY <1>7, <2>1 DEF Frame, FrameDone, capture
    <3> QED
      BY <1>0, <3>1 DEF YuvOnce
  <2>2. CASE ~Usable /\ link # "none"
    <3>1. stale = 0 /\ ~rgb
      BY <1>0, <2>2 DEF Usable, YuvOnce
    <3>2. useyuv' /\ (stale' = stale \/ stale' = stale + 1)
      BY <1>7, <2>2, <3>1 DEF Frame, FrameDone
    <3> QED
      BY <3>1, <3>2 DEF YuvOnce
  <2> QED
    BY <2>1, <2>2
<1>8. CASE Fill
  BY <1>0, <1>8 DEF Fill, YuvOnce, capture
<1>9. CASE Around
  BY <1>0, <1>9, AroundLeaves DEF YuvOnce, capture
<1> QED
  BY <1>1, <1>2, <1>3, <1>4, <1>5, <1>6, <1>7, <1>8, <1>9 DEF CameraNext, Main, Around

LEMMA GrantedKeeps ==
  ASSUME CameraInv, CameraNext
  PROVE  Granted'
<1>0. Granted /\ jcs.size \in Sizes /\ reinit \in BOOLEAN
  BY DEF CameraInv, CameraTypeOK, Record
<1>1. CASE JcEvents
  BY <1>0, <1>1, EventLeaves DEF Granted, capture
<1>2. CASE TurnOver
  BY <1>0, <1>2 DEF TurnOver, Granted, capture
<1>3. CASE Reinit
  <2>1. fmt' \in Grants[jcs.size] \/ (fmt' = fmt /\ ~reinit)
    BY <1>3 DEF Reinit, Due
  <2>2. Grants[jcs.size] \subseteq Sizes
    BY <1>0, CameraAssumption
  <2> QED
    BY <1>0, <2>1, <2>2 DEF Granted
<1>4. CASE DeviceFails
  BY <1>0, <1>4 DEF DeviceFails, Exit, Granted, capture
<1>5. CASE Select
  BY <1>0, <1>5 DEF Select, Granted, capture
<1>6. CASE Dequeue
  BY <1>0, <1>6 DEF Dequeue, Granted, capture
<1>7. CASE Frame
  <2>1. at = "frame" /\ fmt' = fmt
    BY <1>7 DEF Frame, FrameDone, capture
  <2> QED
    BY <1>0, <2>1 DEF Granted
<1>8. CASE Fill
  BY <1>0, <1>8 DEF Fill, Granted, capture
<1>9. CASE Around
  BY <1>0, <1>9, AroundLeaves DEF Granted, capture
<1> QED
  BY <1>1, <1>2, <1>3, <1>4, <1>5, <1>6, <1>7, <1>8, <1>9 DEF CameraNext, Main, Around

-----------------------------------------------------------------------------
(* The camera: the session and what the two ends know of each other.        *)

\* The capture steps and the driver leave the connection alone, but for what the server
\* is told.
LEMMA CaptureLeaves ==
  ASSUME TurnOver \/ Reinit \/ DeviceFails \/ Select \/ Dequeue \/ Frame \/ Fill
  PROVE  UNCHANGED <<session, link, inbox, number>>
  BY DEF TurnOver, Reinit, DeviceFails, Select, Dequeue, Frame, FrameDone, Fill, peer

Reports == TurnOver \/ DeviceFails \/ Select \/ Dequeue \/ Frame \/ Fill

LEMMA OnlyReinitTells ==
  ASSUME Reports
  PROVE  UNCHANGED told /\ (fmt' = fmt)
  BY DEF Reports, TurnOver, DeviceFails, Select, Dequeue, Frame, FrameDone, Fill, peer, capture

LEMMA SessionKeeps ==
  ASSUME CameraInv, CameraNext
  PROVE  Session'
<1> USE DEF Session
<1>0. Session /\ CameraTypeOK
  BY DEF CameraInv
<1>1. CASE Initial
  BY <1>0, <1>1 DEF Initial, Event, peer
<1>2. CASE FindServer
  BY <1>0, <1>2 DEF FindServer, Event, peer
<1>3. CASE FindFails
  BY <1>0, <1>3 DEF FindFails, Event, peer
<1>4. CASE Pause
  BY <1>0, <1>4 DEF Pause, Event, peer
<1>5. CASE ConnectAndAuth
  BY <1>0, <1>5 DEF ConnectAndAuth, Event
<1>6. CASE ConnectFails
  BY <1>0, <1>6 DEF ConnectFails, Event, session, peer
<1>7. CASE AuthFails
  BY <1>0, <1>7 DEF AuthFails, Event, peer
<1>8. CASE ReadSettings
  BY <1>0, <1>8 DEF ReadSettings, Event, Take
<1>9. CASE ReadRegister
  BY <1>0, <1>9 DEF ReadRegister, Event, Take
<1>10. CASE ReadNone
  BY <1>0, <1>10 DEF ReadNone, Event, session, peer
<1>11. CASE HangUp
  BY <1>0, <1>11 DEF HangUp, Event, Closed
<1>12. CASE Reports
  BY <1>0, <1>12, CaptureLeaves, OnlyReinitTells DEF Reports, session
<1>13. CASE Reinit
  <2>1. link = "none" => told' = told
    BY <1>13 DEF Reinit
  <2> QED
    BY <1>0, <1>13, <2>1, CaptureLeaves DEF session
<1>14. CASE Answer
  <2>1. number' # 0 /\ link = "up" /\ link' = link
    BY <1>0, <1>14, Answered, CameraAssumption DEF Answer
  <2> QED
    BY <1>0, <1>14, <2>1, AroundLeaves DEF Around, session
<1>15. CASE Edit
  <2>1. link' = link /\ number' = number /\ (inbox' = inbox \/ number # 0)
    BY <1>0, <1>15, Edited DEF Edit
  <2> QED
    BY <1>0, <1>15, <2>1, AroundLeaves DEF Around, session
<1>16. CASE LinkBreaks
  BY <1>0, <1>16 DEF LinkBreaks, session
<1>17. CASE ServerMoves
  BY <1>0, <1>17 DEF ServerMoves, session
<1> QED
  BY <1>1, <1>2, <1>3, <1>4, <1>5, <1>6, <1>7, <1>8, <1>9, <1>10, <1>11, <1>12, <1>13,
     <1>14, <1>15, <1>16, <1>17 DEF CameraNext, Main, JcEvents, Reports

\* What an event does to the mail: nothing, or it takes the first message, or all is
\* dropped with the connection.
LEMMA EventMail ==
  ASSUME CameraInv, JcEvents
  PROVE  \/ inbox' = inbox /\ number' = number
         \/ inbox # <<>> /\ inbox' = Tail(inbox) /\ number' = number
         \/ inbox' = <<>>
  BY DEF JcEvents, Initial, FindServer, FindFails, Pause, ConnectAndAuth, ConnectFails, AuthFails,
         ReadSettings, ReadRegister, ReadNone, HangUp, Take, Closed, peer

LEMMA MailKeeps ==
  ASSUME CameraInv, CameraNext
  PROVE  Mail'
<1>0. Mail /\ CameraTypeOK /\ inbox \in Seq(SettingsMsg \cup {RegisterMsg})
  BY DEF CameraInv, CameraTypeOK
<1>1. CASE JcEvents
  <2>1. CASE inbox' = inbox /\ number' = number
    BY <1>0, <2>1 DEF Mail
  <2>2. CASE inbox # <<>> /\ inbox' = Tail(inbox) /\ number' = number
    <3>1. /\ Len(inbox') = Len(inbox) - 1 /\ Len(inbox) \in Nat
          /\ \A i \in 1..Len(inbox') : inbox'[i] = inbox[i + 1]
      BY <1>0, <2>2, Taken
    <3> QED
      BY <1>0, <2>2, <3>1 DEF Mail
  <2>3. CASE inbox' = <<>>
    BY <2>3 DEF Mail
  <2> QED
    BY <1>1, <2>1, <2>2, <2>3, EventMail
<1>2. CASE Reports \/ Reinit
  BY <1>0, <1>2, CaptureLeaves DEF Mail, Reports
<1>3. CASE Answer
  BY <1>0, <1>3, Answered DEF Mail
<1>4. CASE Edit
  <2>1. number' = number
    BY <1>4 DEF Edit
  <2>2. CASE inbox' = inbox
    BY <1>0, <2>1, <2>2 DEF Mail
  <2>3. ASSUME NEW m \in SettingsMsg, m.rec.cam = number, inbox' = Append(inbox, m)
        PROVE  Mail'
    <3>1. /\ Len(inbox') = Len(inbox) + 1 /\ Len(inbox) \in Nat /\ inbox'[Len(inbox) + 1] = m
          /\ \A i \in 1..Len(inbox) : inbox'[i] = inbox[i]
      BY <1>0, <2>3
    <3> QED
      BY <1>0, <2>1, <2>3, <3>1 DEF Mail
  <2> QED
    BY <1>0, <1>4, <2>2, <2>3, Edited
<1>5. CASE LinkBreaks
  <2>1. (inbox' = inbox \/ inbox' = <<>>) /\ number' = number
    BY <1>5 DEF LinkBreaks
  <2> QED
    BY <1>0, <2>1 DEF Mail
<1>6. CASE ServerMoves
  BY <1>0, <1>6 DEF ServerMoves, Mail
<1> QED
  BY <1>1, <1>2, <1>3, <1>4, <1>5, <1>6 DEF CameraNext, Main, Reports

LEMMA AgreedKeeps ==
  ASSUME CameraInv, CameraNext
  PROVE  Agreed'
<1> USE DEF Agreed
<1>0. Agreed /\ Session /\ Mail /\ CameraTypeOK
  BY DEF CameraInv
<1>1. CASE Initial \/ FindServer \/ FindFails \/ Pause \/ ConnectFails \/ AuthFails
  <2>1. cstate # "running" /\ link' = link
    BY <1>1 DEF Initial, FindServer, FindFails, Pause, ConnectFails, AuthFails, Event, peer
  <2> QED
    BY <1>0, <2>1 DEF Session
<1>2. CASE ConnectAndAuth
  <2>1. cstate = "connect" /\ sendnow' = sendnow
    BY <1>2 DEF ConnectAndAuth, Event
  <2> QED
    BY <1>0, <2>1 DEF Session
<1>3. CASE ReadSettings
  <2>1. inbox # <<>> /\ Head(inbox).type = "camerasettings" /\ jcs' = Head(inbox).rec
    BY <1>3 DEF ReadSettings
  <2>2. Head(inbox) = inbox[1] /\ 1 \in 1..Len(inbox)
    BY <1>0, <2>1, Taken DEF CameraTypeOK
  <2>3. jcs'.cam = number /\ jcs' \in Record /\ number # 0
    BY <1>0, <2>1, <2>2, SettingsTaken DEF Mail, Session
  <2>4. link' = link /\ number' = number /\ fmt' = fmt
    BY <1>3 DEF ReadSettings, Take, Event, capture
  <2>5. CASE sendnow
    <3>1. told' = told
      BY <1>3, <2>5 DEF ReadSettings
    <3> QED
      BY <1>0, <2>3, <2>4, <2>5, <3>1
  <2>6. CASE ~sendnow
    <3>1. link = "up" => told' = [jcs' EXCEPT !.size = fmt]
      BY <1>3, <2>6 DEF ReadSettings, Tell
    <3>2. link = "up" => told'.cam = number /\ told'.size = fmt
      BY <2>3, <3>1 DEF Record
    <3> QED
      BY <2>3, <2>4, <3>2
  <2> QED
    BY <2>5, <2>6
<1>4. CASE ReadRegister
  BY <1>0, <1>4 DEF ReadRegister, Event, Take, capture
<1>5. CASE ReadNone
  BY <1>0, <1>5 DEF ReadNone, Event, session, peer, capture
<1>6. CASE HangUp
  BY <1>6 DEF HangUp, Closed
<1>7. CASE Reports
  BY <1>0, <1>7, CaptureLeaves, OnlyReinitTells DEF Reports, session
<1>8. CASE Reinit
  <2>1. CASE Due /\ link = "up"
    <3>1. told' = [jcs EXCEPT !.size = fmt'] /\ jcs \in Record
      BY <1>0, <1>8, <2>1 DEF Reinit, CameraTypeOK
    <3>2. told'.cam = jcs.cam /\ told'.size = fmt'
      BY <3>1 DEF Record
    <3> QED
      BY <1>0, <1>8, <3>2, CaptureLeaves DEF session
  <2>2. CASE ~Due \/ link # "up"
    <3>1. told' = told /\ (link = "up" => fmt' = fmt)
      BY <1>8, <2>2 DEF Reinit
    <3> QED
      BY <1>0, <1>8, <3>1, CaptureLeaves DEF session
  <2> QED
    BY <2>1, <2>2
<1>9. CASE Answer
  <2>1. number = 0 /\ link' = link /\ sendnow' = sendnow
    BY <1>9 DEF Answer, session
  <2> QED
    BY <1>0, <2>1
<1>10. CASE Edit
  <2>1. link' = link /\ number' = number
    BY <1>10 DEF Edit
  <2> QED
    BY <1>0, <1>10, <2>1, AroundLeaves DEF Around, session, capture
<1>11. CASE LinkBreaks
  BY <1>0, <1>11 DEF LinkBreaks, session
<1>12. CASE ServerMoves
  <2>1. number' = number /\ jcs' = jcs /\ sendnow' = sendnow
    BY <1>12 DEF ServerMoves, session
  <2>2. link' # "up" /\ (link' # "none" => link # "none")
    BY <1>12 DEF ServerMoves
  <2> QED
    BY <1>0, <2>1, <2>2
<1> QED
  BY <1>1, <1>2, <1>3, <1>4, <1>5, <1>6, <1>7, <1>8, <1>9, <1>10, <1>11, <1>12
     DEF CameraNext, Main, JcEvents, Reports

\* While a picture is shown nothing changes but what is on its way and what is filled.
LEMMA PicturesKeep ==
  ASSUME CameraInv, CameraNext
  PROVE  Pictured' /\ PictureAsTold'
<1> USE DEF Pictured, PictureAsTold
<1>0. Pictured /\ PictureAsTold /\ Agreed /\ Session /\ Events > 0
  BY CameraAssumption DEF CameraInv
<1>1. CASE JcEvents
  BY <1>1, EventLeaves
<1>2. CASE TurnOver
  <2>1. pic = None /\ pic' = None
    BY <1>0, <1>2 DEF TurnOver
  <2> QED
    BY <2>1
<1>3. CASE Reinit \/ DeviceFails \/ Select \/ Dequeue
  <2>1. pic' = pic /\ at # "events"
    BY <1>3 DEF Reinit, DeviceFails, Select, Dequeue
  <2> QED
    BY <1>0, <2>1
<1>4. CASE Frame
  <2>1. CASE link = "up" /\ sendnow
    <3>1. pic' = None \/ pic' = [cam |-> jcs.cam, size |-> fmt]
      BY <1>4, <2>1 DEF Frame, FrameDone
    <3>2. number # 0 /\ jcs.cam = number /\ told.cam = number /\ told.size = fmt
      BY <1>0, <2>1 DEF Agreed
    <3>3. at' = "events" /\ remaining' > 0 /\ number' = number /\ told' = told
      BY <1>0, <1>4, CaptureLeaves, OnlyReinitTells DEF Reports, Frame, FrameDone
    <3> QED
      BY <3>1, <3>2, <3>3
  <2>2. CASE ~(link = "up" /\ sendnow)
    <3>1. pic' = None \/ (pic' = pic /\ at # "events")
      BY <1>4, <2>2 DEF Frame, FrameDone, Wanted
    <3> QED
      BY <1>0, <3>1
  <2> QED
    BY <2>1, <2>2
<1>5. CASE Fill
  <2>1. UNCHANGED <<at, remaining, number, told, pic>>
    BY <1>5 DEF Fill, peer
  <2> QED
    BY <1>0, <2>1
<1>6. CASE Answer
  <2>1. number = 0 /\ pic' = pic
    BY <1>6 DEF Answer
  <2> QED
    BY <1>0, <2>1
<1>7. CASE Edit \/ LinkBreaks \/ ServerMoves
  <2>1. UNCHANGED <<at, remaining, told, pic>>
    BY <1>7, AroundLeaves DEF Around
  <2>2. number' = number
    BY <1>7 DEF Edit, LinkBreaks, ServerMoves
  <2> QED
    BY <1>0, <2>1, <2>2
<1> QED
  BY <1>1, <1>2, <1>3, <1>4, <1>5, <1>6, <1>7 DEF CameraNext, Main

LEMMA CameraInitially == CameraInit => CameraInv
<1> SUFFICES ASSUME CameraInit PROVE CameraInv
  OBVIOUS
<1> USE CameraAssumption DEF CameraInit
<1>1. CameraTypeOK
  <2>1. /\ jcs \in Record /\ wanted \in [size : Sizes, on : BOOLEAN]
        /\ told \in [cam : Numbers \cup {0}, size : Sizes \cup {None}, on : BOOLEAN]
    BY DEF Record, Nothing
  <2>2. inbox \in Seq(SettingsMsg \cup {RegisterMsg})
    BY EmptySeq
  <2>3. sendnow \in BOOLEAN /\ reinit \in BOOLEAN /\ useyuv \in BOOLEAN
    OBVIOUS
  <2> QED
    BY <2>1, <2>2, <2>3 DEF CameraTypeOK
<1>2. Stock /\ YuvOnce /\ Granted
  BY DEF Stock, YuvOnce, Granted
<1>3. Session /\ Mail /\ Agreed /\ Pictured /\ PictureAsTold
  BY DEF Session, Mail, Agreed, Pictured, PictureAsTold
<1> QED
  BY <1>1, <1>2, <1>3 DEF CameraInv

LEMMA CameraStutters ==
  ASSUME CameraInv, UNCHANGED cameraVars
  PROVE  CameraInv'
<1>1. /\ UNCHANGED <<at, remaining, host, cstate, ipaddr, id, sendnow, jcs, reinit, useyuv>>
      /\ UNCHANGED <<prequested, fmt, rgb, queued, filled, link, inbox, number, told>>
      /\ UNCHANGED <<server, wanted, troubles, edits, pic, stale>>
  BY DEF cameraVars, session, capture, driver, peer, world
<1>2. CameraTypeOK' /\ Stock' /\ YuvOnce' /\ Granted'
  BY <1>1 DEF CameraInv, CameraTypeOK, Stock, YuvOnce, Granted
<1>3. Session' /\ Mail' /\ Agreed' /\ Pictured' /\ PictureAsTold'
  BY <1>1 DEF CameraInv, Session, Mail, Agreed, Pictured, PictureAsTold
<1> QED
  BY <1>2, <1>3 DEF CameraInv

LEMMA CameraInvariant == CameraSpec => []CameraInv
<1>1. CameraInit => CameraInv
  BY CameraInitially
<1>2. CameraInv /\ [CameraNext]_cameraVars => CameraInv'
  <2>1. ASSUME CameraInv, CameraNext PROVE CameraInv'
    BY <2>1, CameraTyping, StockKeeps, YuvKeeps, GrantedKeeps, SessionKeeps, MailKeeps,
       AgreedKeeps, PicturesKeep DEF CameraInv
  <2> QED
    BY <2>1, CameraStutters
<1> QED
  BY <1>1, <1>2, PTL DEF CameraSpec

-----------------------------------------------------------------------------
(* The results.                                                             *)

\* The globals of the program and the world around it keep their types.
THEOREM CameraTyped == CameraSpec => []CameraTypeOK
<1>1. CameraInv => CameraTypeOK
  BY DEF CameraInv
<1> QED
  BY <1>1, CameraInvariant, PTL

\* Whatever breaks, is edited and set up again, a picture has the number of this
\* connection and the size last told on it (send_camerasettings, v4l_process_image).
THEOREM PicturesAsTold == CameraSpec => []PictureAsTold
<1>1. CameraInv => PictureAsTold
  BY DEF CameraInv
<1> QED
  BY <1>1, CameraInvariant, PTL

\* One picture at most is made of an earlier frame (v4l_process_image).
THEOREM OneIsStale == CameraSpec => []OneStalePicture
<1>1. CameraInv => OneStalePicture
  BY DEF CameraInv, YuvOnce, OneStalePicture
<1> QED
  BY <1>1, CameraInvariant, PTL

\* The driver always has a buffer to fill when the camera waits, however many it is
\* granted and frames are skipped (read_frame).
THEOREM BuffersLast == CameraSpec => []NeverStarved
<1>1. CameraInv => NeverStarved
  BY DEF CameraInv, Stock, NeverStarved
<1> QED
  BY <1>1, CameraInvariant, PTL

=============================================================================
