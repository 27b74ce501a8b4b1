------------------------------ MODULE Scaling ------------------------------
(***************************************************************************)
(* What a camera makes of a frame (v4l_process_image): the frame is flipped  *)
(* if the settings say so, encoded, halved in place, encoded again, and so on*)
(* down to the smallest picture asked for.  Lines and pixels are moved within*)
(* image_raw one after the other, so a loop may run over what it has still to*)
(* read.  The captions drawn before a picture is encoded are left out.       *)
(***************************************************************************)
EXTENDS Integers, Sequences

CONSTANTS
  Average(_, _),  \* the mean of two pixels, byte by byte
  FrameSet,       \* the frames: width, height and the memory from image_raw on
  MaxImages       \* JC_MAX_IMAGES

\* The memory of a frame is a pixel longer than the frame: imagefliph reads it.
ASSUME ScalingAssumption ==
  /\ \A f \in FrameSet :
       f.w \in Nat \ {0} /\ f.h \in Nat \ {0} /\ DOMAIN f.mem = 0..(f.w * f.h)
  /\ MaxImages \in Nat \ {0, 1}

VARIABLES
  stage,      \* "flipv", "fliph", "encode", "lines", "columns", "end"
  image_raw,
  w, h,       \* of the picture in it
  smallest,   \* the smallest picture asked for
  jci,        \* the pictures encoded so far
  nlines, npixel, newbufpos, oldbufpos   \* of deinterlace and halfwidth, in pixels

loop == <<nlines, npixel, newbufpos, oldbufpos>>
scalingVars == <<stage, image_raw, w, h, smallest, jci, loop>>

Rewind(old) == nlines' = 1 /\ npixel' = 1 /\ newbufpos' = 0 /\ oldbufpos' = old

ScalingInit ==
  /\ \E f \in FrameSet : image_raw = f.mem /\ w = f.w /\ h = f.h
  /\ smallest \in 1..(MaxImages - 1)
  /\ stage = "flipv"
  /\ jci = <<>>
  /\ nlines = 1 /\ npixel = 1 /\ newbufpos = 0 /\ oldbufpos = 0

-----------------------------------------------------------------------------
(* Flipping, by way of a buffer.                                             *)

\* The picture as it comes back from the buffer, each pixel from the place given; what
\* lies behind it stays.
Replaced(from) ==
  [i \in DOMAIN image_raw |-> IF i < w * h THEN image_raw[from[i]] ELSE image_raw[i]]

Upside == [i \in 0..(w * h - 1) |-> (h - 1 - i \div w) * w + (i % w)]

\* One pixel off: column 0 comes from the line below.
Aside == [i \in 0..(w * h - 1) |-> (i \div w) * w + w - (i % w)]

imageflipv ==
  /\ stage = "flipv" /\ stage' = "fliph"
  /\ image_raw' \in {image_raw, Replaced(Upside)}
  /\ UNCHANGED <<w, h, smallest, jci, loop>>

imagefliph ==
  /\ stage = "fliph" /\ stage' = "encode"
  /\ image_raw' \in {image_raw, Replaced(Aside)}
  /\ UNCHANGED <<w, h, smallest, jci, loop>>

-----------------------------------------------------------------------------
(* Encoding and halving.                                                     *)

\* encode_jpeg_tomem takes the rows one by one.
Encoded == [w |-> w, h |-> h, data |->
  [y \in 0..(h - 1) |-> [x \in 0..(w - 1) |-> image_raw[y * w + x]]]]

Encode ==
  /\ stage = "encode"
  /\ jci' = Append(jci, Encoded)
  /\ IF Len(jci) = smallest THEN stage' = "end" /\ UNCHANGED loop
                            ELSE stage' = "lines" /\ Rewind(w)
  /\ UNCHANGED <<image_raw, w, h, smallest>>

\* deinterlace: every other line is kept, the second of each two.
CopyPixel ==
  /\ stage = "lines" /\ nlines <= h \div 2 /\ npixel <= w
  /\ image_raw' = [image_raw EXCEPT ![newbufpos] = image_raw[oldbufpos]]
  /\ newbufpos' = newbufpos + 1 /\ oldbufpos' = oldbufpos + 1
  /\ npixel' = npixel + 1
  /\ UNCHANGED <<stage, w, h, smallest, jci, nlines>>

\* Mutant: the line just copied is passed over once more.
NextLineFar ==
  /\ stage = "lines" /\ nlines <= h \div 2 /\ npixel > w
  /\ oldbufpos' = oldbufpos + 2 * w
  /\ nlines' = nlines + 1 /\ npixel' = 1
  /\ UNCHANGED <<stage, image_raw, w, h, smallest, jci, newbufpos>>

NextLine ==
  /\ stage = "lines" /\ nlines <= h \div 2 /\ npixel > w
  /\ oldbufpos' = oldbufpos + w
  /\ nlines' = nlines + 1 /\ npixel' = 1
  /\ UNCHANGED <<stage, image_raw, w, h, smallest, jci, newbufpos>>

EndLines ==
  /\ stage = "lines" /\ nlines > h \div 2
  /\ stage' = "columns"
  /\ h' = h \div 2
  /\ Rewind(0)
  /\ UNCHANGED <<image_raw, w, smallest, jci>>

\* halfwidth: each two pixels of a line become one.
MeanPixel ==
  /\ stage = "columns" /\ nlines <= h /\ npixel <= w \div 2
  /\ image_raw' =
       [image_raw EXCEPT ![newbufpos] = Average(image_raw[oldbufpos], image_raw[oldbufpos + 1])]
  /\ newbufpos' = newbufpos + 1 /\ oldbufpos' = oldbufpos + 2
  /\ npixel' = npixel + 1
  /\ UNCHANGED <<stage, w, h, smallest, jci, nlines>>

\* Mutant: the next line starts where the last pair ended.
NextRowOn ==
  /\ stage = "columns" /\ nlines <= h /\ npixel > w \div 2
  /\ nlines' = nlines + 1 /\ npixel' = 1
  /\ UNCHANGED <<stage, image_raw, w, h, smallest, jci, newbufpos, oldbufpos>>

\* An odd width leaves a pixel at the end of the line.
NextRow ==
  /\ stage = "columns" /\ nlines <= h /\ npixel > w \div 2
  /\ oldbufpos' = nlines * w
  /\ nlines' = nlines + 1 /\ npixel' = 1
  /\ UNCHANGED <<stage, image_raw, w, h, smallest, jci, newbufpos>>

EndColumns ==
  /\ stage = "columns" /\ nlines > h
  /\ stage' = "encode"
  /\ w' = w \div 2
  /\ UNCHANGED <<image_raw, h, smallest, jci, loop>>

ScalingNext ==
  \/ imageflipv \/ imagefliph \/ Encode
  \/ CopyPixel \/ NextLine \/ EndLines
  \/ MeanPixel \/ NextRow \/ EndColumns

ScalingSpec == ScalingInit /\ [][ScalingNext]_scalingVars

-----------------------------------------------------------------------------
\* Every variable has its type, and what the loops have still to read and to write
\* lies within the memory of the frame, what they write behind what they read
\* (deinterlace, halfwidth).
ScalingTypeOK ==
  /\ stage \in {"flipv", "fliph", "encode", "lines", "columns", "end"}
  /\ w \in Nat /\ h \in Nat /\ smallest \in 1..(MaxImages - 1)
  /\ Len(jci) <= smallest + 1
  /\ nlines \in Nat /\ npixel \in Nat /\ newbufpos \in Nat /\ oldbufpos \in Nat
  /\ stage \in {"lines", "columns"} => newbufpos <= oldbufpos
  /\ stage = "lines" /\ nlines <= h \div 2 /\ npixel <= w => oldbufpos \in DOMAIN image_raw
  /\ stage = "columns" /\ nlines <= h /\ npixel <= w \div 2
       => oldbufpos + 1 \in DOMAIN image_raw

\* Half a picture: the mean of each two pixels of every second line.
Halved(p) ==
  [w |-> p.w \div 2, h |-> p.h \div 2,
   data |-> [y \in 0..(p.h \div 2 - 1) |-> [x \in 0..(p.w \div 2 - 1) |->
               Average(p.data[2 * y + 1][2 * x], p.data[2 * y + 1][2 * x + 1])]]]

\* Each picture a camera sends is half the one before it, although both loops work
\* within the one buffer, for odd widths and heights too (scaleimage).
EachIsHalved == \A i \in 1..(Len(jci) - 1) : jci[i + 1] = Halved(jci[i])

=============================================================================
