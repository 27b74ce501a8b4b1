-------------------------- MODULE ImageStoreProofs --------------------------
(***************************************************************************)
(* Proofs about ImageStore, for any children, any limit and any number of     *)
(* frames: its types, that a copy no write overlapped shows the last picture, *)
(* and that what a CRC let through to the archive is whole.                  *)
(***************************************************************************)
EXTENDS ImageStore, TLAPS

USE ImageAssumption

-----------------------------------------------------------------------------
(* Pictures.                                                                *)

\* What a viewer makes of a picture, scrambled or not.
Clear(m) == Picture(ForceUncrypted(m))

\* The numbers of frames are what they seem.
LEMMA Numbers == /\ Junk \in Nat /\ Card \in 0..Junk /\ Junk \in 0..Junk
                 /\ Frames \subseteq 0..Junk /\ NoCrc \notin Frames
BY DEF Junk, Card, Frames, NoCrc

\* A picture's parts have their types (struct jcamsys_image).
LEMMA Parts ==
  ASSUME NEW m \in Image
  PROVE  /\ m = [hdr |-> m.hdr, body |-> m.body]
         /\ m.hdr = [size |-> m.hdr.size, crypted |-> m.hdr.crypted, crc |-> m.hdr.crc]
         /\ m.hdr \in Header /\ m.hdr.size \in 0..2 /\ m.hdr.crypted \in BOOLEAN
         /\ m.hdr.crc \in {NoCrc} \cup Frames
         /\ m.body \in [1..2 -> Piece]
         /\ \A i \in 1..2 : /\ m.body[i] = [of |-> m.body[i].of, enc |-> m.body[i].enc]
                            /\ m.body[i].of \in 0..Junk /\ m.body[i].enc \in BOOLEAN
BY DEF Image, Header, Piece

\* A blank picture and the test card are pictures (jc_image_prepare).
LEMMA Blanks == Blank \in Image /\ CardImage \in Image
<1>1. Blank \in Image
  BY Numbers DEF Blank, Image, Header, Piece, NoCrc
<1>2. CardImage = [hdr |-> [size |-> 1, crypted |-> FALSE, crc |-> NoCrc],
                   body |-> [i \in 1..2 |-> [of |-> IF i = 1 THEN Card ELSE Junk,
                                             enc |-> FALSE]]]
  <2>1. CardImage.hdr = [size |-> 1, crypted |-> FALSE, crc |-> NoCrc]
    BY DEF CardImage, Blank
  <2>2. CardImage.body = [i \in 1..2 |-> [of |-> IF i = 1 THEN Card ELSE Junk, enc |-> FALSE]]
    <3>1. Blank.body = [i \in 1..2 |-> [of |-> Junk, enc |-> FALSE]]
      BY DEF Blank
    <3> QED BY <3>1 DEF CardImage
  <2> QED BY <2>1, <2>2 DEF CardImage
<1>3. CardImage \in Image
  BY <1>2, Numbers DEF Image, Header, Piece
<1> QED BY <1>1, <1>3

\* What jcam_crypt_buf makes of a picture.
LEMMA Crypted ==
  ASSUME NEW m \in Image
  PROVE  /\ Crypt(m) \in Image
         /\ Crypt(m).hdr.size = m.hdr.size /\ Crypt(m).hdr.crc = m.hdr.crc
         /\ Crypt(m).hdr.crypted = ~m.hdr.crypted
         /\ \A i \in 1..2 : Crypt(m).body[i] = Turned(m, i)
<1>1. /\ m.hdr \in Header /\ m.body \in [1..2 -> Piece]
      /\ m.hdr.crypted \in BOOLEAN /\ m.hdr.size \in 0..2
  BY Parts
<1>2. Crypt(m) = [hdr |-> [m.hdr EXCEPT !.crypted = ~m.hdr.crypted],
                  body |-> [i \in 1..2 |-> Turned(m, i)]]
  BY DEF Crypt
<1>3. \A i \in 1..2 : Turned(m, i) \in Piece
  <2> TAKE i \in 1..2
  <2>1. m.body[i] \in Piece
    BY <1>1
  <2>2. [m.body[i] EXCEPT !.enc = ~m.body[i].enc] \in Piece
    BY <2>1 DEF Piece
  <2> QED BY <2>1, <2>2 DEF Turned
<1>4. [m.hdr EXCEPT !.crypted = ~m.hdr.crypted] \in Header
  BY <1>1 DEF Header
<1>5. Crypt(m) \in Image
  BY <1>2, <1>3, <1>4 DEF Image
<1>6. \A i \in 1..2 : Crypt(m).body[i] = Turned(m, i)
  BY <1>2
<1>7. /\ Crypt(m).hdr.size = m.hdr.size /\ Crypt(m).hdr.crc = m.hdr.crc
      /\ Crypt(m).hdr.crypted = ~m.hdr.crypted
  BY <1>1, <1>2 DEF Header
<1> QED BY <1>5, <1>6, <1>7

\* jcam_crypt_buf is its own inverse.
LEMMA CryptTwice ==
  ASSUME NEW m \in Image
  PROVE  Crypt(Crypt(m)) = m
<1> DEFINE c == Crypt(m)
           d == Crypt(c)
<1>1. /\ c \in Image /\ c.hdr.size = m.hdr.size /\ c.hdr.crc = m.hdr.crc
      /\ c.hdr.crypted = ~m.hdr.crypted /\ \A i \in 1..2 : c.body[i] = Turned(m, i)
  BY Crypted
<1> HIDE DEF c
<1>2. /\ d \in Image /\ d.hdr.size = c.hdr.size /\ d.hdr.crc = c.hdr.crc
      /\ d.hdr.crypted = ~c.hdr.crypted /\ \A i \in 1..2 : d.body[i] = Turned(c, i)
  BY <1>1, Crypted
<1> HIDE DEF d
<1>3. d.hdr = m.hdr
  <2>1. d.hdr.crypted = m.hdr.crypted
    BY <1>1, <1>2, Parts
  <2>2. d.hdr.size = m.hdr.size /\ d.hdr.crc = m.hdr.crc
    BY <1>1, <1>2
  <2>3. /\ d.hdr = [size |-> d.hdr.size, crypted |-> d.hdr.crypted, crc |-> d.hdr.crc]
        /\ m.hdr = [size |-> m.hdr.size, crypted |-> m.hdr.crypted, crc |-> m.hdr.crc]
    BY <1>2, Parts
  <2> QED BY <2>1, <2>2, <2>3, Zenon
<1>4. d.body = m.body
  <2>1. ASSUME NEW i \in 1..2 PROVE d.body[i] = m.body[i]
    <3>1. d.body[i] = Turned(c, i) /\ c.body[i] = Turned(m, i)
      BY <1>1, <1>2
    <3>2. CASE i <= m.hdr.size
      <4>1. c.body[i] = [m.body[i] EXCEPT !.enc = ~m.body[i].enc]
        BY <3>1, <3>2 DEF Turned
      <4>2. d.body[i] = [c.body[i] EXCEPT !.enc = ~c.body[i].enc]
        BY <1>1, <3>1, <3>2 DEF Turned
      <4>3. /\ m.body[i] = [of |-> m.body[i].of, enc |-> m.body[i].enc]
            /\ m.body[i].enc \in BOOLEAN
        BY Parts
      <4> QED BY <4>1, <4>2, <4>3
    <3>3. CASE ~(i <= m.hdr.size)
      BY <1>1, <3>1, <3>3 DEF Turned
    <3> QED BY <3>2, <3>3
  <2>2. d.body \in [1..2 -> Piece] /\ m.body \in [1..2 -> Piece]
    BY <1>2, Parts
  <2> QED BY <2>1, <2>2
<1>5. d = m
  BY <1>2, <1>3, <1>4, Parts
<1> QED BY <1>5 DEF c, d

\* However often it is scrambled and unscrambled on its way, a picture is shown as
\* what it is (jc_msg_image, jcam_crypt_buf).
LEMMA ShownIsClear ==
  ASSUME NEW m \in Image
  PROVE  Picture(ForceUncrypted(OnTheWire(m))) = Clear(m)
<1>1. Crypt(m) \in Image /\ Crypt(m).hdr.crypted = ~m.hdr.crypted /\ m.hdr.crypted \in BOOLEAN
  BY Crypted, Parts
<1>2. Crypt(Crypt(m)) = m
  BY CryptTwice
<1>3. CASE m.hdr.crypted
  <2>1. ForceUncrypted(m) = Crypt(m) /\ ForceCrypted(m) = m
    BY <1>3 DEF ForceUncrypted, ForceCrypted
  <2>2. ForceCrypted(Crypt(m)) = m
    BY <1>1, <1>2, <1>3 DEF ForceCrypted
  <2>3. OnTheWire(m) = m
    BY <2>1, <2>2 DEF OnTheWire
  <2> QED BY <2>3 DEF Clear
<1>4. CASE ~m.hdr.crypted
  <2>1. ForceUncrypted(m) = m /\ ForceCrypted(m) = Crypt(m)
    BY <1>4 DEF ForceUncrypted, ForceCrypted
  <2>2. OnTheWire(m) = Crypt(m)
    BY <2>1 DEF OnTheWire
  <2>3. ForceUncrypted(Crypt(m)) = m
    BY <1>1, <1>2, <1>4 DEF ForceUncrypted
  <2> QED BY <2>1, <2>2, <2>3 DEF Clear
<1> QED BY <1>1, <1>3, <1>4

\* A picture forced one way or the other is a picture (jcam_crypt_buf).
LEMMA Forced ==
  ASSUME NEW m \in Image
  PROVE  /\ ForceUncrypted(m) \in Image /\ ForceUncrypted(m).hdr.size = m.hdr.size
         /\ ForceUncrypted(m).hdr.crc = m.hdr.crc /\ ForceUncrypted(m).hdr.crypted = FALSE
<1>1. /\ Crypt(m) \in Image /\ Crypt(m).hdr.size = m.hdr.size
      /\ Crypt(m).hdr.crc = m.hdr.crc
  BY Crypted
<1>2. Crypt(m).hdr.crypted = ~m.hdr.crypted /\ m.hdr.crypted \in BOOLEAN
  BY Crypted, Parts
<1>3. CASE m.hdr.crypted
  BY <1>1, <1>2, <1>3 DEF ForceUncrypted
<1>4. CASE ~m.hdr.crypted
  BY <1>2, <1>4 DEF ForceUncrypted
<1> QED BY <1>2, <1>3, <1>4

\* What a decoder makes of data has a type.
LEMMA PictureType ==
  ASSUME NEW m \in Image
  PROVE  Picture(m) \in Pictures /\ Picture(m) \in [1..m.hdr.size -> 0..Junk]
<1>1. m.hdr.size \in 0..2 /\ \A i \in 1..2 : m.body[i].of \in 0..Junk
  BY Parts
<1>2. Picture(m) \in [1..m.hdr.size -> 0..Junk]
  BY <1>1, Numbers DEF Picture
<1> QED BY <1>1, <1>2 DEF Pictures

\* The same, once it is decrypted.
LEMMA ClearType ==
  ASSUME NEW m \in Image
  PROVE  Clear(m) \in Pictures
BY Forced, PictureType DEF Clear

\* What is not known is no picture at all.
LEMMA NoPicture == <<>> \in Pictures
<1>1. <<>> \in [1..0 -> 0..Junk]
  OBVIOUS
<1>2. 0 \in 0..2
  OBVIOUS
<1> QED BY <1>1, <1>2 DEF Pictures

\* What a camera sends is a picture (jc_msg_image).
LEMMA SentType ==
  ASSUME NEW f \in Frames, NEW size \in 1..2, NEW crc \in BOOLEAN, NEW whole \in BOOLEAN
  PROVE  Sent(f, size, crc, whole) \in Image
<1>1. f \in 0..Junk /\ Junk \in 0..Junk
  BY Numbers DEF Frames
<1>2. (IF crc THEN f ELSE NoCrc) \in {NoCrc} \cup Frames
  OBVIOUS
<1>3. [size |-> size, crypted |-> TRUE, crc |-> IF crc THEN f ELSE NoCrc] \in Header
  BY <1>2 DEF Header
<1>4. [i \in 1..2 |-> [of |-> IF i < size \/ (i = size /\ whole) THEN f ELSE Junk,
                       enc |-> TRUE]] \in [1..2 -> Piece]
  BY <1>1 DEF Piece
<1> QED BY <1>3, <1>4 DEF Sent, Image

-----------------------------------------------------------------------------
(* Types.                                                                   *)

Places == {"loop", "clocked", "deregister", "prepare", "draw", "seal", "read",
           "store0", "store1", "store2", "check", "mark", "archive",
           "copy0", "copy1", "copy2", "send"}

\* To put one piece in a picture leaves a picture (memcpy).
LEMMA PieceType ==
  ASSUME NEW m \in Image, NEW i \in 1..2, NEW x \in Piece
  PROVE  /\ [m EXCEPT !.body[i] = x] \in Image
         /\ [m EXCEPT !.body[i] = x].hdr = m.hdr
         /\ [m EXCEPT !.body[i] = x].body = [m.body EXCEPT ![i] = x]
<1>1. [m EXCEPT !.body[i] = x] = [hdr |-> m.hdr, body |-> [m.body EXCEPT ![i] = x]]
  BY Parts DEF Image
<1> QED BY <1>1, Parts DEF Image

\* To put a header on a picture leaves a picture (memcpy).
LEMMA HeaderType ==
  ASSUME NEW m \in Image, NEW h \in Header
  PROVE  /\ [m EXCEPT !.hdr = h] \in Image
         /\ [m EXCEPT !.hdr = h].hdr = h /\ [m EXCEPT !.hdr = h].body = m.body
<1>1. [m EXCEPT !.hdr = h] = [hdr |-> h, body |-> m.body]
  BY Parts DEF Image
<1> QED BY <1>1, Parts DEF Image

\* A prepared picture is blank as far as it goes (jc_image_prepare).
LEMMA PreparedType ==
  ASSUME slot \in Image
  PROVE  Prepared \in Image /\ Prepared.hdr = Blank.hdr
<1>1. Prepared = [hdr |-> Blank.hdr,
                  body |-> [slot.body EXCEPT ![1] = [of |-> Junk, enc |-> FALSE]]]
  <2> DEFINE h == [slot EXCEPT !.hdr = Blank.hdr]
             x == [of |-> Junk, enc |-> FALSE]
  <2>1. x \in Piece /\ Blank.hdr \in Header
    BY Numbers, Blanks, Parts DEF Piece
  <2>2. h \in Image /\ h.hdr = Blank.hdr /\ h.body = slot.body
    BY <2>1, HeaderType
  <2>3. Prepared = [h EXCEPT !.body[1] = x]
    BY DEF Prepared
  <2> HIDE DEF h, x
  <2>4. /\ [h EXCEPT !.body[1] = x] \in Image /\ [h EXCEPT !.body[1] = x].hdr = h.hdr
        /\ [h EXCEPT !.body[1] = x].body = [h.body EXCEPT ![1] = x]
    BY <2>1, <2>2, PieceType
  <2>5. Prepared = [hdr |-> Prepared.hdr, body |-> Prepared.body]
    BY <2>3, <2>4, Parts
  <2> QED BY <2>2, <2>3, <2>4, <2>5 DEF x
<1>2. [of |-> Junk, enc |-> FALSE] \in Piece
  BY Numbers DEF Piece
<1> QED BY <1>1, <1>2, Blanks, Parts DEF Image

\* The bookkeeping of a write keeps its types (Begin, Continue, Finish).
LEMMA BookType ==
  ASSUME TypeOK, NEW p \in Procs, NEW pic \in Pictures, Begin(p) \/ Continue \/ Finish(p, pic)
  PROVE  solo' \subseteq Procs /\ last' \in Pictures /\ expect' \in [Viewers -> Pictures]
<1>1. expect' \in [Viewers -> Pictures]
  BY NoPicture DEF Begin, Continue, Finish, Disturb, TypeOK
<1>2. solo' \subseteq Procs
  BY DEF Begin, Continue, Finish, TypeOK
<1>3. last' \in Pictures
  BY NoPicture DEF Begin, Continue, Finish, TypeOK
<1> QED BY <1>1, <1>2, <1>3

\* A timestamp keeps its types (jc_image_prepare, jcam_read_message).
LEMMA StampType ==
  ASSUME TypeOK, Stamp \/ NoStamp
  PROVE  age' \in 0..(Limit + 1) /\ late' \subseteq Procs
<1>1. age' \in 0..(Limit + 1)
  BY DEF Stamp, NoStamp, TypeOK
<1> QED BY <1>1 DEF Stamp, NoStamp, TypeOK

\* A process is at one of its places (Goto).
LEMMA GotoType ==
  ASSUME TypeOK, NEW p \in Procs, NEW l \in Places, Goto(p, l)
  PROVE  pc' \in [Procs -> Places]
BY DEF Goto, TypeOK, Places

\* TypeOK, with the places named.
Types ==
  /\ slot \in Image /\ buf \in [Procs -> Image]
  /\ age \in 0..(Limit + 1) /\ late \subseteq Procs
  /\ solo \subseteq Procs /\ last \in Pictures /\ expect \in [Viewers -> Pictures]
  /\ pc \in [Procs -> Places] /\ len \in [Procs -> 0..2]
  /\ active \in BOOLEAN /\ frames \in 0..MaxFrames /\ cards \in 0..MaxCards

\* It is TypeOK, before and after a step.
LEMMA TypesAre == (Types <=> TypeOK) /\ (Types' => TypeOK')
BY DEF Types, TypeOK, Places

\* The shared picture is the test card at the start (Init).
LEMMA InitType == ASSUME Init PROVE TypeOK
<1>1. slot \in Image /\ buf \in [Procs -> Image]
  BY Blanks DEF Init
<1>2. age \in 0..(Limit + 1) /\ late \subseteq Procs /\ solo \subseteq Procs
  BY DEF Init
<1>3. last \in Pictures
  BY Blanks, PictureType DEF Init
<1>4. expect \in [Viewers -> Pictures]
  BY NoPicture DEF Init
<1>5. pc \in [Procs -> Places] /\ len \in [Procs -> 0..2]
  BY DEF Init, Places
<1>6. frames \in 0..MaxFrames /\ cards \in 0..MaxCards
  BY DEF Init
<1>7. active \in BOOLEAN
  BY DEF Init
<1> QED BY <1>1, <1>2, <1>3, <1>4, <1>5, <1>6, <1>7, TypesAre DEF Types

\* The types are kept by a turn's own steps (jc_server, timeout_cameras).
LEMMA TurnType ==
  ASSUME TypeOK, NEW p \in Procs, Turn(p)
  PROVE  TypeOK'
<1>1. Types
  BY TypesAre
<1>2. CASE Look(p) \/ Compare(p) \/ ReadNothing(p) \/ Deregister(p) \/ Settings(p)
  <2>1. pc' \in [Procs -> Places]
    <3>1. \E l \in Places : Goto(p, l)
      BY <1>2 DEF Look, Compare, ReadNothing, Deregister, Settings, Places
    <3> QED BY <3>1, GotoType
  <2>2. late' \subseteq Procs /\ UNCHANGED <<store, buf, len, expect, frames>>
    BY <1>1, <1>2 DEF Look, Compare, ReadNothing, Deregister, Settings, Types, locals
  <2>3. active' \in BOOLEAN
    BY <1>1, <1>2 DEF Look, Compare, ReadNothing, Deregister, Settings, Types
  <2>4. cards' \in 0..MaxCards
    BY <1>1, <1>2 DEF Look, Compare, ReadNothing, Deregister, Settings, Types
  <2>5. Types'
    BY <1>1, <2>1, <2>2, <2>3, <2>4 DEF Types, store
  <2> QED BY <2>5, TypesAre
<1>3. CASE Prepare(p) \/ Draw(p) \/ Seal(p)
  <2>1. pc' \in [Procs -> Places]
    <3>1. \E l \in Places : Goto(p, l)
      BY <1>3 DEF Prepare, Draw, Seal, Places
    <3> QED BY <3>1, GotoType
  <2>2. slot' \in Image
    <3>1. CASE Prepare(p)
      BY <1>1, <3>1, PreparedType DEF Prepare, Types
    <3>2. CASE Draw(p)
      <4>1. CardImage.body[1] \in Piece /\ 1 \in 1..2
        <5>1. CardImage.body \in [1..2 -> Piece]
          BY Blanks, Parts
        <5> QED BY <5>1
      <4> QED BY <1>1, <3>2, <4>1, PieceType DEF Draw, Types
    <3>3. CASE Seal(p)
      <4>1. slot' = [slot EXCEPT !.hdr = [slot.hdr EXCEPT !.size = 1]]
        BY <3>3 DEF Seal
      <4>2. [slot.hdr EXCEPT !.size = 1] \in Header
        <5>1. slot.hdr \in Header
          BY <1>1, Parts DEF Types
        <5> QED BY <5>1 DEF Header
      <4> QED BY <1>1, <4>1, <4>2, HeaderType DEF Types
    <3> QED BY <1>3, <3>1, <3>2, <3>3
  <2>3. solo' \subseteq Procs /\ last' \in Pictures /\ expect' \in [Viewers -> Pictures]
    <3>1. Picture(CardImage) \in Pictures
      BY Blanks, PictureType
    <3>2. Begin(p) \/ Continue \/ Finish(p, Picture(CardImage))
      BY <1>3 DEF Prepare, Draw, Seal
    <3> QED BY <3>1, <3>2, BookType
  <2>4. age' \in 0..(Limit + 1) /\ late' \subseteq Procs
    <3>1. Stamp \/ NoStamp
      BY <1>3 DEF Prepare, Draw, Seal
    <3> QED BY <3>1, StampType
  <2>5. UNCHANGED <<active, buf, len, frames, cards>>
    BY <1>3 DEF Prepare, Draw, Seal
  <2>6. Types'
    BY <1>1, <2>1, <2>2, <2>3, <2>4, <2>5 DEF Types
  <2> QED BY <2>6, TypesAre
<1> QED BY <1>2, <1>3 DEF Turn

\* The types are kept when a picture arrives and is stored (JC_MSG_IMAGE).
LEMMA FeedType ==
  ASSUME TypeOK, NEW f \in Feeders, Feed(f)
  PROVE  TypeOK'
<1>1. Types /\ f \in Procs
  BY TypesAre DEF Procs
<1>2. CASE Arrive(f) \/ Check(f) \/ Mark(f) \/ Archive(f) \/ Leave(f)
  <2>1. pc' \in [Procs -> Places]
    <3>1. \E l \in Places : Goto(f, l)
      BY <1>2 DEF Arrive, Check, Mark, Archive, Leave, Places
    <3> QED BY <1>1, <3>1, GotoType
  <2>2. buf' \in [Procs -> Image]
    <3>1. CASE Arrive(f)
      <4>1. frames + 1 \in Frames
        BY <1>1, <3>1 DEF Arrive, Frames, Types
      <4>2. PICK size \in 1..2, crc \in BOOLEAN, whole \in BOOLEAN :
              buf' = [buf EXCEPT ![f] = Sent(frames + 1, size, crc, whole)]
        BY <3>1 DEF Arrive
      <4>3. Sent(frames + 1, size, crc, whole) \in Image
        BY <4>1, SentType
      <4> QED BY <1>1, <4>2, <4>3 DEF Types
    <3>2. CASE Check(f)
      <4>1. buf[f] \in Image
        BY <1>1 DEF Types
      <4>2. ForceUncrypted(buf[f]) \in Image /\ Blank \in Image
        BY <4>1, Forced, Blanks
      <4>3. \/ buf' = [buf EXCEPT ![f] = ForceUncrypted(buf[f])]
            \/ buf' = [buf EXCEPT ![f] = Blank]
            \/ buf' = buf
        BY <3>2 DEF Check
      <4> QED BY <1>1, <4>2, <4>3 DEF Types
    <3>3. CASE Mark(f) \/ Archive(f) \/ Leave(f)
      BY <1>1, <3>3, Blanks DEF Mark, Archive, Leave, Types
    <3> QED BY <1>2, <3>1, <3>2, <3>3
  <2>3. UNCHANGED <<store, len, late, expect>>
    BY <1>2 DEF Arrive, Check, Mark, Archive, Leave
  <2>4. active' \in BOOLEAN
    BY <1>1, <1>2 DEF Arrive, Check, Mark, Archive, Leave, Types
  <2>5. frames' \in 0..MaxFrames /\ cards' \in 0..MaxCards
    BY <1>1, <1>2 DEF Arrive, Check, Mark, Archive, Leave, Types
  <2>6. Types'
    BY <1>1, <2>1, <2>2, <2>3, <2>4, <2>5 DEF Types, store
  <2> QED BY <2>6, TypesAre
<1>3. CASE Store0(f) \/ Store1(f) \/ Store2(f)
  <2>1. pc' \in [Procs -> Places]
    <3>1. \E l \in Places : Goto(f, l)
      BY <1>3 DEF Store0, Store1, Store2, Places
    <3> QED BY <1>1, <3>1, GotoType
  <2>2. buf[f] \in Image
    BY <1>1 DEF Types
  <2>3. slot' \in Image
    <3>1. buf[f].hdr \in Header /\ \A i \in 1..2 : buf[f].body[i] \in Piece
      BY <2>2, Parts
    <3>2. \/ slot' = [slot EXCEPT !.hdr = buf[f].hdr]
          \/ \E i \in 1..2 : slot' = [slot EXCEPT !.body[i] = buf[f].body[i]]
      BY <1>3 DEF Store0, Store1, Store2
    <3> QED BY <1>1, <3>1, <3>2, PieceType, HeaderType DEF Types
  <2>4. solo' \subseteq Procs /\ last' \in Pictures /\ expect' \in [Viewers -> Pictures]
    <3>1. Received(f) \in Pictures
      BY <2>2, ClearType DEF Received, Clear
    <3>2. Begin(f) \/ Continue \/ Finish(f, Received(f))
      BY <1>3 DEF Store0, Store1, Store2
    <3> QED BY <1>1, <3>1, <3>2, BookType
  <2>5. age' \in 0..(Limit + 1) /\ late' \subseteq Procs
    <3>1. Stamp \/ NoStamp
      BY <1>3 DEF Store0, Store1, Store2
    <3> QED BY <3>1, StampType
  <2>6. UNCHANGED <<active, buf, len, frames, cards>>
    BY <1>3 DEF Store0, Store1, Store2
  <2>7. Types'
    BY <1>1, <2>1, <2>3, <2>4, <2>5, <2>6 DEF Types
  <2> QED BY <2>7, TypesAre
<1> QED BY <1>2, <1>3 DEF Feed

\* The types are kept when a picture is copied out and sent (JC_REQ_IMAGE).
LEMMA ViewType ==
  ASSUME TypeOK, NEW v \in Viewers, View(v)
  PROVE  TypeOK'
<1>1. Types /\ v \in Procs
  BY TypesAre DEF Procs
<1>2. pc' \in [Procs -> Places]
  <2>1. \E l \in Places : Goto(v, l)
    BY DEF View, Request, Copy0, Copy1, Copy2, Send, Places
  <2> QED BY <1>1, <2>1, GotoType
<1>3. slot \in Image /\ buf[v] \in Image /\ slot.hdr \in Header /\ slot.hdr.size \in 0..2
      /\ \A i \in 1..2 : slot.body[i] \in Piece
  <2>1. slot \in Image /\ buf[v] \in Image
    BY <1>1 DEF Types
  <2>2. slot.hdr \in Header /\ slot.hdr.size \in 0..2 /\ slot.body \in [1..2 -> Piece]
    BY <2>1, Parts
  <2> QED BY <2>1, <2>2
<1>4. buf' \in [Procs -> Image]
  <2>1. CASE Request(v) \/ Send(v)
    BY <1>1, <2>1, Blanks DEF Request, Send, Types
  <2>2. CASE Copy0(v)
    <3>1. [Blank EXCEPT !.hdr = slot.hdr] \in Image
      BY <1>3, Blanks, HeaderType
    <3> QED BY <1>1, <2>2, <3>1 DEF Copy0, Types
  <2>3. CASE Copy1(v) \/ Copy2(v)
    <3>1. PICK i \in 1..2 : buf' = [buf EXCEPT ![v] = [buf[v] EXCEPT !.body[i] = slot.body[i]]]
      BY <2>3 DEF Copy1, Copy2
    <3>2. [buf[v] EXCEPT !.body[i] = slot.body[i]] \in Image
      BY <1>3, PieceType
    <3> QED BY <1>1, <3>1, <3>2 DEF Types
  <2> QED BY <2>1, <2>2, <2>3 DEF View
<1>5. len' \in [Procs -> 0..2]
  BY <1>1, <1>3 DEF View, Request, Copy0, Copy1, Copy2, Send, Types
<1>6. expect' \in [Viewers -> Pictures]
  BY <1>1, NoPicture DEF View, Request, Copy0, Copy1, Copy2, Send, Types
<1>7. UNCHANGED <<store, active, late, frames, cards>>
  BY DEF View, Request, Copy0, Copy1, Copy2, Send
<1>8. Types'
  BY <1>1, <1>2, <1>4, <1>5, <1>6, <1>7 DEF Types, store
<1> QED BY <1>8, TypesAre

\* Every step keeps the types (Next).
LEMMA NextType == TypeOK /\ [Next]_vars => TypeOK'
<1> SUFFICES ASSUME TypeOK, [Next]_vars PROVE TypeOK'
  OBVIOUS
<1>1. CASE \E p \in Procs : Child(p)
  BY <1>1, TurnType, FeedType, ViewType DEF Child
<1>2. CASE Tick
  BY <1>2 DEF Tick, TypeOK, locals
<1>3. CASE UNCHANGED vars
  BY <1>3 DEF vars, store, locals, TypeOK
<1> QED BY <1>1, <1>2, <1>3 DEF Next

\* Every variable keeps its type (struct jcamsys_image and the children's locals).
THEOREM TypeCorrect == Spec => []TypeOK
BY InitType, NextType, PTL DEF Spec

-----------------------------------------------------------------------------
(* The picture is a safe register.                                           *)

\* A writer that no other overlapped is the only one.
Alone ==
  \A p \in solo : Writing(p) /\ \A q \in Procs : Writing(q) => q = p

\* What such a writer has written so far.
Progress ==
  \A p \in solo :
    /\ pc[p] = "store1" => slot.hdr = buf[p].hdr
    /\ pc[p] = "store2" => slot.hdr = buf[p].hdr /\ slot.body[1] = buf[p].body[1]
    /\ pc[p] = "draw" => slot.hdr = Blank.hdr
    /\ pc[p] = "seal" => slot.hdr = Blank.hdr /\ slot.body[1] = CardImage.body[1]

\* While nobody writes, the picture is the last one that was written whole.
Latest == (\A p \in Procs : ~Writing(p)) /\ last # <<>> => Clear(slot) = last

\* What a viewer's child has copied so far, if no write overlapped.
Copied(v) ==
  expect[v] # <<>> =>
    /\ Reading(v) => /\ \A p \in Procs : ~Writing(p)
                     /\ len[v] = slot.hdr.size /\ Clear(slot) = expect[v]
    /\ pc[v] = "copy1" => buf[v].hdr = slot.hdr
    /\ pc[v] = "copy2" => buf[v].hdr = slot.hdr /\ buf[v].body[1] = slot.body[1]
    /\ pc[v] = "send" => Clear(buf[v]) = expect[v]

Register == Alone /\ Progress /\ Latest /\ \A v \in Viewers : Copied(v)

\* A picture is shown from its header and as much data as the header says.
LEMMA Alike ==
  ASSUME NEW m \in Image, NEW n \in Image, m.hdr = n.hdr,
         \A i \in 1..2 : i <= m.hdr.size => m.body[i] = n.body[i]
  PROVE  Clear(m) = Clear(n)
<1>1. m.hdr.size \in 0..2 /\ m.hdr.crypted \in BOOLEAN
  BY Parts
<1>2. CASE ~m.hdr.crypted
  <2>1. ForceUncrypted(m) = m /\ ForceUncrypted(n) = n
    BY <1>2 DEF ForceUncrypted
  <2>2. Picture(m) = Picture(n)
    BY <1>1 DEF Picture
  <2> QED BY <2>1, <2>2 DEF Clear
<1>3. CASE m.hdr.crypted
  <2>1. ForceUncrypted(m) = Crypt(m) /\ ForceUncrypted(n) = Crypt(n)
    BY <1>3 DEF ForceUncrypted
  <2>2. /\ Crypt(m).hdr.size = m.hdr.size /\ Crypt(n).hdr.size = m.hdr.size
        /\ \A i \in 1..2 : Crypt(m).body[i] = Turned(m, i) /\ Crypt(n).body[i] = Turned(n, i)
    BY Crypted
  <2>3. \A i \in 1..m.hdr.size : i \in 1..2 /\ Crypt(m).body[i] = Crypt(n).body[i]
    BY <1>1, <2>2 DEF Turned
  <2>4. Picture(Crypt(m)) = Picture(Crypt(n))
    BY <2>2, <2>3 DEF Picture
  <2> QED BY <2>1, <2>4 DEF Clear
<1> QED BY <1>1, <1>2, <1>3

\* Nobody writes or reads at the start (Init).
LEMMA InitRegister == ASSUME Init PROVE Register
<1>1. solo = {} /\ slot = CardImage /\ last = Picture(CardImage)
      /\ \A v \in Viewers : expect[v] = <<>>
  BY DEF Init
<1>2. CardImage.hdr.crypted = FALSE
  BY DEF CardImage, Blank
<1>3. Clear(slot) = last
  BY <1>1, <1>2 DEF Clear, ForceUncrypted
<1> QED BY <1>1, <1>3 DEF Register, Alone, Progress, Latest, Copied

\* Steps that neither write nor read the picture (jc_server).
LEMMA QuietRegister ==
  ASSUME TypeOK, Register, NEW p \in Procs, NEW l \in Places, Goto(p, l),
         ~Writing(p), l \notin WritingAt \cup ReadingAt \cup {"send"},
         UNCHANGED <<slot, solo, last, expect, len>>,
         \A q \in Procs \ {p} : buf'[q] = buf[q]
  PROVE  Register'
<1> USE DEF Register
<1>1. pc'[p] = l /\ \A q \in Procs \ {p} : pc'[q] = pc[q]
  BY DEF Goto, TypeOK
<1>2. \A q \in Procs : Writing(q)' <=> Writing(q)
  BY <1>1 DEF Writing
<1>3. p \notin solo /\ solo \subseteq Procs
  BY DEF Alone, TypeOK
<1>4. Alone'
  BY <1>2, <1>3 DEF Alone
<1>5. Progress'
  BY <1>1, <1>3 DEF Progress
<1>6. Latest'
  BY <1>2 DEF Latest
<1>7. ASSUME NEW v \in Viewers PROVE Copied(v)'
  <2>1. v \in Procs /\ Copied(v)
    BY DEF Procs
  <2>2. CASE v = p
    BY <1>1, <2>2 DEF Copied, Reading, ReadingAt
  <2>3. CASE v # p
    <3>1. pc'[v] = pc[v] /\ buf'[v] = buf[v]
      BY <1>1, <2>1, <2>3
    <3> QED BY <1>2, <2>1, <3>1 DEF Copied, Reading
  <2> QED BY <2>2, <2>3
<1> QED BY <1>4, <1>5, <1>6, <1>7

\* A write spoils every copy that is under way (memcpy).
LEMMA WriteSpoils ==
  ASSUME TypeOK, Register, NEW p \in Procs, NEW l \in Places, Goto(p, l),
         l \notin ReadingAt \cup {"send"}, Disturb, UNCHANGED buf
  PROVE  \A v \in Viewers : Copied(v)'
<1> SUFFICES ASSUME NEW v \in Viewers, expect'[v] # <<>> PROVE Copied(v)'
  BY DEF Copied
<1>1. pc'[p] = l /\ \A q \in Procs \ {p} : pc'[q] = pc[q]
  BY DEF Goto, TypeOK
<1>2. ~Reading(v) /\ expect'[v] = expect[v] /\ v \in Procs
  BY DEF Disturb, Procs
<1>3. CASE v = p
  BY <1>1, <1>3 DEF Copied, Reading, ReadingAt
<1>4. CASE v # p
  <2>1. pc'[v] = pc[v] /\ Copied(v)
    BY <1>1, <1>2, <1>4 DEF Register
  <2> QED BY <1>2, <2>1 DEF Copied, Reading, ReadingAt
<1> QED BY <1>3, <1>4

\* The first step of a write (jc_image_prepare, jc_image_copy).
LEMMA BeginRegister ==
  ASSUME TypeOK, Register, NEW p \in Procs, NEW l \in WritingAt, Goto(p, l), Begin(p),
         UNCHANGED buf,
         l \in {"store1", "draw"},
         l = "store1" => slot'.hdr = buf[p].hdr,
         l = "draw" => slot'.hdr = Blank.hdr
  PROVE  Register'
<1>1. pc'[p] = l /\ \A q \in Procs \ {p} : pc'[q] = pc[q]
  BY DEF Goto, TypeOK
<1>2. l \in Places /\ l \notin ReadingAt \cup {"send"} /\ Disturb
  BY DEF Places, ReadingAt, WritingAt, Begin
<1>3. solo' = IF \E q \in Procs \ {p} : Writing(q) THEN {} ELSE {p}
  BY DEF Begin
<1>4. Writing(p)' /\ \A q \in Procs \ {p} : Writing(q)' <=> Writing(q)
  BY <1>1 DEF Writing
<1>5. Alone'
  BY <1>3, <1>4 DEF Alone
<1>6. Progress'
  BY <1>1, <1>3 DEF Progress
<1>7. Latest'
  BY <1>4 DEF Latest
<1> QED BY <1>2, <1>5, <1>6, <1>7, WriteSpoils DEF Register

\* A step between the first and the last of a write (memcpy).
LEMMA ContinueRegister ==
  ASSUME TypeOK, Register, NEW p \in Procs, NEW l \in WritingAt, Goto(p, l), Continue,
         Writing(p), UNCHANGED buf,
         l \in {"store2", "seal"},
         l = "store2" /\ p \in solo => slot'.hdr = buf[p].hdr /\ slot'.body[1] = buf[p].body[1],
         l = "seal" /\ p \in solo => slot'.hdr = Blank.hdr /\ slot'.body[1] = CardImage.body[1]
  PROVE  Register'
<1>1. pc'[p] = l /\ \A q \in Procs \ {p} : pc'[q] = pc[q]
  BY DEF Goto, TypeOK
<1>2. l \in Places /\ l \notin ReadingAt \cup {"send"} /\ Disturb /\ solo' = solo
  BY DEF Places, ReadingAt, WritingAt, Continue
<1>3. Writing(p)' /\ \A q \in Procs \ {p} : Writing(q)' <=> Writing(q)
  BY <1>1 DEF Writing
<1>4. \A q \in solo : q = p
  BY DEF Register, Alone, TypeOK
<1>5. Alone'
  BY <1>2, <1>3, <1>4 DEF Alone, Register
<1>6. Progress'
  BY <1>1, <1>2, <1>4 DEF Progress
<1>7. Latest'
  BY <1>3 DEF Latest
<1> QED BY <1>2, <1>5, <1>6, <1>7, WriteSpoils DEF Register

\* The last step of a write (jc_image_copy, jc_testcard).
LEMMA FinishRegister ==
  ASSUME TypeOK, Register, NEW p \in Procs, NEW l \in Places \ (WritingAt \cup ReadingAt),
         l # "send", Goto(p, l), NEW pic, Finish(p, pic), Writing(p), UNCHANGED buf,
         p \in solo => Clear(slot') = pic
  PROVE  Register'
<1>1. pc'[p] = l /\ \A q \in Procs \ {p} : pc'[q] = pc[q]
  BY DEF Goto, TypeOK
<1>2. Disturb /\ solo' = solo \ {p} /\ last' = IF p \in solo THEN pic ELSE <<>>
  BY DEF Finish
<1>3. \A q \in solo : q = p
  BY DEF Register, Alone, TypeOK
<1>4. solo' = {}
  BY <1>2, <1>3
<1>5. Alone' /\ Progress'
  BY <1>4 DEF Alone, Progress
<1>6. Latest'
  <2>1. last' # <<>> => Clear(slot') = last'
    BY <1>2
  <2> QED BY <2>1 DEF Latest, Clear, Picture, ForceUncrypted, Crypt, Turned
<1>7. \A v \in Viewers : Copied(v)'
  BY <1>2, WriteSpoils
<1> QED BY <1>5, <1>6, <1>7 DEF Register

\* A turn's own steps keep the register (jc_server, timeout_cameras).
LEMMA TurnRegister ==
  ASSUME TypeOK, Register, NEW p \in Procs, Turn(p)
  PROVE  Register'
<1> USE DEF TypeOK
<1>1. CASE Look(p) \/ Compare(p) \/ ReadNothing(p) \/ Deregister(p) \/ Settings(p)
  <2>1. PICK l \in {"clocked", "read", "deregister", "loop", "prepare"} : Goto(p, l)
    BY <1>1 DEF Look, Compare, ReadNothing, Deregister, Settings
  <2>2. UNCHANGED <<slot, solo, last, expect, len, buf>>
    BY <1>1 DEF Look, Compare, ReadNothing, Deregister, Settings, store, locals
  <2>3. ~Writing(p)
    BY <1>1 DEF Look, Compare, ReadNothing, Deregister, Settings, Writing, WritingAt
  <2>4. l \in Places /\ l \notin WritingAt \cup ReadingAt \cup {"send"}
    BY DEF Places, WritingAt, ReadingAt
  <2> QED BY <2>1, <2>2, <2>3, <2>4, QuietRegister
<1>2. CASE Prepare(p)
  <2>1. Goto(p, "draw") /\ Begin(p) /\ slot' = Prepared /\ UNCHANGED buf
    BY <1>2 DEF Prepare
  <2>2. slot'.hdr = Blank.hdr
    BY <2>1, PreparedType
  <2>3. "draw" \in WritingAt /\ "draw" # "store1"
    BY DEF WritingAt
  <2> QED BY <2>1, <2>2, <2>3, BeginRegister
<1>3. CASE Draw(p)
  <2>1. /\ Goto(p, "seal") /\ Continue /\ pc[p] = "draw" /\ UNCHANGED buf
        /\ slot' = [slot EXCEPT !.body[1] = CardImage.body[1]]
    BY <1>3 DEF Draw
  <2>2. CardImage.body[1] \in Piece /\ 1 \in 1..2 /\ slot.body \in [1..2 -> Piece]
    <3>1. CardImage.body \in [1..2 -> Piece]
      BY Blanks, Parts
    <3>2. slot.body \in [1..2 -> Piece]
      BY Parts
    <3> QED BY <3>1, <3>2
  <2>3. slot'.hdr = slot.hdr /\ slot'.body[1] = CardImage.body[1]
    BY <2>1, <2>2, PieceType
  <2>4. p \in solo => slot'.hdr = Blank.hdr
    BY <2>1, <2>3 DEF Register, Progress
  <2>5. Writing(p) /\ "seal" \in WritingAt /\ "seal" # "store2"
    BY <2>1 DEF Writing, WritingAt
  <2> QED BY <2>1, <2>3, <2>4, <2>5, ContinueRegister
<1>4. CASE Seal(p)
  <2>1. /\ Goto(p, "read") /\ Finish(p, Picture(CardImage)) /\ pc[p] = "seal"
        /\ UNCHANGED buf /\ slot' = [slot EXCEPT !.hdr = [slot.hdr EXCEPT !.size = 1]]
    BY <1>4 DEF Seal
  <2>2. ASSUME p \in solo PROVE Clear(slot') = Picture(CardImage)
    <3>1. slot.hdr = Blank.hdr /\ slot.body[1] = CardImage.body[1]
      BY <2>1, <2>2 DEF Register, Progress
    <3>2. [Blank.hdr EXCEPT !.size = 1] = CardImage.hdr /\ CardImage.hdr \in Header
      BY Blanks, Parts DEF CardImage
    <3>3. slot' \in Image /\ slot'.hdr = CardImage.hdr /\ slot'.body = slot.body
      BY <2>1, <3>1, <3>2, HeaderType
    <3>4. CardImage.hdr.size = 1 /\ CardImage.hdr.crypted = FALSE
      BY DEF CardImage, Blank
    <3>5. \A i \in 1..2 : i <= slot'.hdr.size => slot'.body[i] = CardImage.body[i]
      BY <3>1, <3>3, <3>4
    <3>6. Clear(slot') = Clear(CardImage)
      BY <3>3, <3>5, Alike, Blanks
    <3>7. Clear(CardImage) = Picture(CardImage)
      BY <3>4 DEF Clear, ForceUncrypted
    <3> QED BY <3>6, <3>7
  <2>3. Writing(p) /\ "read" \in Places \ (WritingAt \cup ReadingAt) /\ "read" # "send"
    BY <2>1 DEF Writing, WritingAt, ReadingAt, Places
  <2> QED BY <2>1, <2>2, <2>3, FinishRegister
<1> QED BY <1>1, <1>2, <1>3, <1>4 DEF Turn

\* The arrival and the storing of a picture keep the register (JC_MSG_IMAGE).
LEMMA FeedRegister ==
  ASSUME TypeOK, Register, NEW f \in Feeders, Feed(f)
  PROVE  Register'
<1>1. f \in Procs /\ buf[f] \in Image /\ slot \in Image
  BY DEF TypeOK, Procs
<1>2. buf[f].hdr \in Header /\ \A i \in 1..2 : buf[f].body[i] \in Piece
  <2>1. buf[f].body \in [1..2 -> Piece]
    BY <1>1, Parts
  <2> QED BY <1>1, <2>1, Parts
<1>3. Received(f) = Clear(buf[f])
  BY DEF Received, Clear
<1>4. CASE Arrive(f) \/ Check(f) \/ Mark(f) \/ Archive(f) \/ Leave(f)
  <2>1. PICK l \in {"store0", "mark", "archive", "loop", "deregister"} : Goto(f, l)
    BY <1>4 DEF Arrive, Check, Mark, Archive, Leave
  <2>2. UNCHANGED <<slot, solo, last, expect, len>>
    BY <1>4 DEF Arrive, Check, Mark, Archive, Leave, store
  <2>3. \A q \in Procs \ {f} : buf'[q] = buf[q]
    BY <1>4 DEF Arrive, Check, Mark, Archive, Leave, TypeOK
  <2>4. ~Writing(f)
    BY <1>4 DEF Arrive, Check, Mark, Archive, Leave, Writing, WritingAt
  <2>5. l \in Places /\ l \notin WritingAt \cup ReadingAt \cup {"send"}
    BY DEF Places, WritingAt, ReadingAt
  <2> QED BY <1>1, <2>1, <2>2, <2>3, <2>4, <2>5, QuietRegister
<1>5. CASE Store0(f)
  <2>1. Goto(f, "store1") /\ Begin(f) /\ UNCHANGED buf /\ slot' = [slot EXCEPT !.hdr = buf[f].hdr]
    BY <1>5 DEF Store0
  <2>2. slot'.hdr = buf[f].hdr
    BY <1>1, <1>2, <2>1, HeaderType
  <2>3. "store1" \in WritingAt /\ "store1" # "draw"
    BY DEF WritingAt
  <2> QED BY <1>1, <2>1, <2>2, <2>3, BeginRegister
<1>6. CASE Store1(f)
  <2>1. pc[f] = "store1" /\ UNCHANGED buf /\ slot' = [slot EXCEPT !.body[1] = buf[f].body[1]]
    BY <1>6 DEF Store1
  <2>2. 1 \in 1..2 /\ buf[f].body[1] \in Piece
    BY <1>2
  <2>3. slot' \in Image /\ slot'.hdr = slot.hdr /\ slot'.body = [slot.body EXCEPT ![1] = buf[f].body[1]]
    BY <1>1, <2>1, <2>2, PieceType
  <2>4. slot'.body[1] = buf[f].body[1]
    BY <1>1, <2>2, <2>3, Parts
  <2>5. f \in solo => slot'.hdr = buf[f].hdr
    BY <2>1, <2>3 DEF Register, Progress
  <2>6. Writing(f) /\ "store2" \in WritingAt /\ "store2" # "seal"
    BY <2>1 DEF Writing, WritingAt
  <2>7. CASE buf[f].hdr.size = 1
    <3>1. Goto(f, "check") /\ Finish(f, Received(f))
      BY <1>6, <2>7 DEF Store1
    <3>2. "check" \in Places \ (WritingAt \cup ReadingAt) /\ "check" # "send"
      BY DEF WritingAt, ReadingAt, Places
    <3>3. ASSUME f \in solo PROVE Clear(slot') = Received(f)
      <4>1. \A i \in 1..2 : i <= slot'.hdr.size => slot'.body[i] = buf[f].body[i]
        BY <2>4, <2>5, <2>7, <3>3
      <4> QED BY <1>1, <1>3, <2>3, <2>5, <3>3, <4>1, Alike
    <3> QED BY <1>1, <2>1, <2>6, <3>1, <3>2, <3>3, FinishRegister
  <2>8. CASE buf[f].hdr.size # 1
    <3>1. Goto(f, "store2") /\ Continue
      BY <1>6, <2>8 DEF Store1
    <3> QED BY <1>1, <2>1, <2>4, <2>5, <2>6, <3>1, ContinueRegister
  <2> QED BY <2>7, <2>8
<1>7. CASE Store2(f)
  <2>1. /\ pc[f] = "store2" /\ UNCHANGED buf /\ slot' = [slot EXCEPT !.body[2] = buf[f].body[2]]
        /\ Goto(f, "check") /\ Finish(f, Received(f))
    BY <1>7 DEF Store2
  <2>2. 2 \in 1..2 /\ buf[f].body[2] \in Piece
    BY <1>2
  <2>3. slot' \in Image /\ slot'.hdr = slot.hdr /\ slot'.body = [slot.body EXCEPT ![2] = buf[f].body[2]]
    BY <1>1, <2>1, <2>2, PieceType
  <2>4. Writing(f)
    BY <2>1 DEF Writing, WritingAt
  <2>5. "check" \in Places \ (WritingAt \cup ReadingAt) /\ "check" # "send"
    BY DEF WritingAt, ReadingAt, Places
  <2>6. ASSUME f \in solo PROVE Clear(slot') = Received(f)
    <3>1. slot.hdr = buf[f].hdr /\ slot.body[1] = buf[f].body[1]
      BY <2>1, <2>6 DEF Register, Progress
    <3>2. slot.body \in [1..2 -> Piece]
      BY <1>1, Parts
    <3>3. \A i \in 1..2 : slot'.body[i] = buf[f].body[i]
      BY <2>3, <3>1, <3>2
    <3> QED BY <1>1, <1>3, <2>3, <3>1, <3>3, Alike
  <2> QED BY <1>1, <2>1, <2>4, <2>5, <2>6, FinishRegister
<1> QED BY <1>4, <1>5, <1>6, <1>7 DEF Feed

\* To copy the picture out and send it keeps the register (JC_REQ_IMAGE).
LEMMA ViewRegister ==
  ASSUME TypeOK, Register, NEW v \in Viewers, View(v)
  PROVE  Register'
<1>1. v \in Procs /\ buf[v] \in Image /\ slot \in Image /\ slot.hdr \in Header
      /\ slot.body \in [1..2 -> Piece] /\ Copied(v)
  <2>1. v \in Procs /\ buf[v] \in Image /\ slot \in Image
    BY DEF TypeOK, Procs
  <2> QED BY <2>1, Parts DEF Register
<1>2. PICK l \in ReadingAt \cup {"send", "loop"} : Goto(v, l)
  BY DEF View, Request, Copy0, Copy1, Copy2, Send, ReadingAt
<1>3. pc'[v] = l /\ \A q \in Procs \ {v} : pc'[q] = pc[q]
  BY <1>1, <1>2 DEF Goto, TypeOK
<1>4. UNCHANGED <<slot, solo, last>>
  BY DEF View, Request, Copy0, Copy1, Copy2, Send, store
<1>5. /\ \A q \in Procs \ {v} : buf'[q] = buf[q] /\ len'[q] = len[q]
      /\ \A q \in Viewers \ {v} : expect'[q] = expect[q]
  BY <1>1 DEF View, Request, Copy0, Copy1, Copy2, Send, TypeOK
<1>6. ~Writing(v) /\ ~(l \in WritingAt)
  BY <1>2 DEF View, Request, Copy0, Copy1, Copy2, Send, Writing, WritingAt, ReadingAt
<1>7. \A q \in Procs : Writing(q)' <=> Writing(q)
  BY <1>3, <1>6 DEF Writing
<1>8. v \notin solo /\ solo \subseteq Procs
  BY <1>6 DEF Register, Alone, TypeOK
<1>9. Alone' /\ Progress' /\ Latest'
  <2>1. Alone'
    BY <1>4, <1>7, <1>8 DEF Register, Alone
  <2>2. Progress'
    BY <1>3, <1>4, <1>5, <1>8 DEF Register, Progress
  <2>3. Latest'
    BY <1>4, <1>7 DEF Register, Latest
  <2> QED BY <2>1, <2>2, <2>3
<1>10. ASSUME NEW d \in Viewers, d # v PROVE Copied(d)'
  <2>1. /\ pc'[d] = pc[d] /\ buf'[d] = buf[d] /\ len'[d] = len[d] /\ expect'[d] = expect[d]
        /\ Copied(d)
    BY <1>3, <1>5, <1>10 DEF Procs, Register
  <2> QED BY <1>4, <1>7, <2>1 DEF Copied, Reading
<1>11. Copied(v)'
  <2>1. CASE Request(v)
    <3>1. /\ pc'[v] = "copy0" /\ len'[v] = slot.hdr.size
          /\ expect'[v] = IF \E p \in Procs : Writing(p) THEN <<>> ELSE last
      BY <1>1, <2>1 DEF Request, Goto, TypeOK
    <3>2. expect'[v] # <<>> => (\A p \in Procs : ~Writing(p)) /\ Clear(slot) = expect'[v]
      BY <3>1 DEF Register, Latest
    <3> QED BY <1>4, <1>7, <3>1, <3>2 DEF Copied, Reading
  <2>2. CASE Copy0(v)
    <3> DEFINE b == [Blank EXCEPT !.hdr = slot.hdr]
    <3>1. /\ pc[v] = "copy0" /\ UNCHANGED <<len, expect>>
          /\ pc'[v] = IF len[v] = 0 THEN "send" ELSE "copy1"
          /\ buf'[v] = b
      BY <1>1, <2>2 DEF Copy0, Goto, TypeOK
    <3>2. b \in Image /\ b.hdr = slot.hdr
      BY <1>1, Blanks, HeaderType
    <3> HIDE DEF b
    <3>3. ASSUME expect[v] # <<>>
          PROVE  (\A p \in Procs : ~Writing(p)) /\ len[v] = slot.hdr.size /\ Clear(slot) = expect[v]
      BY <1>1, <3>1, <3>3 DEF Copied, Reading, ReadingAt
    <3>4. CASE len[v] = 0
      <4>1. ASSUME expect[v] # <<>> PROVE Clear(b) = Clear(slot)
        <5>1. \A i \in 1..2 : ~(i <= b.hdr.size)
          BY <3>2, <3>3, <3>4, <4>1
        <5> QED BY <1>1, <3>2, <5>1, Alike
      <4> QED BY <1>4, <3>1, <3>3, <3>4, <4>1 DEF Copied, Reading, ReadingAt
    <3>5. CASE len[v] # 0
      BY <1>4, <1>7, <3>1, <3>2, <3>3, <3>5 DEF Copied, Reading, ReadingAt
    <3> QED BY <3>4, <3>5
  <2>3. CASE Copy1(v)
    <3> DEFINE b == [buf[v] EXCEPT !.body[1] = slot.body[1]]
    <3>1. /\ pc[v] = "copy1" /\ UNCHANGED <<len, expect>>
          /\ pc'[v] = IF len[v] = 1 THEN "send" ELSE "copy2"
          /\ buf'[v] = b
      BY <1>1, <2>3 DEF Copy1, Goto, TypeOK
    <3>2. b \in Image /\ b.hdr = buf[v].hdr /\ b.body[1] = slot.body[1]
      <4>1. 1 \in 1..2 /\ slot.body[1] \in Piece /\ buf[v].body \in [1..2 -> Piece]
        <5>1. buf[v].body \in [1..2 -> Piece]
          BY <1>1, Parts
        <5> QED BY <1>1, <5>1
      <4> QED BY <1>1, <4>1, PieceType
    <3> HIDE DEF b
    <3>3. ASSUME expect[v] # <<>>
          PROVE  /\ \A p \in Procs : ~Writing(p)
                 /\ len[v] = slot.hdr.size /\ Clear(slot) = expect[v] /\ b.hdr = slot.hdr
      BY <1>1, <3>1, <3>2, <3>3 DEF Copied, Reading, ReadingAt
    <3>4. CASE len[v] = 1
      <4>1. ASSUME expect[v] # <<>> PROVE Clear(b) = Clear(slot)
        <5>1. \A i \in 1..2 : i <= b.hdr.size => b.body[i] = slot.body[i]
          BY <3>2, <3>3, <3>4, <4>1
        <5> QED BY <1>1, <3>2, <3>3, <4>1, <5>1, Alike
      <4> QED BY <1>4, <3>1, <3>3, <3>4, <4>1 DEF Copied, Reading, ReadingAt
    <3>5. CASE len[v] # 1
      BY <1>4, <1>7, <3>1, <3>2, <3>3, <3>5 DEF Copied, Reading, ReadingAt
    <3> QED BY <3>4, <3>5
  <2>4. CASE Copy2(v)
    <3> DEFINE b == [buf[v] EXCEPT !.body[2] = slot.body[2]]
    <3>1. /\ pc[v] = "copy2" /\ UNCHANGED <<len, expect>> /\ pc'[v] = "send" /\ buf'[v] = b
      BY <1>1, <2>4 DEF Copy2, Goto, TypeOK
    <3>2. /\ b \in Image /\ b.hdr = buf[v].hdr /\ b.body[2] = slot.body[2]
          /\ b.body[1] = buf[v].body[1]
      <4>1. 2 \in 1..2 /\ slot.body[2] \in Piece /\ buf[v].body \in [1..2 -> Piece]
        <5>1. buf[v].body \in [1..2 -> Piece]
          BY <1>1, Parts
        <5> QED BY <1>1, <5>1
      <4> QED BY <1>1, <4>1, PieceType
    <3> HIDE DEF b
    <3>3. ASSUME expect[v] # <<>> PROVE Clear(b) = expect[v]
      <4>1. /\ Clear(slot) = expect[v] /\ b.hdr = slot.hdr
            /\ b.body[1] = slot.body[1] /\ b.body[2] = slot.body[2]
        BY <1>1, <3>1, <3>2, <3>3 DEF Copied, Reading, ReadingAt
      <4>2. \A i \in 1..2 : b.body[i] = slot.body[i]
        BY <4>1
      <4> QED BY <1>1, <3>2, <4>1, <4>2, Alike
    <3> QED BY <3>1, <3>3 DEF Copied, Reading, ReadingAt
  <2>5. CASE Send(v)
    <3>1. expect'[v] = <<>>
      BY <2>5 DEF Send, TypeOK
    <3> QED BY <3>1 DEF Copied
  <2> QED BY <2>1, <2>2, <2>3, <2>4, <2>5 DEF View
<1> QED BY <1>9, <1>10, <1>11 DEF Register

\* Every step keeps the register (Next).
LEMMA NextRegister == TypeOK /\ Register /\ [Next]_vars => Register'
<1> SUFFICES ASSUME TypeOK, Register, [Next]_vars PROVE Register'
  OBVIOUS
<1>1. CASE \E p \in Procs : Child(p)
  BY <1>1, TurnRegister, FeedRegister, ViewRegister DEF Child
<1>2. ASSUME UNCHANGED <<slot, solo, last, pc, buf, len, expect>> PROVE Register'
  BY <1>2 DEF Register, Alone, Progress, Latest, Copied, Writing, Reading
<1>3. CASE Tick
  BY <1>2, <1>3 DEF Tick, locals
<1>4. CASE UNCHANGED vars
  BY <1>2, <1>4 DEF vars, store, locals
<1> QED BY <1>1, <1>3, <1>4 DEF Next

\* A copy no write overlapped gives the viewer the last picture, unscrambled, for any
\* children and however often it was scrambled on its way (jc_image_copy).
THEOREM RegisterIsSafe == Spec => []SafeRegister
<1>1. Init => TypeOK /\ Register
  BY InitType, InitRegister
<1>2. TypeOK /\ Register /\ [Next]_vars => (TypeOK /\ Register)'
  BY NextType, NextRegister
<1>3. TypeOK /\ Register => SafeRegister
  <2> SUFFICES ASSUME TypeOK, Register, NEW v \in Viewers, pc[v] = "send", expect[v] # <<>>
               PROVE  Shown(v) = expect[v]
    BY DEF SafeRegister
  <2>1. buf[v] \in Image
    BY DEF TypeOK, Procs
  <2>2. Shown(v) = Clear(buf[v])
    BY <2>1, ShownIsClear DEF Shown
  <2>3. Clear(buf[v]) = expect[v]
    BY DEF Register, Copied
  <2> QED BY <2>2, <2>3
<1> QED BY <1>1, <1>2, <1>3, PTL DEF Spec

-----------------------------------------------------------------------------
(* What reaches the archive.                                                *)

\* A picture that came with a CRC is past the check only if it agreed.
Checked(f) ==
  DoCrc /\ pc[f] \in {"mark", "archive"} /\ buf[f].hdr.crc # NoCrc => CrcOk(buf[f])

\* Nobody else touches a picture on its way from a camera to the archive (JC_MSG_IMAGE).
LEMMA OthersLeaveIt ==
  ASSUME TypeOK, NEW f \in Feeders, NEW p \in Procs, p # f, Child(p)
  PROVE  pc'[f] = pc[f] /\ buf'[f] = buf[f]
<1>1. pc'[f] = pc[f]
  <2>1. \A l : Goto(p, l) => pc'[f] = pc[f]
    BY DEF Goto, TypeOK, Procs
  <2>2. CASE Turn(p)
    BY <2>1, <2>2 DEF Turn, Look, Compare, Deregister, Prepare, Draw, Seal, ReadNothing, Settings
  <2>3. CASE Feed(p)
    BY <2>1, <2>3 DEF Feed, Arrive, Store0, Store1, Store2, Check, Mark, Archive, Leave
  <2>4. CASE View(p)
    BY <2>1, <2>4 DEF View, Request, Copy0, Copy1, Copy2, Send
  <2> QED BY <2>2, <2>3, <2>4 DEF Child
<1>2. buf'[f] = buf[f]
  <2>1. CASE Turn(p)
    BY <2>1 DEF Turn, Look, Compare, Deregister, Prepare, Draw, Seal, ReadNothing, Settings
  <2>2. CASE Feed(p)
    BY <2>2 DEF Feed, Arrive, Store0, Store1, Store2, Check, Mark, Archive, Leave, TypeOK, Procs
  <2>3. CASE View(p)
    BY <2>3 DEF View, Request, Copy0, Copy1, Copy2, Send, TypeOK, Procs
  <2> QED BY <2>1, <2>2, <2>3 DEF Child
<1> QED BY <1>1, <1>2

\* The check is kept by the camera's child (JC_MSG_IMAGE).
LEMMA FeederChecks ==
  ASSUME TypeOK, NEW f \in Feeders, Checked(f), Child(f)
  PROVE  Checked(f)'
<1>1. f \in Procs /\ f \notin Viewers /\ buf[f] \in Image
  BY DEF Procs, TypeOK
<1>2. \A l : Goto(f, l) => pc'[f] = l
  BY <1>1 DEF Goto, TypeOK
<1>3. CASE Check(f)
  <2> DEFINE m == ForceUncrypted(buf[f])
  <2>1. m \in Image /\ m.hdr.crc = buf[f].hdr.crc
    BY <1>1, Forced
  <2> HIDE DEF m
  <2>2. CASE DoCrc /\ buf[f].hdr.crc # NoCrc
    <3>1. CASE CrcOk(m)
      <4>1. buf'[f] = m
        BY <1>1, <1>3, <2>2, <3>1 DEF Check, m, TypeOK
      <4> QED BY <3>1, <4>1 DEF Checked, CrcOk, Picture
    <3>2. CASE ~CrcOk(m)
      <4>1. pc'[f] = "loop"
        BY <1>2, <1>3, <2>2, <3>2 DEF Check, m
      <4> QED BY <4>1 DEF Checked
    <3> QED BY <3>1, <3>2
  <2>3. CASE ~(DoCrc /\ buf[f].hdr.crc # NoCrc)
    <3>1. buf' = buf
      BY <1>3, <2>3 DEF Check
    <3> QED BY <2>3, <3>1 DEF Checked
  <2> QED BY <2>2, <2>3
<1>4. CASE Mark(f)
  <2>1. buf' = buf /\ pc[f] = "mark"
    BY <1>4 DEF Mark
  <2> QED BY <2>1 DEF Checked, CrcOk, Picture
<1>5. CASE Turn(f)
  <2>1. \E l \in {"clocked", "read", "deregister", "loop", "prepare", "draw", "seal"} : Goto(f, l)
    BY <1>5 DEF Turn, Look, Compare, Deregister, Prepare, Draw, Seal, ReadNothing, Settings
  <2>2. pc'[f] \notin {"mark", "archive"}
    BY <1>2, <2>1
  <2> QED BY <2>2 DEF Checked
<1>6. CASE Arrive(f) \/ Store0(f) \/ Store1(f) \/ Store2(f) \/ Archive(f) \/ Leave(f)
  <2>1. \E l \in {"store0", "store1", "store2", "check", "loop", "deregister"} : Goto(f, l)
    BY <1>6 DEF Arrive, Store0, Store1, Store2, Archive, Leave
  <2>2. pc'[f] \notin {"mark", "archive"}
    BY <1>2, <2>1
  <2> QED BY <2>2 DEF Checked
<1> QED BY <1>1, <1>3, <1>4, <1>5, <1>6 DEF Child, Feed

\* A picture that was sent with a CRC reaches the archive only if it is whole and of
\* one frame, for any children that read, write and drop it meanwhile (rc_crc32).
THEOREM ArchiveIsWhole == Spec => []ArchivedIsWhole
<1> DEFINE AllChecked == \A f \in Feeders : Checked(f)
<1>1. Init => TypeOK /\ AllChecked
  BY InitType DEF Init, Checked, Procs
<1>2. TypeOK /\ AllChecked /\ [Next]_vars => (TypeOK /\ AllChecked)'
  <2>1. ASSUME TypeOK, AllChecked, [Next]_vars, NEW f \in Feeders PROVE Checked(f)'
    <3>1. ASSUME NEW p \in Procs, Child(p) PROVE Checked(f)'
      <4>1. CASE p = f
        BY <2>1, <3>1, <4>1, FeederChecks
      <4>2. CASE p # f
        <5>1. pc'[f] = pc[f] /\ buf'[f] = buf[f]
          BY <2>1, <3>1, <4>2, OthersLeaveIt
        <5> QED BY <2>1, <5>1 DEF Checked, CrcOk, Picture
      <4> QED BY <4>1, <4>2
    <3>2. CASE Tick \/ UNCHANGED vars
      BY <2>1, <3>2 DEF Tick, vars, locals, Checked, CrcOk, Picture
    <3> QED BY <2>1, <3>1, <3>2 DEF Next
  <2> QED BY <2>1, NextType
<1>3. TypeOK /\ AllChecked => ArchivedIsWhole
  BY DEF ArchivedIsWhole, Checked, CrcOk, Archived, Picture
<1> QED BY <1>1, <1>2, <1>3, PTL DEF Spec

=============================================================================
