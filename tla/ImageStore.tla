----------------------------- MODULE ImageStore -----------------------------
(***************************************************************************)
(* One picture in the server's shared memory, jcsm->ci[img][cam], and the     *)
(* children that write it and read it: a camera's child stores what it        *)
(* receives, any child may draw the test card, a viewer's child copies the     *)
(* picture out and sends it.  The calls that should lock the picture return    *)
(* at once, so a copy is as many steps as memcpy takes.                       *)
(*                                                                          *)
(* A picture is a header and two pieces of compressed data.  A piece is the   *)
(* number of the frame it comes from, scrambled or clear; 0 is the test card. *)
(* jcam_crypt_buf is its own inverse.  The CRC of a picture is the frame it   *)
(* was computed over.                                                        *)
(*                                                                          *)
(* Time is the age of the picture's timestamp, which is what timeout_cameras  *)
(* looks at; every child runs it in every turn of its loop.                   *)
(***************************************************************************)
EXTENDS Integers, Sequences

CONSTANTS
  Feeders,     \* children that serve a camera which sends this picture
  Viewers,     \* children that serve a viewer which asks for it
  DoCrc,       \* jcsm->se.docrc
  Limit,       \* age a camera's picture may reach: 5000 ms
  MaxFrames,   \* bound: pictures the cameras send
  MaxCards     \* bound: test cards drawn for another reason than a timeout

Procs == Feeders \cup Viewers

ASSUME ImageAssumption ==
  /\ Feeders \cap Viewers = {}
  /\ DoCrc \in BOOLEAN
  /\ Limit \in Nat /\ MaxFrames \in Nat /\ MaxCards \in Nat

Card == 0
Junk == MaxFrames + 1
NoCrc == -1
Frames == 1..MaxFrames

Piece == [of : 0..Junk, enc : BOOLEAN]
Header == [size : 0..2, crypted : BOOLEAN, crc : {NoCrc} \cup Frames]
Image == [hdr : Header, body : [1..2 -> Piece]]

VARIABLES
  slot,      \* jcsm->ci[img][cam]
  age,       \* of slot's timestamp, up to Limit + 1
  active,    \* senss.sensor_active[JC_SENSTYPE_CAMERA][cam]
  pc,        \* where each child is
  buf,       \* a child's picture: msgbuffer of a feeder, csi of a viewer
  len,       \* bytes of data jc_image_copy set out to copy
  late,      \* children whose clock was read before the last timestamp
  solo,      \* writers no other writer overlapped so far
  last,      \* the last picture written whole, <<>> when two were mixed
  expect,    \* what a viewer would read, were it reading alone; <<>> if unknown
  frames, cards

store == <<slot, age, solo, last>>
locals == <<pc, buf, len, late>>
vars == <<store, active, locals, expect, frames, cards>>

-----------------------------------------------------------------------------
(* Pictures.                                                                *)

Blank == [hdr |-> [size |-> 0, crypted |-> FALSE, crc |-> NoCrc],
          body |-> [i \in 1..2 |-> [of |-> Junk, enc |-> FALSE]]]

CardImage == [hdr |-> [Blank.hdr EXCEPT !.size = 1],
              body |-> [Blank.body EXCEPT ![1] = [of |-> Card, enc |-> FALSE]]]

\* jcam_crypt_buf, over cbytes.
Turned(m, i) == IF i <= m.hdr.size THEN [m.body[i] EXCEPT !.enc = ~@] ELSE m.body[i]

Crypt(m) == [hdr |-> [m.hdr EXCEPT !.crypted = ~@], body |-> [i \in 1..2 |-> Turned(m, i)]]

ForceCrypted(m) == IF m.hdr.crypted THEN m ELSE Crypt(m)
ForceUncrypted(m) == IF m.hdr.crypted THEN Crypt(m) ELSE m

\* What a decoder makes of the data as it lies there.
Picture(m) == [i \in 1..m.hdr.size |-> IF m.body[i].enc THEN Junk ELSE m.body[i].of]

\* rc_crc32 agrees with the CRC that came along.
CrcOk(m) == \A i \in 1..m.hdr.size : Picture(m)[i] = m.hdr.crc

\* Mutant: the CRC is that of the next frame.
SentNextCrc(f, size, crc, whole) ==
  [hdr |-> [size |-> size, crypted |-> TRUE, crc |-> IF crc THEN f + 1 ELSE NoCrc],
   body |-> [i \in 1..2 |-> [of |-> IF i < size \/ (i = size /\ whole) THEN f ELSE Junk,
                             enc |-> TRUE]]]

\* A picture as a camera sends it: always scrambled, with a CRC if its settings
\* say so.  What was lost on the way leaves the rest of the data useless.
Sent(f, size, crc, whole) ==
  [hdr |-> [size |-> size, crypted |-> TRUE, crc |-> IF crc THEN f ELSE NoCrc],
   body |-> [i \in 1..2 |-> [of |-> IF i < size \/ (i = size /\ whole) THEN f ELSE Junk,
                             enc |-> TRUE]]]

Init ==
  /\ slot = CardImage
  /\ age = 0
  /\ active = FALSE
  /\ pc = [p \in Procs |-> "loop"]
  /\ buf = [p \in Procs |-> Blank]
  /\ len = [p \in Procs |-> 0]
  /\ late = {}
  /\ solo = {}
  /\ last = Picture(CardImage)
  /\ expect = [v \in Viewers |-> <<>>]
  /\ frames = 0 /\ cards = 0

-----------------------------------------------------------------------------
(* Who is in the middle of what.                                            *)

WritingAt == {"store1", "store2", "draw", "seal"}
ReadingAt == {"copy0", "copy1", "copy2"}
Writing(p) == pc[p] \in WritingAt
Reading(p) == pc[p] \in ReadingAt

\* From the arrival of a picture until the camera is marked active for it.
Storing(f) == pc[f] \in {"store0", "store1", "store2", "check", "mark"}

Goto(p, l) == pc' = [pc EXCEPT ![p] = l]

\* Bookkeeping of a write's first step, of those between, and of its last.
Disturb == expect' = [v \in Viewers |-> IF Reading(v) THEN <<>> ELSE expect[v]]
Begin(p) ==
  /\ solo' = IF \E q \in Procs \ {p} : Writing(q) THEN {} ELSE {p}
  /\ Disturb /\ UNCHANGED last
Continue == Disturb /\ UNCHANGED <<solo, last>>
Finish(p, pic) ==
  /\ last' = IF p \in solo THEN pic ELSE <<>>
  /\ solo' = solo \ {p}
  /\ Disturb

\* A new timestamp: whoever has read the clock already finds it in the future.
Stamp == age' = 0 /\ late' = {p \in Procs : pc[p] = "clocked"}
NoStamp == UNCHANGED <<age, late>>

-----------------------------------------------------------------------------
(* A turn of jc_server: timeout_cameras, then at most one message.          *)

Look(p) ==
  /\ pc[p] = "loop"
  /\ Goto(p, IF active THEN "clocked" ELSE "read")
  /\ late' = late \ {p}
  /\ UNCHANGED <<store, active, buf, len, expect, frames, cards>>

\* Mutant: a camera is dropped only when its picture is exactly too old.
ExpiredOnce(p) == age = Limit /\ p \notin late

\* ct - timestamp is unsigned: a timestamp in the future is very old.
Expired(p) == age > Limit \/ p \in late

\* The new timestamp may also be of the same millisecond as the clock read.
Compare(p) ==
  /\ pc[p] = "clocked"
  /\ \/ Expired(p) /\ Goto(p, "deregister")
     \/ (~Expired(p) \/ p \in late) /\ Goto(p, "read")
  /\ UNCHANGED <<store, active, buf, len, late, expect, frames, cards>>

\* deregister_cam: the camera is inactive, then the test card is drawn.
Deregister(p) ==
  /\ pc[p] = "deregister"
  /\ active' = FALSE
  /\ Goto(p, "prepare")
  /\ UNCHANGED <<store, buf, len, late, expect, frames, cards>>

\* Mutant: the header is left as it was, but for the size.
PrepareSize == [slot EXCEPT !.hdr.size = 0, !.body[1] = [of |-> Junk, enc |-> FALSE]]

\* jc_image_prepare, by way of jc_init_image.
Prepared == [slot EXCEPT !.hdr = Blank.hdr, !.body[1] = [of |-> Junk, enc |-> FALSE]]

Prepare(p) ==
  /\ pc[p] = "prepare"
  /\ slot' = Prepared
  /\ Goto(p, "draw")
  /\ Begin(p) /\ NoStamp
  /\ UNCHANGED <<active, buf, len, frames, cards>>

Draw(p) ==
  /\ pc[p] = "draw"
  /\ slot' = [slot EXCEPT !.body[1] = CardImage.body[1]]
  /\ Goto(p, "seal")
  /\ Continue /\ NoStamp
  /\ UNCHANGED <<active, buf, len, frames, cards>>

\* The size and the timestamp; the turn goes on with the next message.
Seal(p) ==
  /\ pc[p] = "seal"
  /\ slot' = [slot EXCEPT !.hdr.size = 1]
  /\ Goto(p, "read")
  /\ Finish(p, Picture(CardImage)) /\ Stamp
  /\ UNCHANGED <<active, buf, len, frames, cards>>

ReadNothing(p) ==
  /\ pc[p] = "read"
  /\ Goto(p, "loop")
  /\ UNCHANGED <<store, active, buf, len, late, expect, frames, cards>>

\* JC_MSG_CAMERASETTINGS, from anyone about any camera: all test cards are drawn.
Settings(p) ==
  /\ pc[p] = "read" /\ cards < MaxCards
  /\ cards' = cards + 1
  /\ Goto(p, "prepare")
  /\ UNCHANGED <<store, active, buf, len, late, expect, frames>>

\* The camera is gone: its child deregisters it and exits.
Leave(f) ==
  /\ pc[f] = "read" /\ cards < MaxCards
  /\ cards' = cards + 1
  /\ Goto(f, "deregister")
  /\ UNCHANGED <<store, active, buf, len, late, expect, frames>>

-----------------------------------------------------------------------------
(* JC_MSG_IMAGE: a picture arrives from the camera.                         *)

Arrive(f) ==
  /\ pc[f] = "read" /\ frames < MaxFrames
  /\ frames' = frames + 1
  /\ \E size \in 1..2, crc, whole \in BOOLEAN :
       buf' = [buf EXCEPT ![f] = Sent(frames + 1, size, crc, whole)]
  /\ Goto(f, "store0")
  /\ UNCHANGED <<store, active, len, late, expect, cards>>

\* jc_image_copy to shared memory: header, then as much data as the header says.
Store0(f) ==
  /\ pc[f] = "store0"
  /\ slot' = [slot EXCEPT !.hdr = buf[f].hdr]
  /\ Goto(f, "store1")
  /\ Begin(f) /\ Stamp
  /\ UNCHANGED <<active, buf, len, frames, cards>>

\* What the picture is, once the data is decrypted.
Received(f) == Picture(ForceUncrypted(buf[f]))

Store1(f) ==
  /\ pc[f] = "store1"
  /\ slot' = [slot EXCEPT !.body[1] = buf[f].body[1]]
  /\ IF buf[f].hdr.size = 1 THEN Goto(f, "check") /\ Finish(f, Received(f))
                            ELSE Goto(f, "store2") /\ Continue
  /\ NoStamp
  /\ UNCHANGED <<active, buf, len, frames, cards>>

Store2(f) ==
  /\ pc[f] = "store2"
  /\ slot' = [slot EXCEPT !.body[2] = buf[f].body[2]]
  /\ Goto(f, "check")
  /\ Finish(f, Received(f)) /\ NoStamp
  /\ UNCHANGED <<active, buf, len, frames, cards>>

\* The CRC is checked, if both sides use one, on a picture already published; a
\* failure drops the picture here.
Check(f) ==
  /\ pc[f] = "check"
  /\ IF DoCrc /\ buf[f].hdr.crc # NoCrc
       THEN LET m == ForceUncrypted(buf[f]) IN
            IF CrcOk(m) THEN buf' = [buf EXCEPT ![f] = m] /\ Goto(f, "mark")
                        ELSE buf' = [buf EXCEPT ![f] = Blank] /\ Goto(f, "loop")
       ELSE Goto(f, "mark") /\ UNCHANGED buf
  /\ UNCHANGED <<store, active, len, late, expect, frames, cards>>

Mark(f) ==
  /\ pc[f] = "mark"
  /\ active' = TRUE
  /\ Goto(f, "archive")
  /\ UNCHANGED <<store, buf, len, late, expect, frames, cards>>

\* Mutant: the archiver takes the picture from shared memory.
ArchiveFromStore(f) == Picture(ForceUncrypted(slot))

\* What jc_archiver_add_image writes: the data of the message, as it is by now.
Archived(f) == Picture(buf[f])

\* The message is dead once the archiver returns.
Archive(f) ==
  /\ pc[f] = "archive"
  /\ buf' = [buf EXCEPT ![f] = Blank]
  /\ Goto(f, "loop")
  /\ UNCHANGED <<store, active, len, late, expect, frames, cards>>

-----------------------------------------------------------------------------
(* JC_REQ_IMAGE: a viewer asks for the picture.                             *)

\* jc_image_copy takes the length from the source before it copies anything.
Request(v) ==
  /\ pc[v] = "read"
  /\ len' = [len EXCEPT ![v] = slot.hdr.size]
  /\ expect' = [expect EXCEPT ![v] = IF \E p \in Procs : Writing(p) THEN <<>> ELSE last]
  /\ Goto(v, "copy0")
  /\ UNCHANGED <<store, active, buf, late, frames, cards>>

Copy0(v) ==
  /\ pc[v] = "copy0"
  /\ buf' = [buf EXCEPT ![v] = [Blank EXCEPT !.hdr = slot.hdr]]
  /\ Goto(v, IF len[v] = 0 THEN "send" ELSE "copy1")
  /\ UNCHANGED <<store, active, len, late, expect, frames, cards>>

Copy1(v) ==
  /\ pc[v] = "copy1"
  /\ buf' = [buf EXCEPT ![v].body[1] = slot.body[1]]
  /\ Goto(v, IF len[v] = 1 THEN "send" ELSE "copy2")
  /\ UNCHANGED <<store, active, len, late, expect, frames, cards>>

Copy2(v) ==
  /\ pc[v] = "copy2"
  /\ buf' = [buf EXCEPT ![v].body[2] = slot.body[2]]
  /\ Goto(v, "send")
  /\ UNCHANGED <<store, active, len, late, expect, frames, cards>>

\* jc_msg_image sends the picture scrambled, with a CRC of its own making if the
\* server uses one.
OnTheWire(m) == ForceCrypted(IF DoCrc THEN ForceUncrypted(m) ELSE m)

\* The viewer decrypts it; its CRC check passes whatever was copied.
Shown(v) == Picture(ForceUncrypted(OnTheWire(buf[v])))

Send(v) ==
  /\ pc[v] = "send"
  /\ buf' = [buf EXCEPT ![v] = Blank]
  /\ len' = [len EXCEPT ![v] = 0]
  /\ expect' = [expect EXCEPT ![v] = <<>>]
  /\ Goto(v, "loop")
  /\ UNCHANGED <<store, active, late, frames, cards>>

Tick ==
  /\ age <= Limit
  /\ age' = age + 1
  /\ UNCHANGED <<slot, solo, last, active, locals, expect, frames, cards>>

-----------------------------------------------------------------------------
Turn(p) == Look(p) \/ Compare(p) \/ Deregister(p) \/ Prepare(p) \/ Draw(p) \/ Seal(p)
             \/ ReadNothing(p) \/ Settings(p)
Feed(f) == Arrive(f) \/ Store0(f) \/ Store1(f) \/ Store2(f) \/ Check(f) \/ Mark(f)
             \/ Archive(f) \/ Leave(f)
View(v) == Request(v) \/ Copy0(v) \/ Copy1(v) \/ Copy2(v) \/ Send(v)

Child(p) == Turn(p) \/ (p \in Feeders /\ Feed(p)) \/ (p \in Viewers /\ View(p))

Next == (\E p \in Procs : Child(p)) \/ Tick

Spec == Init /\ [][Next]_vars

\* The children run, and time passes.
FairSpec == Spec /\ (\A p \in Procs : WF_vars(Child(p))) /\ WF_vars(Tick)

-----------------------------------------------------------------------------
(* What makes it correct.                                                   *)

Pictures == UNION {[1..n -> 0..Junk] : n \in 0..2}

\* Every variable has its type (struct jcamsys_image and the children's locals).
TypeOK ==
  /\ slot \in Image /\ age \in 0..(Limit + 1) /\ active \in BOOLEAN
  /\ pc \in [Procs -> {"loop", "clocked", "deregister", "prepare", "draw", "seal", "read",
                       "store0", "store1", "store2", "check", "mark", "archive",
                       "copy0", "copy1", "copy2", "send"}]
  /\ buf \in [Procs -> Image] /\ len \in [Procs -> 0..2] /\ late \subseteq Procs
  /\ solo \subseteq Procs /\ last \in Pictures /\ expect \in [Viewers -> Pictures]
  /\ frames \in 0..MaxFrames /\ cards \in 0..MaxCards

\* The picture is a safe register: a copy that no write overlapped gives the
\* viewer exactly the picture that was written last, unscrambled, whoever wrote
\* it and however often it was encrypted and decrypted on the way.
SafeRegister ==
  \A v \in Viewers : pc[v] = "send" /\ expect[v] # <<>> => Shown(v) = expect[v]

\* A picture that was sent with a CRC reaches the archive only if it is whole and
\* of one frame, however the shared picture was torn meanwhile.
ArchivedIsWhole ==
  \A f \in Feeders :
    DoCrc /\ pc[f] = "archive" /\ buf[f].hdr.crc # NoCrc
      => \A i \in DOMAIN Archived(f) : Archived(f)[i] = buf[f].hdr.crc

\* No viewer is shown a mixture of two pictures ("grab lock").
NeverTorn ==
  \A v \in Viewers : pc[v] = "send" =>
    \A i, j \in DOMAIN Shown(v) :
      Junk \in {Shown(v)[i], Shown(v)[j]} \/ Shown(v)[i] = Shown(v)[j]

\* A camera that sends no more is marked inactive for good, whatever the
\* children were doing when it stopped, as long as they run.
GoneIsNoticed == <>[](\A f \in Feeders : ~Storing(f)) => <>[]~active

=============================================================================
