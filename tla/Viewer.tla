------------------------------- MODULE Viewer -------------------------------
(***************************************************************************)
(* A viewer and the child of the server that serves it: what each holds of   *)
(* the selected camera, the two directions of the connection between them,   *)
(* and the viewer's slave process that decodes pictures.                     *)
(*                                                                          *)
(* A picture is a camera and a version.  The versions stand for the frame     *)
(* number of ci[IFULL][cam].  Its data follows the number into shared memory, *)
(* and out of it, with no lock that works: a copy that a store overlapped     *)
(* bears the number it found first and is torn, that is, it may be a mixture. *)
(* Each direction holds a bounded number of messages; a writer that finds its *)
(* direction full stays in jc_sockwrite.                                     *)
(***************************************************************************)
EXTENDS Integers, Sequences, FiniteSets

CONSTANTS
  Cams,        \* the cameras the viewer has buttons for
  FirstCam,    \* the one selected at the start: 1, or as -not says
  None,        \* no camera
  RoomUp,      \* what the direction to the server holds
  RoomDown,    \* what the direction to the viewer holds
  MaxEvents    \* bound: pictures stored, cameras selected and things that go wrong

ASSUME ViewerAssumption ==
  /\ FirstCam \in Cams /\ None \notin Cams
  /\ RoomUp \in Nat \ {0} /\ RoomDown \in Nat \ {0}
  /\ MaxEvents \in Nat

Ver == 0..MaxEvents
Picture == [cam : Cams \cup {None}, ver : Ver, whole : BOOLEAN, torn : BOOLEAN]
Blank == [cam |-> None, ver |-> 0, whole |-> TRUE, torn |-> FALSE]

\* A message is "latest" if its number is sent_reqid: the last request, and the
\* answer to it.
Message ==
  [kind : {"mask", "request", "frame", "image", "debris"}, cam : Cams \cup {None},
   ver : Ver, latest : BOOLEAN, good : BOOLEAN, torn : BOOLEAN]
Msg(k, c, n, latest) ==
  [kind |-> k, cam |-> c, ver |-> n, latest |-> latest, good |-> TRUE, torn |-> FALSE]

\* What follows a header that was dropped, or a payload written twice.
Debris == [Msg("debris", None, 0, FALSE) EXCEPT !.good = FALSE]

VARIABLES
  ver,        \* the frame number of the picture the server holds of each camera
  storing,    \* the cameras whose frame number is stored and whose data is not
  mask,       \* mm of the child: the camera whose frame numbers it reports
  moved,      \* the cameras whose frame number differs from pframe_number
  scanned,    \* the child has done the first half of its turn
  reply,      \* what the child is writing, or the answer it is copying
  copy,       \* jc_image_copy to the child: "no", or whether a store overlapped it,
              \* "torn", or not, "clean"
  up, down,   \* what lies in the two directions
  link,       \* fdsock: "none" (-1), "live", or "dead" when the child is gone
  running,    \* state = JC_CSTATE_RUNNING
  asleep,     \* how many jc_events further out are in formsleep
  mid,        \* jcam_read_message is in a payload ("part"); of an earlier link ("skew")
  selected, completed,
  old,        \* more than a second since image_received_time
  out,        \* what the viewer is writing
  waiting,    \* the viewer is in reload_image
  donow,      \* shared with the slave: decode what im holds
  slave,
  work,       \* the picture it decodes or decoded last: im, then rgb
  shown,      \* what the window shows
  slipped,    \* ghost: something was lost that only the one-second retry makes good
  forced,     \* ghost: a request was made while one was out, on this connection
  events

child == <<mask, moved, scanned, reply, copy>>
conn == <<link, running, asleep>>
view == <<selected, completed, old, out, waiting, mid>>
decoder == <<donow, slave, work, shown>>
marks == <<slipped, forced>>
vars == <<ver, storing, child, up, down, conn, view, decoder, marks, events>>

Init ==
  /\ ver = [c \in Cams |-> 0] /\ storing = {}
  /\ mask = None /\ moved = {} /\ scanned = FALSE /\ reply = <<>> /\ copy = "no"
  /\ up = <<>> /\ down = <<>>
  /\ link = "none" /\ running = FALSE /\ asleep = 0
  /\ selected = FirstCam /\ completed = TRUE /\ old = TRUE
  /\ out = <<>> /\ waiting = FALSE /\ mid = "no"
  /\ donow = FALSE
  /\ slave = "idle" /\ work = Blank /\ shown = Blank
  /\ slipped = FALSE /\ forced = FALSE
  /\ events = 0

Event == events < MaxEvents /\ events' = events + 1

\* Mutant: a header is written whether or not there is room.
FitsAll(q, room, ms) == Len(ms)

\* Writing: what fits goes, the writer stays with the rest.
Fits(q, room, ms) == IF Len(ms) < room - Len(q) THEN Len(ms) ELSE room - Len(q)
Sent(q, room, ms) == q \o SubSeq(ms, 1, Fits(q, room, ms))
Unsent(q, room, ms) == SubSeq(ms, Fits(q, room, ms) + 1, Len(ms))

Retired(q) == [i \in DOMAIN q |-> [q[i] EXCEPT !.latest = FALSE]]
Outstanding == {i \in DOMAIN up : up[i].kind = "request"} # {}
               \/ {i \in DOMAIN reply : reply[i].kind = "image"} # {}
               \/ {i \in DOMAIN down : down[i].kind = "image"} # {}

-----------------------------------------------------------------------------
(* The server: a camera's child stores pictures, the viewer's child serves.  *)

\* jc_image_copy to shared memory writes the header, with the frame number in it,
\* before the data.
Store(c) ==
  /\ c \notin storing /\ Event
  /\ ver' = [ver EXCEPT ![c] = @ + 1]
  /\ storing' = storing \cup {c}
  /\ moved' = IF link = "live" THEN moved \cup {c} ELSE moved
  /\ copy' = IF copy # "no" /\ Head(reply).cam = c THEN "torn" ELSE copy
  /\ UNCHANGED <<mask, scanned, reply, up, down, conn, view, decoder, marks>>

StoreEnd(c) ==
  /\ c \in storing
  /\ storing' = storing \ {c}
  /\ UNCHANGED <<ver, child, up, down, conn, view, decoder, marks, events>>

ChildWrites(ms) ==
  /\ down' = Sent(down, RoomDown, ms)
  /\ reply' = Unsent(down, RoomDown, ms)

\* The first half of a turn: every frame number is remembered, that of the
\* camera in the mask is reported.
Scan ==
  /\ link = "live" /\ ~scanned /\ reply = <<>>
  /\ scanned' = TRUE
  /\ moved' = {}
  /\ ChildWrites(IF mask \in moved THEN <<Msg("frame", mask, 0, FALSE)>> ELSE <<>>)
  /\ UNCHANGED <<ver, storing, mask, copy, up, conn, view, decoder, marks, events>>

Answer(m) == <<Msg("image", m.cam, ver[m.cam], m.latest)>>

\* The second half: one message is read, if there is one.  Debris is drained with
\* all that lies behind it.  The answer to a request is copied, the header first.
Serve ==
  /\ link = "live" /\ scanned /\ reply = <<>>
  /\ scanned' = FALSE
  /\ IF up = <<>> THEN UNCHANGED <<mask, reply, copy, up>>
     ELSE LET m == Head(up) IN
       /\ up' = IF m.kind = "debris" THEN <<>> ELSE Tail(up)
       /\ mask' = IF m.kind = "mask" THEN m.cam ELSE mask
       /\ IF m.kind # "request" THEN UNCHANGED <<reply, copy>>
          ELSE reply' = Answer(m) /\ copy' = IF m.cam \in storing THEN "torn" ELSE "clean"
  /\ UNCHANGED <<ver, storing, moved, down, conn, view, decoder, marks, events>>

\* The copy is complete: its CRC is computed and it is written.
CopyEnd ==
  /\ link = "live" /\ copy # "no"
  /\ ChildWrites(<<[Head(reply) EXCEPT !.torn = (copy = "torn")]>>)
  /\ copy' = "no"
  /\ UNCHANGED <<ver, storing, mask, moved, scanned, up, conn, view, decoder, marks,
                 events>>

\* jc_sockwrite goes on.
ChildFlush ==
  /\ link = "live" /\ reply # <<>> /\ copy = "no" /\ Len(down) < RoomDown
  /\ ChildWrites(reply)
  /\ UNCHANGED <<ver, storing, mask, moved, scanned, copy, up, conn, view, decoder,
                 marks, events>>

\* A full direction: the header is dropped and its payload written, or a payload
\* is written in part and then again from its beginning.
ChildSpoils ==
  /\ link = "live" /\ reply # <<>> /\ copy = "no" /\ Len(down) = RoomDown /\ Head(reply).good
  /\ Event
  /\ \/ reply' = <<Debris>>
     \/ /\ Head(reply).kind = "image"
        /\ reply' = <<[Head(reply) EXCEPT !.good = FALSE], Debris>>
  /\ slipped' = TRUE
  /\ UNCHANGED <<ver, storing, mask, moved, scanned, copy, up, down, conn, view, decoder,
                 forced>>

\* pframe_number is never initialised, and lives on the stack between turns; and a
\* frame number may come back to what it was.
Clobber(c) ==
  /\ link = "live"
  /\ Event
  /\ moved' = IF c \in moved THEN moved \ {c} ELSE moved \cup {c}
  /\ slipped' = (slipped \/ c \in moved)
  /\ UNCHANGED <<ver, storing, mask, scanned, reply, copy, up, down, conn, view, decoder,
                 forced>>

-----------------------------------------------------------------------------
(* The viewer: one turn of jc_events reads a message or nothing, and then     *)
(* looks at the clock and at the slave.                                      *)

Turn == running /\ ~waiting /\ out = <<>>

\* Messages are written to a connection; with a new request all earlier ones are of
\* the past.
Writes(ms, new) ==
  LET q == IF new THEN Retired(up) ELSE up IN
  IF link = "live" THEN up' = Sent(q, RoomUp, ms) /\ out' = Unsent(q, RoomUp, ms)
                   ELSE up' = q /\ out' = ms

\* n requests are written, the last of them becoming sent_reqid; rest is what is
\* left to read.  One number in 65536 is 0, which the child replaces by its own.
Ask(n, rest) ==
  /\ \E wrapped \in {FALSE, n > 0 /\ events < MaxEvents} :
       /\ Writes([i \in 1..n |-> Msg("request", selected, 0, i = n /\ ~wrapped)], n > 0)
       /\ events' = IF wrapped THEN events + 1 ELSE events
       /\ slipped' = (slipped \/ wrapped)
  /\ reply' = IF n > 0 THEN Retired(reply) ELSE reply
  /\ down' = IF n > 0 THEN Retired(rest) ELSE rest

\* Mutant: a second without a picture does not mark the request complete.
EndTurnPatient(ask, done, rest) ==
  LET again == ask \/ (old /\ done) IN
  /\ Ask(IF again THEN 1 ELSE 0, rest)
  /\ completed' = (done /\ ~again)
  /\ UNCHANGED forced

\* The end of a turn: ask tells that the message made the viewer ask, done is what
\* it left in completed.  After a second without a picture the viewer asks again,
\* on every turn until one arrives.
EndTurn(ask, done, rest) ==
  LET n == (IF ask THEN 1 ELSE 0) + (IF old THEN 1 ELSE 0) IN
  /\ Ask(n, rest)
  /\ completed' = (done /\ n = 0)
  /\ forced' = (forced \/ n = 2 \/ (old /\ Outstanding))

\* A slave that died is started again.
LookAtSlave ==
  /\ slave' = IF slave = "dead" THEN "idle" ELSE slave
  /\ donow' = (donow /\ slave # "dead")

Idle == <<ver, storing, mask, moved, scanned, copy, conn, selected, waiting, work, shown>>

\* Mutant: the viewer asks on every turn, answered or not.
ReadNothingPolling ==
  /\ Turn /\ (link = "live" \/ (link = "dead" /\ down # <<>>))
  /\ mid' = IF down # <<>> /\ mid = "no" THEN "part" ELSE mid
  /\ EndTurn(TRUE, completed, down)
  /\ LookAtSlave
  /\ UNCHANGED <<Idle, old>>

\* Nothing, or a part of a payload that the next turns go on with.
ReadNothing ==
  /\ Turn /\ (link = "live" \/ (link = "dead" /\ down # <<>>))
  /\ mid' = IF down # <<>> /\ mid = "no" THEN "part" ELSE mid
  /\ old \/ slave = "dead" \/ mid' # mid
  /\ EndTurn(FALSE, completed, down)
  /\ LookAtSlave
  /\ UNCHANGED <<Idle, old>>

Reads(kind) ==
  /\ Turn /\ link # "none" /\ mid # "skew"
  /\ down # <<>> /\ Head(down).kind = kind
  /\ mid' = "no"

\* The selected camera has a new picture: the viewer asks for it, if it waits for none.
ReadFrame ==
  /\ Reads("frame")
  /\ EndTurn(completed /\ Head(down).cam = selected, completed, Tail(down))
  /\ LookAtSlave
  /\ UNCHANGED <<Idle, old>>

\* Bad magic: all that can be read is thrown away.
ReadDebris ==
  /\ Reads("debris")
  /\ EndTurn(FALSE, completed, <<>>)
  /\ LookAtSlave
  /\ UNCHANGED <<Idle, old>>

\* The reader still wants the rest of a payload of an earlier connection: it takes
\* what comes for it, and finds bad magic next.
ReadSkewed ==
  /\ Turn /\ link # "none" /\ mid = "skew" /\ down # <<>>
  /\ mid' = "no"
  /\ \/ EndTurn(FALSE, completed, <<>>) /\ old' = old
     \/ /\ Ask(0, <<>>) /\ completed' = TRUE /\ old' = FALSE
        /\ UNCHANGED forced
  /\ LookAtSlave
  /\ UNCHANGED Idle

\* A picture whose CRC is wrong is not used.
ReadBadImage ==
  /\ Reads("image") /\ ~Head(down).good
  /\ old' = FALSE /\ completed' = TRUE
  /\ Ask(0, Tail(down))
  /\ LookAtSlave
  /\ UNCHANGED <<Idle, forced>>

\* A good one is copied to im, where the slave may be reading, and if it is of the
\* selected camera the viewer waits for it to be decoded.
CopyToSlave(m) ==
  IF slave = "busy" THEN work' \in {work, [work EXCEPT !.whole = FALSE]}
  ELSE work' = [cam |-> m.cam, ver |-> m.ver, whole |-> TRUE, torn |-> m.torn]

GoodImage ==
  /\ Reads("image") /\ Head(down).good
  /\ old' = FALSE
  /\ completed' = (completed \/ Head(down).latest)
  /\ Ask(0, Tail(down))
  /\ UNCHANGED <<ver, storing, mask, moved, scanned, copy, conn, selected, shown, forced>>

\* Mutant: the camera of the picture is not looked at.
ReadImageOfAny ==
  /\ GoodImage
  /\ CopyToSlave(Head(down))
  /\ donow' = TRUE /\ waiting' = TRUE /\ UNCHANGED slave

ReadImage ==
  /\ GoodImage
  /\ IF Head(down).cam = selected
       THEN /\ CopyToSlave(Head(down))
            /\ donow' = TRUE /\ waiting' = TRUE /\ UNCHANGED slave
       ELSE /\ IF donow THEN CopyToSlave(Head(down)) ELSE UNCHANGED work
            /\ LookAtSlave /\ UNCHANGED waiting

\* reload_image: the slave is done, or a second is over and the picture is ignored.
EndWait ==
  /\ waiting' = FALSE
  /\ LookAtSlave
  /\ UNCHANGED <<ver, storing, child, up, down, conn, selected, completed, old, out, mid,
                 work, forced>>

Decoded ==
  /\ waiting /\ ~donow
  /\ shown' = work
  /\ EndWait
  /\ UNCHANGED <<slipped, events>>

DecodedLate ==
  /\ waiting /\ donow
  /\ IF slave = "dead" THEN UNCHANGED events ELSE Event
  /\ slipped' = TRUE
  /\ EndWait
  /\ UNCHANGED shown

-----------------------------------------------------------------------------
(* The slave.                                                               *)

SlaveStart ==
  /\ slave = "idle" /\ donow
  /\ slave' = "busy"
  /\ UNCHANGED <<ver, storing, child, up, down, conn, view, donow, work, shown, marks,
                 events>>

SlaveDone ==
  /\ slave = "busy"
  /\ slave' = "idle" /\ donow' = FALSE
  /\ UNCHANGED <<ver, storing, child, up, down, conn, view, work, shown, marks, events>>

SlaveDies ==
  /\ slave = "busy" /\ Event
  /\ slave' = "dead"
  /\ UNCHANGED <<ver, storing, child, up, down, conn, view, donow, work, shown, marks>>

-----------------------------------------------------------------------------
(* Writing, and the connection.                                             *)

Flush ==
  /\ out # <<>> /\ link = "live" /\ Len(up) < RoomUp
  /\ Writes(out, FALSE)
  /\ UNCHANGED <<ver, storing, child, down, conn, selected, completed, old, waiting, mid,
                 decoder, marks, events>>

\* The header of a request is dropped.
ViewerSpoils ==
  /\ out # <<>> /\ link = "live" /\ Len(up) = RoomUp /\ Head(out).good
  /\ Event
  /\ out' = <<Debris>> \o Tail(out)
  /\ slipped' = TRUE
  /\ UNCHANGED <<ver, storing, child, up, down, conn, selected, completed, old, waiting,
                 mid, decoder, forced>>

\* The other end is gone: a write succeeds once more, or fails.  A request that
\* fails closes the socket and leaves the state at JC_CSTATE_RUNNING; for a mask
\* nobody looks.
WriteToDead ==
  /\ out # <<>> /\ link = "dead"
  /\ \/ out' = Tail(out) /\ UNCHANGED <<link, down>>
     \/ Head(out).kind = "request" /\ out' = <<>> /\ down' = <<>> /\ link' = "none"
  /\ UNCHANGED <<ver, storing, child, up, running, asleep, selected, completed, old,
                 waiting,
                 mid, decoder, marks, events>>

\* End of file.
ReadEnd ==
  /\ Turn /\ link = "dead" /\ down = <<>>
  /\ link' = "none" /\ running' = FALSE /\ mid' = "no"
  /\ completed' = (completed \/ old)
  /\ LookAtSlave
  /\ UNCHANGED <<ver, storing, child, up, down, asleep, selected, old, out, waiting, work,
                  shown, marks, events>>

\* The socket was closed after a failed write.  In a payload every read of it times
\* out, and the viewer stays as it is.
ReadClosed ==
  /\ Turn /\ link = "none" /\ mid = "no"
  /\ running' = FALSE
  /\ completed' = (completed \/ old)
  /\ LookAtSlave
  /\ UNCHANGED <<ver, storing, child, up, down, link, asleep, selected, old, out,
                 waiting, mid,
                 work, shown, marks, events>>

\* No child, or a new one.  What pframe_number holds then makes no difference: the
\* first turn overwrites it before there is a mask.
NewChild ==
  mask' = None /\ moved' = {} /\ scanned' = FALSE /\ reply' = <<>> /\ copy' = "no"

\* The child is gone, with what it had not sent.
Break ==
  /\ link = "live" /\ Event
  /\ link' = "dead"
  /\ \E k \in 0..Len(down) : down' = SubSeq(down, 1, k)
  /\ NewChild /\ up' = <<>>
  /\ UNCHANGED <<ver, storing, running, asleep, view, decoder, marks>>

Connecting == ~running /\ ~waiting /\ out = <<>>

\* Mutant: completed is left as the last connection had it.
FreshIncomplete == old' = TRUE /\ UNCHANGED completed

Fresh == old' = TRUE /\ completed' = TRUE

\* A connection, authenticated.  A socket fdsock still held is forgotten; a picture
\* the slave was given before and has yet to decode is not.
Connect ==
  /\ Connecting
  /\ link' = "live" /\ running' = TRUE
  /\ NewChild /\ down' = <<>>
  /\ up' = <<Msg("mask", selected, 0, FALSE)>>
  /\ Fresh
  /\ mid' = IF mid = "no" THEN "no" ELSE "skew"
  /\ slipped' = (mid # "no" \/ donow) /\ forced' = FALSE
  /\ UNCHANGED <<ver, storing, asleep, selected, out, waiting, decoder, events>>

\* Refused, or not authenticated in time: formsleep, which runs the callbacks of the
\* form and with them jc_events again, which may be refused in turn.
Refuse ==
  /\ Connecting /\ Event
  /\ link' = "none"
  /\ asleep' = asleep + 1
  /\ NewChild /\ up' = <<>> /\ down' = <<>>
  /\ UNCHANGED <<ver, storing, running, view, decoder, marks>>

\* The innermost formsleep is over and sets the state back, whatever was connected
\* meanwhile.
Wake ==
  /\ asleep > 0 /\ ~waiting /\ out = <<>>
  /\ asleep' = asleep - 1 /\ running' = FALSE
  /\ UNCHANGED <<ver, storing, child, up, down, link, view, decoder, marks, events>>

-----------------------------------------------------------------------------
(* The user and the clock.                                                  *)

\* Mutant: the new camera's picture is left to the next frame number.
SelectOnly(c) ==
  /\ ~waiting /\ out = <<>> /\ Event
  /\ selected' = c
  /\ IF link = "none" THEN UNCHANGED <<up, out>>
                      ELSE Writes(<<Msg("mask", c, 0, FALSE)>>, FALSE)
  /\ UNCHANGED <<ver, storing, child, down, conn, completed, old, waiting, mid, decoder,
                 marks>>

\* highlight_button: the mask is sent and the picture asked for, whether or not the
\* last request was answered.
Select(c) ==
  /\ ~waiting /\ out = <<>> /\ Event
  /\ selected' = c
  /\ IF link = "none"
       THEN completed' = TRUE /\ UNCHANGED <<out, up, reply, down, forced>>
       ELSE /\ completed' = FALSE
            /\ Writes(<<Msg("mask", c, 0, FALSE), Msg("request", c, 0, TRUE)>>, TRUE)
            /\ reply' = Retired(reply) /\ down' = Retired(down)
            /\ forced' = (forced \/ Outstanding)
  /\ UNCHANGED <<ver, storing, mask, moved, scanned, copy, conn, old, waiting, mid, decoder,
                 slipped>>

Tick ==
  /\ running /\ ~old
  /\ old' = TRUE
  /\ UNCHANGED <<ver, storing, child, up, down, conn, selected, completed, out, waiting,
                 mid, decoder, marks, events>>

-----------------------------------------------------------------------------
ChildStep == Scan \/ Serve \/ CopyEnd \/ ChildFlush
ReadMessage == ReadFrame \/ ReadDebris \/ ReadSkewed \/ ReadBadImage \/ ReadImage
Wait == Decoded \/ DecodedLate
Slave == SlaveStart \/ SlaveDone
Write == Flush \/ WriteToDead
Reconnect == ReadEnd \/ ReadClosed \/ Connect
ViewerStep == ReadNothing \/ ReadMessage \/ Wait \/ Write \/ Reconnect

Next ==
  \/ \E c \in Cams : Store(c) \/ StoreEnd(c) \/ Clobber(c) \/ Select(c)
  \/ ChildStep \/ ChildSpoils
  \/ ViewerStep \/ ViewerSpoils
  \/ Slave \/ SlaveDies
  \/ Refuse \/ Wake \/ Break
  \/ Tick

Spec == Init /\ [][Next]_vars

\* Every process runs, those of the cameras too.  A payload that arrives in parts is
\* complete after some turns, whatever they write in between, and formsleep counts its
\* rounds.
FairSpec ==
  /\ Spec
  /\ WF_vars(ChildStep) /\ WF_vars(ViewerStep) /\ WF_vars(Slave) /\ WF_vars(Tick)
  /\ SF_vars(ReadMessage) /\ SF_vars(Wake)
  /\ WF_vars(\E c \in Cams : StoreEnd(c))

-----------------------------------------------------------------------------
(* What makes it correct.                                                   *)

\* Every variable has its type (the globals of the viewer and of the child).
TypeOK ==
  /\ ver \in [Cams -> Ver] /\ storing \subseteq Cams /\ copy \in {"no", "clean", "torn"}
  /\ mask \in Cams \cup {None} /\ moved \subseteq Cams /\ scanned \in BOOLEAN
  /\ reply \in Seq(Message) /\ up \in Seq(Message) /\ down \in Seq(Message) /\ out \in Seq(Message)
  /\ Len(reply) <= 2 /\ Len(up) <= RoomUp /\ Len(down) <= RoomDown /\ Len(out) <= 2
  /\ link \in {"none", "live", "dead"} /\ running \in BOOLEAN /\ asleep \in Nat
  /\ mid \in {"no", "part", "skew"}
  /\ selected \in Cams /\ completed \in BOOLEAN /\ old \in BOOLEAN /\ waiting \in BOOLEAN
  /\ work \in Picture /\ shown \in Picture
  /\ donow \in BOOLEAN /\ slave \in {"idle", "busy", "dead"}
  /\ slipped \in BOOLEAN /\ forced \in BOOLEAN
  /\ events \in 0..MaxEvents

LatestIn(q) == Cardinality({i \in DOMAIN q : q[i].latest})

\* completed tells whether an answer is on its way: while nothing slipped, the
\* viewer that waits has exactly one request or answer numbered sent_reqid in
\* flight, and the viewer that does not has none, however many requests the retry
\* and the selection of cameras have added (do_image_request, JC_MSG_IMAGE).
AnswerExpected ==
  running /\ link = "live" /\ ~slipped =>
    LatestIn(out) + LatestIn(up) + LatestIn(reply) + LatestIn(down) = (IF completed THEN 0 ELSE 1)

Rest ==
  /\ link = "live" /\ running /\ completed /\ ~old /\ ~waiting
  /\ up = <<>> /\ down = <<>> /\ reply = <<>> /\ out = <<>>
  /\ selected \notin moved

\* A viewer with nothing to do shows the selected camera's picture under the newest
\* frame number, without the help of the one-second retry, through selections of
\* cameras, reconnections and frame numbers that arrive while a request is out
\* (JC_MSG_FRAME_NUMBER).  That the data belong to the number it cannot know: a copy
\* that a store overlapped may stay in the window until the retry.
CurrentAtRest ==
  Rest /\ ~slipped => shown.cam = selected /\ shown.ver = ver[selected] /\ shown.whole

\* The two ends wait for each other for ever.
Wedged ==
  /\ link = "live" /\ out # <<>> /\ Len(up) = RoomUp
  /\ reply # <<>> /\ copy = "no" /\ Len(down) = RoomDown

\* That takes requests made while one was out: one request at a time never fills
\* both directions (jc_sockwrite, do_image_request).
WedgedByForce == Wedged => forced \/ slipped

\* The viewer that closed its socket in a payload.
Stuck == running /\ link = "none" /\ mid # "no"

\* What appears in the window is a whole picture of the selected camera, unless a
\* decode was given up before (reload_image).
ShowsSelected ==
  [][shown' # shown => (shown'.cam = selected /\ shown'.whole) \/ slipped]_vars

Current == shown = [cam |-> selected, ver |-> ver[selected], whole |-> TRUE, torn |-> FALSE]

\* Once nobody selects and no picture comes, the window ends up showing the newest
\* picture of the selected camera, from a copy that no store overlapped, whatever was
\* lost, unless both ends wait for each other or the socket was closed in a payload
\* (the retry in jc_events).
EventuallyCurrent == <>[](Current \/ Wedged \/ Stuck)

=============================================================================
