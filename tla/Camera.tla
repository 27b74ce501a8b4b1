------------------------------- MODULE Camera -------------------------------
(***************************************************************************)
(* The camera program: one thread that runs the session with the server for  *)
(* ten events (jc_events), sets the capture up again if it must, waits for a *)
(* frame, takes the newest and sends it as pictures.  Around it, the server it*)
(* looks for, the connection, which may break at any step, and the driver,   *)
(* which fills the buffers it is given.                                      *)
(*                                                                           *)
(* A settings record is the camera number, the size asked for and whether    *)
(* pictures are wanted; a frame is the size it was taken at.  The pictures of*)
(* one frame go out together.  SettingsSync says what the server does with the*)
(* records, CameraSlots how it numbers cameras, Scaling how the pictures come*)
(* about.                                                                    *)
(***************************************************************************)
EXTENDS Integers, Sequences

CONSTANTS
  Addrs, None,   \* addresses a server may have
  Numbers,       \* camera numbers it gives out
  Sizes, Usual,  \* picture sizes; the one asked for before any settings arrive
  Grants,        \* sizes the driver may grant when it is asked for one
  Events,        \* jc_events of a turn: 10
  Buffers,       \* buffers the driver grants, at least 2
  MaxTroubles,   \* bound: whatever goes wrong outside the camera
  MaxEdits       \* bound: changes of the camera's record

ASSUME CameraAssumption ==
  /\ None \notin Addrs /\ None \notin Sizes
  /\ Numbers \subseteq Nat \ {0}
  /\ Usual \in Sizes /\ Grants \in [Sizes -> SUBSET Sizes]
  /\ Events \in Nat \ {0} /\ Buffers \in Nat \ {0, 1}
  /\ MaxTroubles \in Nat /\ MaxEdits \in Nat

VARIABLES
  at,         \* of main's loop: "events", "reinit", "select", "frame", "spin", "exit"
  remaining,  \* jc_events still to come this turn
  host,       \* -host, or None
  cstate,     \* JC_CSTATE_...
  ipaddr,     \* stngs.server_ipaddr
  id,         \* is registration.id known
  sendnow, reinit, useyuv,
  jcs,        \* the camera's record
  prequested, \* prequested_width, prequested_height
  fmt,        \* what the driver granted, None before capture_init
  rgb,        \* does the driver deliver RGB24 when asked to
  queued, filled,  \* buffers the driver may fill, and has filled
  link,       \* the connection: "none", "up", "broken"; fdsock > 0 for the last two
  server,     \* where the server is, None while it is down
  number,     \* the camera number of this connection, 0 before registration
  wanted,     \* the record the server holds: [size, on]
  inbox,      \* messages on their way to the camera
  told,       \* the record the server last got on this connection
  pic,        \* the picture the server gets from this frame
  stale,      \* pictures so far that showed an earlier frame
  troubles, edits

session == <<cstate, ipaddr, id, sendnow, jcs>>
capture == <<reinit, useyuv, prequested, fmt>>
driver == <<rgb, queued, filled>>
peer == <<link, inbox, number, told>>
world == <<server, wanted, troubles, edits>>
cameraVars == <<at, remaining, host, session, capture, driver, peer, world, pic, stale>>

Record == [cam : Numbers \cup {0}, size : Sizes, on : BOOLEAN]
SettingsMsg == [type : {"camerasettings"}, rec : [cam : Numbers, size : Sizes, on : BOOLEAN]]
RegisterMsg == [type |-> "register"]

\* What the server heard of a camera it has not heard of.
Nothing == [cam |-> 0, size |-> None, on |-> FALSE]

CameraInit ==
  /\ at = "events" /\ remaining = Events
  /\ host \in Addrs \cup {None} /\ ipaddr = host
  /\ cstate = "initial"
  /\ id \in BOOLEAN
  /\ sendnow = FALSE /\ reinit = TRUE /\ useyuv \in BOOLEAN
  /\ jcs = [cam |-> 0, size |-> Usual, on |-> TRUE]
  /\ prequested = None /\ fmt = None
  /\ rgb \in BOOLEAN /\ queued = 0 /\ filled = 0
  /\ link = "none" /\ inbox = <<>> /\ number = 0 /\ told = Nothing
  /\ server \in Addrs \cup {None}
  /\ wanted = [size |-> Usual, on |-> TRUE]
  /\ pic = None /\ stale = 0
  /\ troubles = 0 /\ edits = 0

-----------------------------------------------------------------------------
(* jc_events: one step of the session.                                       *)

Event(s) ==
  /\ at = "events" /\ remaining > 0 /\ cstate = s
  /\ remaining' = remaining - 1
  /\ pic' = None
  /\ UNCHANGED <<host, capture, driver, stale>>

Exit == at' = "exit"
Stay == UNCHANGED at

\* Something outside goes wrong.
Trouble ==
  /\ troubles < MaxTroubles /\ troubles' = troubles + 1
  /\ UNCHANGED <<server, wanted, edits>>

Initial ==
  /\ Event("initial") /\ Stay
  /\ sendnow' = FALSE
  /\ cstate' = IF host = None THEN "find" ELSE "connect"
  /\ UNCHANGED <<ipaddr, id, jcs, peer, world>>

FindServer ==
  /\ Event("find") /\ Stay /\ server # None
  /\ ipaddr' = server /\ cstate' = "connect"
  /\ UNCHANGED <<id, sendnow, jcs, peer, world>>

\* An error, or no answer: then a pause before it starts again.
FindFails ==
  /\ Event("find") /\ Stay
  /\ (server = None /\ UNCHANGED world) \/ Trouble
  /\ ipaddr' = None /\ cstate' \in {"find", "pause"}
  /\ UNCHANGED <<id, sendnow, jcs, peer>>

\* The pause has a length; it ends in some turn.
Pause ==
  /\ Event("pause") /\ Stay
  /\ cstate' \in {"pause", "initial"}
  /\ UNCHANGED <<ipaddr, id, sendnow, jcs, peer, world>>

\* Connected and authenticated: the camera registers.  Which number it is given
\* is the server's affair.
ConnectAndAuth ==
  /\ Event("connect") /\ Stay /\ server # None /\ ipaddr = server
  /\ cstate' = "running"
  /\ link' = "up"
  /\ UNCHANGED <<ipaddr, id, sendnow, jcs, inbox, number, told, world>>

\* It tries the same address again.
ConnectFails ==
  /\ Event("connect") /\ Stay
  /\ (server # ipaddr /\ UNCHANGED world) \/ Trouble
  /\ UNCHANGED <<session, peer>>

\* A time-out or a hang-up; a wrong password ends the program.
AuthFails ==
  /\ Event("connect") /\ server # None /\ ipaddr = server /\ Trouble
  /\ \/ Stay /\ cstate' = "initial"
     \/ Exit /\ UNCHANGED cstate
  /\ UNCHANGED <<ipaddr, id, sendnow, jcs, peer>>

\* Mutant: the size told is the one asked for.
TellAsked(rec) == told' = IF link = "up" THEN rec ELSE told

\* What the server hears of a record, with the size the driver granted.
Tell(rec) == told' = IF link = "up" THEN [rec EXCEPT !.size = fmt] ELSE told

Take == inbox' = Tail(inbox) /\ UNCHANGED <<link, number, world>>

\* The first record of a session is sent back.
ReadSettings ==
  /\ Event("running") /\ Stay /\ inbox # <<>> /\ Head(inbox).type = "camerasettings"
  /\ jcs' = Head(inbox).rec
  /\ IF sendnow THEN UNCHANGED told ELSE Tell(jcs')
  /\ sendnow' = TRUE
  /\ Take
  /\ UNCHANGED <<cstate, ipaddr, id>>

\* The registration is kept in a file, or the program ends.
ReadRegister ==
  /\ Event("running") /\ inbox # <<>> /\ Head(inbox).type = "register"
  /\ Stay \/ Exit
  /\ id' = TRUE
  /\ Take
  /\ UNCHANGED <<cstate, ipaddr, sendnow, jcs, told>>

ReadNone ==
  /\ Event("running") /\ Stay /\ inbox = <<>> /\ link # "broken"
  /\ UNCHANGED <<session, peer, world>>

\* close(fdsock): the next connection begins with a new registration.
Closed == link' = "none" /\ inbox' = <<>> /\ number' = 0 /\ told' = Nothing

\* Mutant: the socket is closed, and the session goes on.
HangUpUnnoticed ==
  /\ Event("running") /\ Stay /\ inbox = <<>> /\ link = "broken"
  /\ Closed
  /\ UNCHANGED <<session, world>>

HangUp ==
  /\ Event("running") /\ Stay /\ inbox = <<>> /\ link = "broken"
  /\ Closed /\ cstate' = "initial"
  /\ UNCHANGED <<ipaddr, id, sendnow, jcs, world>>

JcEvents ==
  \/ Initial \/ FindServer \/ FindFails \/ Pause
  \/ ConnectAndAuth \/ ConnectFails \/ AuthFails
  \/ ReadSettings \/ ReadRegister \/ ReadNone \/ HangUp

-----------------------------------------------------------------------------
(* Capture.                                                                  *)

\* After the events of a turn.
TurnOver ==
  /\ at = "events" /\ remaining = 0
  /\ at' = "reinit"
  /\ UNCHANGED <<remaining, host, session, capture, driver, peer, world, pic, stale>>

Due == reinit \/ jcs.size # prequested

\* capture_close and capture_init: the driver grants some size, the server is told,
\* and every buffer is queued anew.
Reinit ==
  /\ at = "reinit"
  /\ at' = "select"
  /\ reinit' = FALSE /\ prequested' = jcs.size
  /\ IF Due THEN /\ fmt' \in Grants[jcs.size]
                 /\ told' = IF link = "up" THEN [jcs EXCEPT !.size = fmt'] ELSE told
                 /\ queued' = Buffers /\ filled' = 0
            ELSE UNCHANGED <<fmt, told, queued, filled>>
  /\ UNCHANGED <<remaining, host, session, useyuv, rgb, link, inbox, number, world, pic, stale>>

\* The device fails an ioctl, or gives no frame for two seconds.  Where read_frame
\* looks for the newest frame, a failure other than EAGAIN keeps it there for ever.
DeviceFails ==
  /\ \/ at = "reinit" /\ Due /\ Exit
     \/ at = "select" /\ filled = 0 /\ Exit
     \/ at = "frame" /\ at' = "spin"
  /\ UNCHANGED <<remaining, host, session, capture, driver, peer, world, pic, stale>>

\* Mutant: the answer of select is not looked at.
SelectAny ==
  /\ at = "select"
  /\ at' = "frame"
  /\ UNCHANGED <<remaining, host, session, capture, driver, peer, world, pic, stale>>

\* select returns, read_frame begins.  No signal has a handler to interrupt it.
Select ==
  /\ at = "select" /\ filled > 0
  /\ at' = "frame"
  /\ UNCHANGED <<remaining, host, session, capture, driver, peer, world, pic, stale>>

\* read_frame goes on to the newest frame; the others are not queued again.
Dequeue ==
  /\ at = "frame" /\ filled > 0
  /\ filled' = filled - 1
  /\ UNCHANGED <<at, remaining, host, session, capture, rgb, queued, peer, world, pic, stale>>

\* Mutant: frames are measured in YUV too.
UsableMeasured == rgb

\* A frame of the wrong length is not copied: the picture is made all the same, of
\* what image_raw still holds, and the capture is set up for YUV.
Usable == useyuv \/ rgb

Wanted == sendnow /\ jcs.on

\* v4l_process_image, unless there is no connection, and VIDIOC_QBUF.
FrameDone(queue) ==
  /\ at = "frame" /\ filled = 0
  /\ at' = "events" /\ remaining' = Events
  /\ IF link = "none"
       THEN UNCHANGED <<capture, pic, stale>>
       ELSE /\ useyuv' = (useyuv \/ ~rgb)
            /\ reinit' = (reinit \/ ~Usable)
            /\ pic' = IF Wanted /\ link = "up"
                        THEN [cam |-> jcs.cam, size |-> fmt] ELSE None
            /\ stale' = IF pic' # None /\ ~Usable THEN stale + 1 ELSE stale
            /\ UNCHANGED <<prequested, fmt>>
  /\ queued' = IF queue THEN queued + 1 ELSE queued
  /\ UNCHANGED <<host, session, rgb, filled, peer, world>>

\* Mutant: the buffer is given back when its frame has been used.
FrameUsed == FrameDone(link # "none")

Frame == FrameDone(TRUE)

-----------------------------------------------------------------------------
(* The driver, the server and the network.                                   *)

\* What happens around a program that has ended is of no interest.
Alive == at \notin {"spin", "exit"}

Fill ==
  /\ Alive /\ queued > 0
  /\ queued' = queued - 1 /\ filled' = filled + 1
  /\ UNCHANGED <<at, remaining, host, session, capture, rgb, peer, world, pic, stale>>

\* JC_MSG_REGISTER: an id for a camera without one, then the record of its number.
Answer ==
  /\ Alive /\ link = "up" /\ number = 0
  /\ \E n \in Numbers :
       /\ number' = n
       /\ inbox' = (IF id THEN <<>> ELSE <<RegisterMsg>>)
                     \o <<[type |-> "camerasettings",
                           rec |-> [cam |-> n, size |-> wanted.size, on |-> wanted.on]]>>
  /\ UNCHANGED <<at, remaining, host, session, capture, driver, link, told, world, pic, stale>>

\* A console changes the record, and the server passes it on.
Edit ==
  /\ Alive /\ edits < MaxEdits /\ edits' = edits + 1
  /\ \E s \in Sizes, o \in BOOLEAN :
       /\ wanted' = [size |-> s, on |-> o] /\ wanted' # wanted
       /\ inbox' = IF link = "up" /\ number # 0
                     THEN Append(inbox, [type |-> "camerasettings",
                                         rec |-> [cam |-> number, size |-> s, on |-> o]])
                     ELSE inbox
  /\ UNCHANGED <<at, remaining, host, session, capture, driver, link, number, told,
                 server, troubles, pic, stale>>

\* The connection breaks; what was on its way may still be read.
LinkBreaks ==
  /\ Alive /\ link = "up" /\ Trouble
  /\ link' = "broken" /\ inbox' \in {inbox, <<>>}
  /\ UNCHANGED <<at, remaining, host, session, capture, driver, number, told, pic, stale>>

\* The server stops, starts or moves.
ServerMoves ==
  /\ Alive /\ troubles < MaxTroubles /\ troubles' = troubles + 1
  /\ server' \in (Addrs \cup {None}) \ {server}
  /\ link' = IF link = "up" THEN "broken" ELSE link
  /\ UNCHANGED <<at, remaining, host, session, capture, driver, inbox, number, told,
                 wanted, edits, pic, stale>>

-----------------------------------------------------------------------------
Main == JcEvents \/ TurnOver \/ Reinit \/ Select \/ Dequeue \/ Frame

CameraNext ==
  \/ Main \/ DeviceFails \/ Fill \/ Answer \/ Edit \/ LinkBreaks \/ ServerMoves

Resume == Pause /\ cstate' = "initial"

\* The program runs, a pause ends, the driver fills buffers and the server answers.
CameraFairness ==
  /\ WF_cameraVars(Main) /\ SF_cameraVars(Resume)
  /\ WF_cameraVars(Fill) /\ WF_cameraVars(Answer)

CameraSpec == CameraInit /\ [][CameraNext]_cameraVars /\ CameraFairness

-----------------------------------------------------------------------------
(* What makes it correct.                                                    *)

\* Every variable has its type (the globals of the program).
CameraTypeOK ==
  /\ at \in {"events", "reinit", "select", "frame", "spin", "exit"} /\ remaining \in 0..Events
  /\ host \in Addrs \cup {None} /\ ipaddr \in Addrs \cup {None}
  /\ cstate \in {"initial", "find", "pause", "connect", "running"}
  /\ id \in BOOLEAN /\ sendnow \in BOOLEAN /\ reinit \in BOOLEAN /\ useyuv \in BOOLEAN
  /\ jcs \in Record /\ prequested \in Sizes \cup {None}
  /\ fmt \in Sizes \cup {None}
  /\ rgb \in BOOLEAN /\ queued \in Nat /\ filled \in Nat /\ queued + filled <= Buffers
  /\ link \in {"none", "up", "broken"} /\ server \in Addrs \cup {None}
  /\ number \in Numbers \cup {0} /\ wanted \in [size : Sizes, on : BOOLEAN]
  /\ inbox \in Seq(SettingsMsg \cup {RegisterMsg})
  /\ told \in [cam : Numbers \cup {0}, size : Sizes \cup {None}, on : BOOLEAN]
  /\ troubles \in 0..MaxTroubles /\ edits \in 0..MaxEdits

\* A picture has the number the server gave the camera on this connection, and the
\* size it was last told on it, whatever was reconnected, edited and set up again
\* since (send_camerasettings, v4l_process_image).
PictureAsTold ==
  pic # None => pic.cam = number /\ told.cam = number /\ pic.size = told.size

\* At most one picture in the life of the program shows an earlier frame: that of
\* the switch to YUV, which is made before the next frame is taken.
OneStalePicture == stale <= 1

\* The driver has a buffer left to fill whenever the camera waits for a frame, however
\* many frames it skipped (read_frame).
NeverStarved == at = "select" => queued + filled > 0

\* Nothing outside stands in the way: the program runs, the server is where the
\* camera looks for it, and pictures are wanted.
Unhindered ==
  /\ Alive /\ server # None
  /\ cstate = "connect" => ipaddr = server
  /\ wanted.on

\* Unhindered for long enough, the camera sends pictures again and again.
KeepsSending == <>[]Unhindered => []<>(pic # None)

=============================================================================
