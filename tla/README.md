# Verification of jcamsys in TLA+

jcamsys is a camera server (`src/jcamsys_server`), the cameras that feed it
(`src/jcamsys_camerav4l`, `src/jcamsys_camera_rpi`) and the viewers and the
console that show and configure them (`src/jcamsys_viewers/xforms`), over a
binary protocol of their own (`src/jcamsys_common`). This directory holds TLA+
models of the parts of it where several processes meet, TLC configurations that
check them on small instances, and theorems checked by TLAPS.

Abbreviations used below: **S** `jcamsys_server.c`, **X** `jcamsysxconsole.c`,
**V** `jcamsysxviewer.c` (basic), **K** `jcamsys_camera_v4l.c`, **P**
`jcamsys_protocol.c`, **CI** `jcamsys_cipher.c`, **CO** `jcamsys_common.c`,
**A** `jcamsys_archiver.c`, **IM** `jcamsys_images.c`. The line-by-line correspondence of every definition
is the `map` of `PROJECT.json`.

## 1. The system

### Processes

`main` of the server maps one `struct sharedmem` (`jcsm`), loads the settings
files, draws a test card into every picture, forks the helpers (discovery, the
archiver, the sensor poller, the key exchange, the status page) and then blocks
in `accept`. Every connection gets a forked child of its own, which
authenticates its client and runs `jc_server` (S:318-751). Nothing is passed
between children: they meet in `jcsm`, polled by each of them about once a
millisecond. No lock protects it. `jc_sm_get_cdata_lock` and its counterpart
return at once.

A turn of `jc_server`: save what the child itself has to save if the second
changed; time out cameras; compare the change counters of settings, sensors and
frames with the child's own copies and send what moved; read at most one message
and handle it.

### Components

| component | state | operations | with whom |
|---|---|---|---|
| settings synchronisation | `cs[]`, `cs_changed[]`, the settings file; per child `pcs_changed[]`, `messagemask`, `dontsendcs`, `save_cs`; per client its copies and flags | scan, the handlers of MESSAGEMASK, REGISTER, CAMERASETTINGS, deferred save; edit, select, timer of the console; echo and capture setup of the camera | children through `jcsm`; children and clients by messages |
| camera slots | `cs[n].id`, its file, `feeder_cam` of each child; the registration file of each camera | make an id, find a slot, claim it, save it; store the registration; return | cameras, children, consoles that write whole records |
| image store | `ci[img][cam]`, `sensor_active`, per-child buffers | store, check, archive, time out, draw, copy out, send | camera children, viewer children, archiver |
| transport | the socket, `jcam_read_message`'s statics | write header, write payload, read in parts, time out, break | every client and its child |
| viewer | the outstanding request, `completed`, last frame numbers | request, answer, frame notification, retry after a second, decoder process | its child |
| camera | the state of `jc_events`, its record, the format granted, the buffers of the driver | find, connect, register, read; set up the capture; take the newest frame, send it | its child, the V4L driver |
| image processing | `image_raw` and the running positions in it | flip, encode, halve | the camera |
| sensors | `senss` and its counters | mark, poll, notify | all children, sensor poller |
| archiver | comment, rate limit, enable flag | add a picture, give up on failure | camera children |
| key exchange | the window and its count | open, hand out, close | UDP clients, camera children |
| authentication, ip bar | passphrase state, table of failures | challenge, answer, time out; add, look up, expire | main, children |
| server settings | `se`, `se_changed` | as for camera settings | consoles, children |
| process lifecycle | number of children, `quit` | fork, reap, shut down | all |
| discovery, status page, utilities | none that outlives a request | | |

### What is hard

- **Interleaving.** `cs_changed[n]++` is a load and a store; a picture is copied
  by `memcpy` while another child writes it; two registrations look for a free
  slot before either claims one; the time-out of a camera races its next picture.
- **Stale state.** A one-shot flag (`dontsendcs`) meant for one change and
  consumed by another; records that carry an id from when they were received; a
  clock read before a timestamp it is compared with; a reader whose state is
  static and outlives its connection.
- **Ordering.** The camera echoes settings; an echo and an edit cross. A picture
  is published before its CRC is checked.
- **Failure.** A child exits with a save still deferred; a save fails after its flag
  was taken down, and leaves the file short; the server restarts between a claim and
  its save; a write is cut short; a port is taken.
- **Boundaries.** Loops over the slots that run one past the table; a driver that
  runs out of buffers; pictures of odd sizes halved within their own memory.

`PROJECT.json` lists each of these at its line, with the property that would
notice it going wrong or the reason none covers it yet.

### What makes each component correct

- Settings: a camera obeys the server's record; no client is ever taken back to
  an older record; no save is forgotten but with its child, or by failing.
- Slots: one camera per slot, and the same slot each time it comes back.
- Image store: a copy nobody disturbed is the picture last written; the archive
  gets whole pictures; a camera that stops is noticed.
- Transport: messages whole, in order, once, and eventually.
- Viewer: at most one answer counts for each request, a request whose answer is
  lost is repeated, the picture shown is of the camera selected.
- Camera: what it sends is what it told the server it would send, and it comes
  back to sending after every failure; each picture it makes is half the one before.
- Services: keys are handed out in the window only, and clients are told of it;
  nobody is barred who did not fail; every process that looks at `quit` ends after it.

## 2. The modules

| module | role |
|---|---|
| `SettingsSync` | settings between consoles, children, shared memory, file, cameras |
| `MonotonicReads` | what clients may rely on: an abstract store whose readers never go back |
| `SettingsSyncProofs` | type correctness, deferred saves, the refinement, and cameras that obey, proved |
| `CameraSlots` | the id table, registration, restarts |
| `CameraSlotsProofs` | types, exclusive slots, remembered slots, the way home, proved |
| `ImageStore` | one shared picture, its writers and readers |
| `ImageStoreProofs` | types, the safe register, whole pictures in the archive, proved |
| `Transport` | one direction of one connection |
| `TransportProofs` | types, lengths, messages in order, proved |
| `Viewer` | a viewer, its slave decoder and the child that serves it, over both directions |
| `ViewerProofs` | types, the conversation of viewer and child, what is queued, the slave, proved |
| `Camera` | the session of a camera, its capture and the driver's buffers |
| `Scaling` | the pictures made of one frame, pixel by pixel |
| `CameraProofs` | types, pictures as told, stale pictures, buffers, halving, proved |
| `Lifecycle` | main, the children of connections, the services, the list of barred addresses |
| `KeyExchange` | the second port, its window and the setting that opens it |
| `Sensors` | the sensors of one type, who marks them and who is told |
| `Server` | the composition of the last three: the processes of the server |
| `SensorsProofs` | the types of the sensors and that clients are current, proved |
| `ServerProofs` | about `Lifecycle` and `KeyExchange`, and that the parts keep their theorems in the composition |
| `MC*` | the sets each instance uses, and symmetry where it is sound; `MCPictures` and `MCServer` check several modules in one run |

### SettingsSync

`cs`, `changed` and `disk` are the shared records, their counters and the file.
A record is the number of the edit that made it (`v`) with a count of writes
(`w`), which no code sees; `Record` is what `jc_msg_camerasettings` sends.
`child[c]` holds the locals of the child that serves client `c`: where it is in
its loop, its copies of the counters, its flags. `stage` splits the increment of
a counter (S:570) into a load and a store. `ScanCam` is one iteration of the
scan (S:427-442), `HandleMask`, `HandleRegister` and `HandleSettings` are the
handlers, `SaveTick` the save in a new second. `Files` is what `savefile` may leave:
all records; where `SavesFail` allows it also the file as it was, or the first
records only, since the file is truncated when it is opened and the write may be
short. In `SaveTick` the flag is down by then, and nobody tries again. A console is `Edit`,
`SelectCam`, `TimerSend`, `ConsoleRecv`; a camera is `CamRecv` (with its echo of
the first record of a session) and `CamReinit`. Connections come and go
(`Connect`, `Disconnect`), and a client may be restarted.

A record is copied as a whole: mixing the bytes of two records is not modelled.
The test cards the settings handler draws are in `ImageStore`. The server runs
throughout; its restart is in `CameraSlots`. Ghosts: `torn` is the set of
cameras whose counter was stored over another increment, until their own child
finds the counter moved and so catches up with it (a registration is not enough: a
counter that was set back may come to the value the child already holds);
`lost` the set of cameras whose record was left unsaved by a child that exited or by
a save that failed; `seen` the write count each client last received.

A console takes a record under request number 101 for its own and ignores it
(X:987). The server numbers its messages itself, so one in 65536 of its own records is
ignored too: `Numbers101` allows it at any record.

`CameraEventuallyCurrent` and `CameraCurrent` except `torn` cameras, and the run
`settings_torn` shows why: the exception is the defect and not a convenience.
`CameraEventuallyCurrent` also has the premise that the camera has done with setting
up its capture. Two records that ask for different sizes, both on their way at once,
make the camera set up and send a record for each (K:1245-1257), which its child sends
back: in the code that exchange need not end, and while it lasts the camera does not
settle. `MaxSetups` cuts it off in the instance, but with a set-up still due, so that
the premise is not met there by the bound.

### CameraSlots

`id` is the id column of `cs[]` with one more slot, `Beyond`, since both search
loops run one past the table; that slot is the archiver's comment in
`struct sharedmem`. Each session is a child that goes through `Name`
(`random_md5`, seeded with the second), `Find`, `Take`, `Save` or `SaveFails`;
`End` is the child noticing that the camera left, which may be long after
`Drop`. `StoreId` is the camera storing its registration, `Echo` and
`ConsoleSend` overwrite a record with the number and the id it carried when it was
received. A camera keeps its record when it loses its connection (`HeldWithout`), and
may send it on the next, where another number may be its own (K:979, 1257).
`Restart` stops the server at any point and loads the file. Writing the file is
one step. Ghosts: `home` (where an id was when first saved), `twins` (ids made
twice) and `blamed` (slots two children found at once, and slots whose id a
received record changed). The invariants say that sharing and forgetting have
no other cause than these.

### ImageStore

One picture with its header and two pieces of data, so that a copy takes three
steps and can be torn. `Arrive`, `Store0..2`, `Check`, `Mark`, `Archive` are
JC_MSG_IMAGE in the camera's child; `Request`, `Copy0..2`, `Send` are
JC_REQ_IMAGE in a viewer's; `Look`, `Compare`, `Deregister`, `Prepare`, `Draw`,
`Seal` are the time-out and the test card that any child may draw. Encryption
flips every piece the header's size covers, in place, and the flag with it, as
`jcam_crypt_buf` and its callers do. `late` holds the children that read the
clock before the last timestamp was made: the subtraction is unsigned, so they
find the camera very old. Ghosts: `solo`, `last` and `expect` follow which copy
overlapped which write.

### Transport

The socket holds `Room` units. `SendHeader` and `WritePayload` are `jc_send_header`
and `jc_sockwrite`: the header's result is ignored, a partial payload write is
followed by a write from the beginning of the buffer. `ReadHeader` and
`ReadPayload` are the resumable reader, whose `state` survives both time-outs
and connections; `EndOfFile` and `SocketDied` are the two ways a connection ends,
only one of which resets it. `spoilt` records that a write was cut short, or a
break came in the middle of a payload and was not noticed by the reader.

### Viewer

`selected`, `completed`, `old` (more than a second since
`image_received_time`), `link` (`fdsock`) and `running` are the viewer's
globals; `mid` is the static state of `jcam_read_message`. `up` and `down` are
the two directions of the connection, each of which holds a bounded number of
messages; `out` and `reply` are what `jc_sockwrite` of either end still has to
write, and while they are not empty that process does nothing else. The child
is two half turns: `Scan` (S:412-423) reports the frame number of the camera in
the mask, `Serve` reads one message. The viewer's turn is one of the `Read…`
actions or `ReadNothing`, all of which end in `EndTurn`: the clock and the slave
are looked at after the message, in one function of the code. `Decoded` and
`DecodedLate` are the two ends of `reload_image`, `Select` is
`highlight_button`, `Wake` the end of a `formsleep` whose callbacks have
meanwhile run `jc_events` again, which may have been refused and sleep in turn:
`asleep` counts how many do.

`jc_image_copy` is two steps on either side, since no lock works: `Store` makes the
frame number visible, `StoreEnd` is the end of the data; `Serve` begins the copy of an
answer, `CopyEnd` completes it, computes its CRC and writes it. A copy that a store
overlapped bears the number it found first and is `torn`, and the viewer that shows
it cannot know: its request is answered and the number is the newest. So
`CurrentAtRest` speaks of the frame number only, and that the data belong to it is
left to `EventuallyCurrent`, which needs the retry of the code for it.

A request number is `latest` (it is `sent_reqid`) or not; an answer is compared
with nothing else. A number that wraps to 0 is answered under a number of the
server's own. A picture is a camera and a version, with two marks: `torn`, and `whole`
(it was not overwritten in the slave's buffer). Dropped headers and payloads written twice are a
`Debris` message, which drains what lies behind it. Messages the viewer only
displays are left out, as is the exit on a failed authentication; a change of
the window's size is an early `Tick`; the receipt of the CRC is assumed on, as
`jcamsys_server_settings.c:61` has it. Ghosts: `slipped` (something was lost
that only the retry makes good: also when a viewer that dropped a connection in
the middle of a payload, or while its slave decodes, connects again) and `forced` (a request was made while another
was out).

### Camera

One thread. `at` is its place in `main`'s loop (K:1241-1319): `remaining` calls
of `jc_events`, the capture set up again if it is due (`Reinit`), `Select`, and
`read_frame` with the picture it makes (`Dequeue`, `Frame`). Each call of
`jc_events` is one action: `Initial`, `FindServer` and `FindFails`, `Pause`,
`ConnectAndAuth`, `ConnectFails` and `AuthFails`, and in a session `ReadSettings`
(which sends the first record back), `ReadRegister`, `ReadNone` and `HangUp`.

`prequested`, `fmt`, `reinit` and `useyuv` are the globals of that name; a size is
width and height together. `queued` and `filled` count the driver's buffers:
`Fill` is the driver, `Dequeue` passes over a frame and does not queue its buffer
again, `Frame` queues the last. `Usable` is the test of the length at K:622: when
it fails the picture is made all the same. `rgb` says whether the driver honours a
request for RGB24. `DeviceFails` are the exits of the capture code, and the loop
at K:739 that a failure other than EAGAIN never leaves (`spin`).

Outside: `Answer` is the server's registration, `Edit` a console's change passed
on, `LinkBreaks` and `ServerMoves` what may go wrong. That the server takes over
the records it is told, and may thereby revert an edit, is in `SettingsSync`;
here its own record, `wanted`, changes by edits only. Ghosts: `number`
and `told`, what server and camera were last told on this connection; `pic`, the
picture of the last frame; `stale`, how many pictures showed an earlier one.

### Scaling

`v4l_process_image` from the frame on: `imageflipv` and `imagefliph`, `Encode`,
and between two pictures `CopyPixel` and `NextLine` (`deinterlace`), `MeanPixel`
and `NextRow` (`halfwidth`), with `nlines`, `npixel`, `newbufpos` and `oldbufpos`
as in the code, counted in pixels. `Average` is a parameter, so that a picture
checked shows which places of the frame each of its pixels comes from. Halving
without averaging is never asked for (IM:448). The memory of a frame is one pixel
longer than the frame, for `imagefliph` reads that far.

### Server: Lifecycle, KeyExchange, Sensors

`Lifecycle`. `count` is `num_active_processes`, which starts at 1 for main;
`CountUp` is separate from `Accept` because the signal handler may run between
load and store. `signal` is a flag: signals of children that die together merge,
and each runs one `wait`. The services are forked after the handler is set, so
their deaths are taken off the count although nobody added them. The child goes
from the list of barred addresses to authentication and on to one of two writes
of the list, each in the steps of `ipbar.c`: find an entry, mark it, read its
count, store it; or find, clear, wipe. Three wrong interleavings are in the
model: two addresses share an entry, a failure is added to an entry that was
freed meanwhile, and a full table, for which `ipbar_find_olest` returns a time
where an index is due and the child dies, even one that was rightly
authenticated. An address that is barred stays so, unless a child that was let in
before shares the entry and clears it, or http clears the list on its way to the end
of `main`: it returns where the other services exit (`QuitSeen`). `quit` is set on an
archive error only; main sees it after the next connection. A service may also end by
itself (`ServiceDies`), and http waits in `accept` again each time its setting is
turned off and on (`Relisten`). Its child for a request runs on as a second http; it
only sleeps and looks at the flag, and is left out.

`KeyExchange`. One turn of the loop is one action for each time it reads the setting
again, and for each step of the window that others can see: the port listens
(`Listen`) before `kx_active` says so (`Announce`); at the end `kx_active` is taken
back (`Hide`) before the port is closed (`Close`), and then the setting is turned off
(`Reset`). A port that is taken ends the process with the setting on (`BindFails`,
`jcamsys_network.c:91-95`); only a failed `socket()` lets it go on (`ListenFails`).
`enable` may be on at the start: the service saves
what consoles send and does not save its own change when the window expires.
The child of an exchange looks at the setting once more and then reads without a
time-out.

`Sensors`. A writer tests, sets, loads and stores; a child compares the counter,
notes it, copies one sensor after the other and sends. Ghosts: `hidden` (children
that a stored counter left with the value they had already seen) and `raced`.

`Server` runs them side by side. They share only `quit`, which the key exchange
may see raised at any time (`closing`): more behaviours than those of the code,
so what holds of it holds of the code.

## 3. The runs

| run | instance | what it shows |
|---|---|---|
| `settings` | 1 console, 1 camera, 3 connections, 1 edit, 1 setup, saves that fail, records numbered 101; 2.4 M states | `TypeOK`; `UnsavedIsFlagged`: a record that differs from the file will be saved, unless a save of it failed or went with its child; `CameraCurrent`: at rest the camera obeys the record, unless counters were torn; `MonotonicReads`: the refinement |
| `settings_live` | 2 camera numbers, 1 console, 1 camera, 2 connections, 1 edit; 0.7 M states | `CameraEventuallyCurrent`: once users stop, a camera that stays registered and has done with setting up ends up obeying |
| `settings_console` | as `settings`, 2 connections | violated: `ConsoleCurrent` (finding 1) |
| `settings_torn` | as `settings`, 2 connections | violated: `CameraAlwaysCurrent` (finding 2) |
| `settings_saved` | as `settings`, 2 connections | violated: `EveryChangeSaved` (finding 3) |
| `slots` | 2 cameras, 2 children, 2 slots, 2 seconds, 3 connections, 1 overwriting record, 1 restart; 3.4 M states | `SlotExclusive`, `SlotRemembered`, `ReturnsHome` |
| `slots_full` | 2 cameras, 1 slot | violated: `SlotInTable` (finding 4) |
| `images` | one part at a time: `ImageStore` with 1 camera child, 1 viewer child, 2 frames, 2 test cards; `Camera` with 4 events, 2 buffers, 2 sizes, 2 numbers, 1 trouble, 1 edit; `Scaling` with frames of 8-11 by 8-9 and all flips; 0.7 M states together | `SafeRegister`, `ArchivedIsWhole`, `GoneIsNoticed`; `PictureAsTold`: a picture has the number and the size the server was last told on this connection; `OneStalePicture`; `NeverStarved`: the driver has a buffer left; `KeepsSending`: unhindered, the camera sends again and again; `EachIsHalved`, and the loops stay within the frame (`ScalingTypeOK`) |
| `image_torn` | `ImageStore` as in `images` | violated: `NeverTorn` (finding 5) |
| `transport` | 4 messages of up to 3 units, a socket of 4, 2 breaks | `InOrder`, `RightLength`, `Arrives` |
| `viewer` | 2 cameras, 2 events: pictures stored, cameras selected or things that go wrong; 0.3 M states | `AnswerExpected`: `completed` is true exactly when nothing is due; `CurrentAtRest`: the selected camera is shown under its newest frame number; `EventuallyCurrent`: in the end it is a copy of that picture that no store overlapped; `WedgedByForce`: both ends block each other only after a repeated request; `ShowsSelected` |
| `server` | 3 connections of 2 addresses, 1 http service, a table of 1; a window with 2 exchanges and 3 records; 2 sensors, 2 writers, 1 client; 1.0 M states | `CountsEveryChild`, `OnlyFailedBarred`, `ShutsDown`; `OpenIsShown`, `EventuallyShut`; `SensorsCurrent`, `SensorsEventuallyTold` |

Each property of a passing run has a mutant in `PROJECT.json`: a plausible bug
in one definition, written as an operator beside it, that makes TLC find the
property violated.

### Bounds, and why they are enough

- `MaxQueue` 1: a child that would send to a full queue waits, as
  `jc_sockwrite` does. The reply to a registration is not held back, so queues of
  two occur. What matters is that a message may be in flight while the next step
  of anyone happens.
- `MaxEdits` 1 with `MaxSetups` 1: each connection of the camera echoes the
  record, each setup sends it again, so up to four writes from two clients cross
  in one behaviour; the violations above need no more than these.
- `MaxConnects` 3: every client can come back once, and one of them while the
  other's child still has something to do. Two suffice for the violations.
- `Wrap` is the real 65536: the counters do not wrap within these bounds. The
  theorem on types holds for every `Wrap`.
- `MaxTime` 2, two sessions: two ids can be made in the same second and in
  different ones; a lingering child and its successor exist at once. Larger
  instances (one slot and four connections, 11.6 M states) were also run.
- `MaxWrites` 1, `MaxRestarts` 1: one wrong record explains one wrong slot; one
  restart at any point covers every prefix of a registration.
- `Limit` 1: a picture may be fresh, just old enough, or too old. `MaxFrames` 2
  gives a picture to overwrite with another; `MaxCards` 2 lets both children draw
  a test card, apart from those of time-outs, which are not bounded.
- `Room` 4 against `MaxLen` 3: a payload fits with its header and does not fit
  behind another message, so that partial writes and dropped headers occur.
  `MaxBreaks` 2: a break that spoils the reader, and one that mends it.

- `RoomUp` 2, `RoomDown` 1: a mask and a request fit together, a picture and a
  frame number do not, so each end can find its direction full.
- `MaxEvents` 2 of `Viewer`: any two of a picture stored, a camera selected, a loss, a
  dead child, a wrapped number, at any point. Checking `EventuallyCurrent` is what
  limits it. All properties were also checked with two pictures or selections and one
  thing that goes wrong besides (1.6 M states).
- `TableLen` 1, `MaxFails` 1: three children contend for one entry, and the table
  is full as soon as one has it.
- `MaxEdits` 3: a console turns the setting on, off and on again within one turn.
- `Width` 3 with `MaxChanges` 3: the counter of sensors goes all the way round
  once. The theorems hold for every width.
- `Events` 4 of 10: a session may end, and with `-host` the next begin and its
  first record be read, within one turn; between turns everything else.
- `Buffers` 2 of 4: one frame taken and one passed over. The theorem holds for any
  number. `MaxTroubles` 1 of `Camera`: one failure, break or move anywhere; the
  camera starts new, with or without `-host`, with a device that has no RGB24, so
  that the switch to YUV is always met.
- Frames of 8 to 11 by 8 or 9 pixels, halved up to three times: widths and heights
  that are odd at the first, the second or no halving. The theorem holds for all.
- In run `images` one of `ImageStore`, `Camera` and `Scaling` moves and the others
  rest, as in run `server`: they meet in whole messages only.
- The behaviours of run `server` are restricted to one part at a time (`part` in
  `MCServer`): the parts do not meet, and their product would be out of reach.
  That they do not meet is not assumed by the proofs, which are of `ServerSpec`.

`CHECK_DEADLOCK FALSE` stands where the bounds end the behaviour: users, cameras
and connections may all be spent, and the children then poll without a change
of state. `ReadNothing` of `SettingsSync` leaves such turns out. `ImageStore`
keeps its idle turns and is checked for deadlock.

### Fairness

Every child, console and camera is an ordinary process that polls: the child
with a time-out of a millisecond, the console from an XForms timer, the camera in
its main loop. So the steps of each are weakly fair as a group (`ChildStep`,
`ConsoleStep`, `CamStep`; `Child` in `ImageStore`; `WritePayload` and `Read` in
`Transport`), and so are the second that makes a save due (`SaveTick`) and the
passing of time (`Tick`). Nothing is assumed of users, of connections, or that a
camera sends another picture.

In `Viewer` the child, the viewer, the slave, the clock and the end of a store begun
(`StoreEnd`, a `memcpy`) are weakly fair. Two
actions are strongly fair: `ReadMessage`, since a payload that arrives in parts
is complete after finitely many turns although the viewer may write between
them, and `Wake`, since `formsleep` counts its rounds whatever its callbacks do.
In `Lifecycle` main, the signals and each child are weakly fair; that a client
leaves or an archive fails is not assumed. A child blocked in `jc_sockwrite`
would not see `quit`: its client is assumed to read or to be gone. Nor would the
child of a key exchange, whose read has no time-out: it is not among the processes
of `ShutsDown`, and in `KeyExchange` its end is assumed of nobody. In
`KeyExchange` the loop, the clock and the children's look at the setting are
fair, and in `Sensors` every writer, child and client. In `Camera` the program is
weakly fair, as are the driver (a frame every few milliseconds) and the server's
answer; the end of a pause is strongly fair (`Resume`), since a pause has a length.
That nothing stands in the way is a premise of `KeepsSending` (`Unhindered`).

## 4. What is proved

`SettingsSyncProofs` holds for any consoles, any number of cameras and all
values of the bounds, under `SettingsAssumption` alone (finite bounds are not
needed; cameras and consoles are distinct, `Wrap` is positive).

- **`TypeCorrect`**: `Spec => []TypeOK`. `TypeOK` is inductive; there is one lemma
  for the steps of the scan, the handlers, the counter, the loop, connections,
  console and camera. Its content is that no record of a camera that does not
  exist is stored or sent, and that the counter keeps its width although it is
  loaded and stored separately.
- **`SavesAreFlagged`**: `Spec => []UnsavedIsFlagged`. Inductive together with
  `TypeOK`: a handler that changes a record raises the flag of its own child, a
  child lowers its flag only when it saves, and a save that fails, like a child that
  leaves with its flag up, makes the unsaved cameras `lost` (`SaveKept` is the common
  step). What it excludes is any third way: a change whose flag goes up in nobody, or
  a flag that is taken down for another child's save.
- **`ImplementsMonotonicReads`**: `Spec => MonotonicReads`. The refinement maps
  `version` to the write counts and `view` to `seen`. It needs a strengthening,
  `InOrder`: the records of one camera in a channel are in the order of their
  write counts, none older than what the client has seen and none newer than
  shared memory. That holds because a child only ever appends records as they
  are at that moment (`RecordPresent`, `NoticePresent`, `ReplyPresent`,
  `ChanExtend`), a client takes the oldest (`ChanReceive`), a write only raises
  the count (`ChanWrite`), and a closed connection takes its channel with it.
- **`CamerasObey`**: `Spec /\ []Low => []CameraCurrent`, where `Low` says that no
  counter has reached its last value, 65535 in the code: the children compare for
  inequality, and a counter that goes all the way round between two scans looks
  unmoved. `CameraCurrent` speaks of cameras at rest only, and the strengthening
  `ToldInv` of all others. `Told`: the last record on its way to a registered
  camera is the server's, or its child has yet to find the counter moved, or some
  child is between copying the record and storing the counter. `NotAhead`: the
  child's copy of the counter is not past the counter, so that every increment that
  is not torn shows (`ToldStore`); before its first scan it is, by 20, but then
  nothing was read and nobody is registered. `Plain`: nobody asks a camera's child
  for other records. `ObedientFrame` disposes of the steps that do not concern the
  camera.

`CameraSlotsProofs` holds for any cameras, children, slots and bounds, under
`SlotsAssumption`. The search for the lowest slot is proved from the library's
theorem that the naturals are well founded (`LowestOfSome`, `Lookup`).

- **`TypeCorrect`**. `TypeOK` alone is not inductive: that `blamed` holds slots
  needs that a child in the stage `found` has one. `Sound` adds that a child that
  knows its camera's id knows one the server made, and that the slot it found is
  one of the slots.
- **`ExclusiveSlots`**: `Spec => []SlotExclusive`. Two parts. `Owned`: whatever
  bears an id made only once, child or stored registration, belongs to one device,
  and a device's connection is a child of its own. `Kept`: a held slot carries its
  holder's id but for the archiver's comment (`Claimed`), and whoever holds or has
  found a slot that another holds has the other's id (`Agree`). Then two holders
  of a slot have one id, and so one device.
- **`RememberedSlots`**: `Spec => []SlotRemembered`, with `HomeFound`: who found a
  remembered slot is the one it is remembered for, so no claim replaces it.
- **`CamerasReturnHome`**: `Spec => ReturnsHome`. `Tidy`: while no slot is to
  blame, no id is in two slots, in memory or on disk, the slot past the end is
  claimed only when the table is full, and what a child has found another lookup
  for the same id would find too (`Steady`). So the slot with the camera's id is
  the one remembered.

`ImageStoreProofs` holds for any children, any limit and any number of frames,
under `ImageAssumption`.

- **`TypeCorrect`**, with the places of a process named (`Types`).
- **`RegisterIsSafe`**: `Spec => []SafeRegister`, by the invariant `Register`. A
  writer nobody overlapped is the only one (`Alone`); it has written its picture
  up to the place where it is (`Progress`); while nobody writes, the picture is
  the last one written whole (`Latest`); a copy nobody disturbed agrees with the
  picture as far as it got, scrambled or not (`Copied`). The property alone says
  nothing of the steps between the first and the last of a write. That scrambling
  is its own inverse (`CryptTwice`) and that a picture is told by its header and
  as much data as the header names (`Alike`) are the lemmas it rests on.
- **`ArchiveIsWhole`**: `Spec => []ArchivedIsWhole`, by `Checked`, which follows a
  picture from the check of its CRC to the archive in its child's own buffer.

`TransportProofs` holds for any socket, any lengths and any number of messages,
under `TransportAssumption`.

- **`TypeCorrect`** and **`LengthsAreRight`**, by `Sound`: while a payload is
  read, what was read and what is still wanted add up to the length in the header.
- **`MessagesInOrder`**: `Spec => []InOrder`, by `Stream`: until something is
  spoilt, the units in the socket run without a gap from the place the reader
  waits for to the place the writer goes on at, and what was read of a payload is
  its beginning. `RunsJoin`, `RunsCut` and `RunsWithin` are about runs alone.

`ViewerProofs` holds for any cameras, any room in the two directions and any number
of events, under `ViewerAssumption`. Until something slips nothing is lost or
repeated on a connection, but much happens at once: a camera is selected while
the answer for another is on its way, pictures change before and after they are
copied, the child reports a change to a viewer that has not asked yet. The
invariants take what is on its way together with what its writer still holds,
`Going` to the child and `Coming` to the viewer, so that where a full socket cuts
a sequence makes no difference.

- **`TypeCorrect`**, by `Sound`: `TypeOK` with the cameras of what goes up, since a
  request for no camera would be answered with a picture of none.
- **`ShownIsSelected`**, the action property, by `Decoding`: the slave decodes only
  while the viewer waits for it, and the picture it was given is whole and of the selected camera, until something slips.
- **`AnswersExpected`** and **`CurrentWhenAtRest`**, by `Conversing`. `Last`: the
  request the viewer counts on is the last thing it wrote, and behind its answer
  come only frame numbers. `MaskComes`: the child reports the selected camera, or
  will once it has read what is on its way. With these, one of three: the request
  is on its way (`Asked`); its answer is, being copied or written, and has the newest
  frame number or a frame number of the camera follows (`Answered`, `NoticeAfter`); or
  all is answered, and the window shows the newest, will after the next frame number,
  or asks again (`Settled`). `Copying` says that an answer is all its child has to write
  while it copies it. `CurrentAtRest` alone says nothing before rest, and
  `AnswerExpected` does not say of which camera the answer is. One lemma for each
  kind of step that can disturb this: the child's scan, its reading of a mask and
  of a request, the viewer's taking of a frame number and of a picture, its
  asking (`AskedAnew`), a selection, a connection.
- **`WedgesAreForced`**, by `Queueing`: without requests made while one was out,
  there is at most one request on its way, the last message, and before it one
  mask and the first mask of the connection, which the child reads before it
  writes anything. So the writer of the viewer never waits for a child that
  waits for it. The theorem assumes `RoomUp > 1`: with room for one header the mask
  of a selection and the request behind it would do. The code's sockets
  hold thousands of bytes, and a header is far shorter.

`CameraProofs` holds for any sizes, numbers, buffers, events of a turn and bounds,
and for frames of every size, under `CameraAssumption` and `ScalingAssumption`.

- **`CameraTyped`**, **`PicturesAsTold`**, **`OneIsStale`**, **`BuffersLast`**, by
  `CameraInv`. `Session`: there is a socket exactly in a session, and nothing is
  on its way or told before the server has answered. `Mail`: a record on its way
  carries the number of this connection. `Agreed`: once the camera may send
  pictures it has that number, and the server has the number and the size
  granted. `PictureAsTold` alone says nothing until a picture is made. `Stock`
  follows the buffers through the loop, `YuvOnce` says that whoever made a stale
  picture has turned to YUV, where all frames are usable.
- **`ScalingTyped`**, **`PicturesAreHalved`**, by `ScalingInv`: what lies before
  `newbufpos` is the picture to be, what lies from there on is the picture as it
  was (`AtLines`, `AtColumns`). That a write does not touch what is still to be
  read is a matter of the order of places (`Below`, `SamePlace`, `NextPlace`).

`SensorsProofs` is about the sensors by themselves.

- **`ClientsAreCurrent`** of the sensors needs `Sound`: as long as no writer stored
  over another and the counter did not go all the way round, the counter is the
  number of marks that were completed (`Counted`); a sensor that is active was
  counted or is about to be (`Begun`); what is hidden from a child is so only
  until a writer between its steps stores (`Brief`); and a child that has seen
  the counter as it is has sent the sensors as they are or is copying them, but
  for a writer between its set and its store (`Fresh`).

`ServerProofs` holds for any finite set of connections and any other constants.

- **`TypeCorrect`** and **`OnlyFailedAreBarred`**, by `Sound`: a child that is to
  write has an entry (`Held`), connections have addresses (`Addressed`, `Waits`)
  and whatever is in the list with a failure, or on its way there, is an address
  that failed (`Listed`).
- **`EveryChildIsCounted`**, by `Counted`: `CountsEveryChild` is not inductive,
  because main may store a count it loaded before deaths. So the count, and also
  what the count will be once main stores what it loaded, is at least the number
  of children not yet reaped, by the cardinality theorems of the library.
- **`PartsCorrect`**, **`OpenWindowIsShown`**, **`ClientsAreCurrent`**: the
  theorems of the parts in the composition. Those of the key exchange are
  inductive as they stand and proved here (`KeysType`, `KeysShown`): `OpenIsShown` names the
  two places of the turn, before the note and after its removal, at which the port is
  open without it; `SameSensors`
  equates the sensors of `Server` with those of the proof module;
  `ServerHasParts` shows that a step of any part is a step or a stutter of each
  other.

TLC checked every strengthening on the instance of its run before it was proved; a
connection dropped in the middle of a payload takes one event of `Viewer`, what
happens to the next connection another.

Model-checked only: the liveness properties (`CameraEventuallyCurrent`,
`GoneIsNoticed`, `Arrives`, `EventuallyCurrent`, `KeepsSending`, `ShutsDown`,
`EventuallyShut`, `SensorsEventuallyTold`), since the prover does not reason about
fairness and ENABLED. Every invariant and every other property of the passing runs
is a theorem.

## 5. Findings

1. **A console can stay on an old record.** `dontsendcs` is raised by a record
   with request id 101 and cleared by the next change the scan finds, of whichever
   camera (S:427-434). The console asked for every change (X:269).
2. **A camera can stay on old settings.** `cs_changed[cam]++` (S:570) in memory
   shared by all children without a lock: a child that stalls between load and
   store brings the counter back to where the camera's child last saw it.
3. **A deferred save can be lost.** `save_cs` ("defer saving for a while", S:566)
   is a variable of the child and goes with it when its client disconnects within
   the second.
4. **The table of cameras has one slot too many.** The loops of S:133-160 run to
   `JC_MAX_CAMS+1`; the last slot they hand out is another field of `jcsm`.
5. **A viewer can be sent a mixture of two pictures**, since the locks of
   `jcamsys_sharedmem.c` return at once, and the CRC is computed over the copy.

### Observations

Met while modelling, in the models where they have an effect, and not the
subject of a run:

- `PortShut`, that the second port is closed while the setting is off, does not
  hold: the setting turned off and on between two of the four places where
  `jc_keyexchange` reads it leaves the port open under a copy that says off;
  `EventuallyShut` names this case. `kx_active` stays on when a console turns the
  setting off, and a setting saved as on opens a window at the next start,
  although the comment at S:1029 says the service starts suspended.
- `kx_active`, as clients have it, may be older still: each child compares the state
  with a copy of its own that starts at zero (S:92, 468-472), so a client that
  reconnects is told of a state that is not zero only, and keeps the one it had
  otherwise (X:1002-1006). `http_active` is never set.
- A console's form ignores one in 65536 of the server's records, the one that is
  numbered 101 (`ConsoleRecv`).
- A torn picture (finding 5) is under the newest frame number and stays in a viewer's
  window until the retry, a second later (`CurrentAtRest`).
- A port that is taken ends the key exchange, whose setting stays on (`BindFails`).
- `ipbar_find_olest` returns a time and not an index (`Find` of `Lifecycle`).
- A viewer whose write fails in the middle of a payload stays in the running
  state for ever (`Stuck`), and two ends that repeat requests can block each
  other for ever (`Wedged`).
- `imagefliph` is a pixel off: the first pixel of each line comes from the line
  below, that of the last line from behind the frame (`Aside` of `Scaling`).
- The record sent when the capture is set up may be that of the session before,
  or the defaults with camera number 0 (`Reinit` of `Camera`): it reaches the
  server before its answer is read. No picture goes with it (`PictureAsTold`).
- A camera that found its server and cannot connect tries the same address for
  ever (`ConnectFails`): a server that moved meanwhile is not looked for again.
- Each frame passed over costs the driver a buffer until the capture is set up
  anew (`Dequeue`), which may be the "half frame rate" the comment at K:737 wonders
  about.
- The frame numbers of the last camera are never reported: the loop at S:414 ends
  before `JC_MAX_CAMS`.

## 6. Plan

Built in this order: `SettingsSync` with its abstract specification and proofs,
`CameraSlots` with proofs, `ImageStore`, `Transport`, `Viewer`, the services
and their composition, the proofs about images, transport and the server, and
`Camera` and `Scaling` with theirs.

Worth doing next: the tabbed viewer, whose requests for many cameras share one `sent_reqid`.

### Not modelled, and why

Discovery and the status page answer one request from state they only read.
The Raspberry Pi camera is the V4L camera but for its pins and an id made of the
board's serial number: `Camera` with `id` true. Of the cameras, the delay that
steers the frame rate, the temperature of the board and the option `-1` are left
out; of image processing, JPEG, captions, test cards and YUV. The archive
browser is an unfinished copy of the viewer. The utilities generate keys; the
bridge and the command line client speak an older protocol. XForms is
third-party and `src/jcamsys/jcamsys_common` an older copy of the common code:
these two, with fonts, forms and generated headers, are most of the repository's
lines, which is why the mapped share of it is small. The write of the settings
file is one step: a server that dies within it finds a short file and starts with
defaults. A save that fails or is cut short while the server lives is in
`SettingsSync`. Of the status page's process, the child it forks for a request is left
out. Clients ignore sensors of type `JC_MAX_SENSTYPE`-1 and above (V:595, X:915);
`Sensors` is of the types below.
