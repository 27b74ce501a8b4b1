---------------------------- MODULE SettingsSync ----------------------------
(***************************************************************************)
(* How a camera's settings travel between the consoles that edit them, the  *)
(* server's shared memory and the camera that obeys them.                   *)
(*                                                                          *)
(* The server forks one child per connection.  The children share cs[], the *)
(* settings records, and cs_changed[], one change counter per camera; no    *)
(* lock guards either.  A child's loop (jc_server) compares each counter    *)
(* with its own copy pcs_changed[], tells its client about the cameras whose *)
(* counter moved, then handles at most one message.  A console marks the    *)
(* settings it sends with request id 101, which asks its child not to send   *)
(* the next change back.                                                    *)
(*                                                                          *)
(* A settings record is abstracted to the number of the edit that made it:  *)
(* 0 is a record never received, 1 what the server started with.  The       *)
(* counter is incremented by a load and a store, as the compiler may emit   *)
(* it; between the two any other child can run.                             *)
(***************************************************************************)
EXTENDS Naturals, Sequences

CONSTANTS
  Consoles,     \* the clients with role console
  MaxCams,      \* JC_MAX_CAMS
  Feeders,      \* the camera numbers that have a camera attached
  Wrap,         \* cs_changed[] is a uint16_t: 65536
  SavesFail,    \* may the file refuse a save, or take a part of it
  Numbers101,   \* may a record of the server bear the request number 101
  MaxQueue,     \* bound: a child that finds this many messages unread waits
  MaxEdits,     \* bound: edits made by all users together
  MaxSetups,    \* bound: times a camera sets its capture up again
  MaxConnects   \* bound: connections made by all clients together

Cams == 1..MaxCams
Clients == Consoles \cup Feeders

ASSUME SettingsAssumption ==
  /\ MaxCams \in Nat \ {0}
  /\ Feeders \subseteq Cams
  /\ Consoles \cap Cams = {}
  /\ Wrap \in Nat \ {0}
  /\ SavesFail \in BOOLEAN /\ Numbers101 \in BOOLEAN
  /\ MaxQueue \in Nat \ {0}
  /\ MaxEdits \in Nat
  /\ MaxSetups \in Nat
  /\ MaxConnects \in Nat

VARIABLES
  cs,        \* jcsm->cs[n]: [v |-> edit, w |-> how many times it was written]
  changed,   \* jcsm->cs_changed[n]
  disk,      \* jcamsys_camerasettings.dat
  child,     \* per client, the locals of the server child that serves it
  open,      \* is the client connected
  up,        \* bytes on their way to the server, as messages
  down,      \* messages on their way to the client
  local,     \* what the client holds: a console's cs[], a camera's jcs
  seen,      \* the write number of the last record the client received
  sel,       \* a console's selected_cam
  pend,      \* a console's sendcamsettings
  sendnow,   \* a camera's sendnow
  reinit,    \* a camera's reinit: capture has to be set up again
  torn,      \* cameras whose counter was stored over another child's increment
             \* and not found moved since by the camera's own child
  lost,      \* cameras whose record was still to be saved by a child that left, or
             \* whose save failed
  edits,     \* edits so far
  setups,    \* capture setups so far
  connects   \* connections so far

server == <<cs, changed, disk, torn, lost>>
client == <<local, seen, sel, pend, sendnow, reinit>>
vars == <<server, child, open, up, down, client, edits, setups, connects>>

MaskMsg == [type |-> "messagemask"]
RegisterMsg == [type |-> "register"]
SettingsMsg(n, val, q) == [type |-> "camerasettings", cam |-> n, v |-> val, quiet |-> q]
UpMsg == {MaskMsg, RegisterMsg}
           \cup [type : {"camerasettings"}, cam : Cams, v : Nat, quiet : BOOLEAN]

\* A settings record on its way to a client, as jc_msg_camerasettings sends it.
Record(n) == [cam |-> n, v |-> cs[n].v, w |-> cs[n].w]
DownMsg == [cam : Cams, v : Nat, w : Nat]

\* The locals a child starts with.  at is the index of its scan of cs_changed[];
\* MaxCams+1 is the read that follows the scan.
Fresh == [stage |-> "loop", at |-> 1, cam |-> 1, tmp |-> 0,
          pcs |-> [n \in Cams |-> changed[n] + 20],
          mask |-> FALSE, dontsend |-> FALSE, save |-> FALSE, feeder |-> 0]

Idle == [Fresh EXCEPT !.pcs = [n \in Cams |-> 0]]

Child == [stage : {"loop", "load", "store"}, at : 1..(MaxCams + 1), cam : Cams,
          tmp : 0..(Wrap - 1), pcs : [Cams -> Nat], mask : BOOLEAN,
          dontsend : BOOLEAN, save : BOOLEAN, feeder : 0..MaxCams]

Init ==
  /\ cs = [n \in Cams |-> [v |-> 1, w |-> 0]]
  /\ disk = cs
  /\ changed = [n \in Cams |-> 0]
  /\ child = [c \in Clients |-> Idle]
  /\ open = [c \in Clients |-> FALSE]
  /\ up = [c \in Clients |-> <<>>]
  /\ down = [c \in Clients |-> <<>>]
  /\ local = [c \in Clients |-> [n \in Cams |-> 0]]
  /\ seen = [c \in Clients |-> [n \in Cams |-> 0]]
  /\ sel = [k \in Consoles |-> 1]
  /\ pend = [k \in Consoles |-> FALSE]
  /\ sendnow = [f \in Feeders |-> FALSE]
  /\ reinit = [f \in Feeders |-> FALSE]
  /\ torn = {}
  /\ lost = {}
  /\ edits = 0
  /\ setups = 0
  /\ connects = 0

-----------------------------------------------------------------------------
(* The server child.                                                        *)

\* The child's step leaves its locals as in r.
Become(c, r) == child' = [child EXCEPT ![c] = r]

AtTop(c) == child[c].stage = "loop" /\ child[c].at = 1
AtRead(c) == child[c].stage = "loop" /\ child[c].at = MaxCams + 1
Moved(c, n) == changed[n] # child[c].pcs[n]

\* Mutant: only the message mask decides, also for the child's own camera.
NoticeMasked(c, n) == IF child[c].mask /\ ~child[c].dontsend THEN <<Record(n)>> ELSE <<>>

\* What the child sends when it finds camera n's counter moved: to a client
\* that asked for camera settings, unless dontsend is up, and to camera n.
Notice(c, n) ==
  (IF child[c].mask /\ ~child[c].dontsend THEN <<Record(n)>> ELSE <<>>)
    \o (IF child[c].feeder = n THEN <<Record(n)>> ELSE <<>>)

Room(c, msgs) == msgs = <<>> \/ Len(down[c]) < MaxQueue

\* dontsend is cleared by the first change it suppresses, whichever it is.  The
\* child that serves the camera has now caught up with the counter, however it
\* came to its value.
ScanCam(c) ==
  LET n == child[c].at IN
  /\ open[c] /\ child[c].stage = "loop" /\ n \in Cams
  /\ IF Moved(c, n)
       THEN /\ Room(c, Notice(c, n))
            /\ Become(c, [child[c] EXCEPT !.at = n + 1,
                                          !.pcs = [@ EXCEPT ![n] = changed[n]],
                                          !.dontsend = @ /\ ~child[c].mask])
            /\ down' = [down EXCEPT ![c] = @ \o Notice(c, n)]
            /\ torn' = IF c = n THEN torn \ {n} ELSE torn
       ELSE /\ Become(c, [child[c] EXCEPT !.at = n + 1])
            /\ UNCHANGED <<down, torn>>
  /\ UNCHANGED <<cs, changed, disk, lost, open, up, client, edits, setups, connects>>

\* Nothing to read: the loop starts again.  A turn that would find no counter
\* moved changes nothing and is left out.
ReadNothing(c) ==
  /\ open[c] /\ AtRead(c) /\ up[c] = <<>>
  /\ \E n \in Cams : Moved(c, n)
  /\ Become(c, [child[c] EXCEPT !.at = 1])
  /\ UNCHANGED <<server, open, up, down, client, edits, setups, connects>>

ReadMsg(c, t) == open[c] /\ AtRead(c) /\ up[c] # <<>> /\ Head(up[c]).type = t

HandleMask(c) ==
  /\ ReadMsg(c, "messagemask")
  /\ up' = [up EXCEPT ![c] = Tail(@)]
  /\ Become(c, [child[c] EXCEPT !.mask = TRUE, !.at = 1])
  /\ UNCHANGED <<server, open, down, client, edits, setups, connects>>

\* savefile truncates the file it opens: it leaves all records, or none of them (open
\* fails, and the file is as it was), or the first ones.
NoRecord == [v |-> 0, w |-> 0]
Cut(k) == [n \in Cams |-> IF n <= k THEN cs[n] ELSE NoRecord]
Files == {cs} \cup IF SavesFail THEN {disk} \cup {Cut(k) : k \in 0..MaxCams} ELSE {}
Unsaved(file) == {n \in Cams : cs[n] # file[n]}

\* Mutant: registration answers with the records as they were last saved.
RegisterReplyFromDisk(c) ==
  LET Saved(n) == [cam |-> n, v |-> disk[n].v, w |-> disk[n].w]
  IN IF c \in Consoles THEN [n \in Cams |-> Saved(n)] ELSE <<Saved(c)>>

\* A console is sent every record; a camera its own, and the file is written
\* there and then, whoever else has changes to save.  If nothing is written the child
\* exits, as it may at any time (Disconnect).
RegisterReply(c) == IF c \in Consoles THEN [n \in Cams |-> Record(n)] ELSE <<Record(c)>>

HandleRegister(c) ==
  /\ ReadMsg(c, "register")
  /\ up' = [up EXCEPT ![c] = Tail(@)]
  /\ down' = [down EXCEPT ![c] = @ \o RegisterReply(c)]
  /\ Become(c, [child[c] EXCEPT !.at = 1, !.feeder = IF c \in Feeders THEN c ELSE 0])
  /\ IF c \in Feeders THEN disk' \in Files /\ lost' = Unsaved(disk')
                       ELSE UNCHANGED <<disk, lost>>
  /\ UNCHANGED <<cs, changed, torn, open, client, edits, setups, connects>>

\* JC_MSG_CAMERASETTINGS: the record is copied over the shared one, and the
\* increment of the counter follows in two more steps.
CopyRecord(c, save) ==
  /\ ReadMsg(c, "camerasettings")
  /\ LET m == Head(up[c]) IN
     /\ cs' = [cs EXCEPT ![m.cam] = [v |-> m.v, w |-> @.w + 1]]
     /\ Become(c, [child[c] EXCEPT !.stage = "load", !.cam = m.cam, !.save = save,
                                   !.dontsend = @ \/ m.quiet])
  /\ up' = [up EXCEPT ![c] = Tail(@)]
  /\ UNCHANGED <<changed, disk, torn, lost, open, down, client, edits, setups, connects>>

\* Mutant: the save is left to the child that serves the camera itself.
HandleSettingsUnsaved(c) == CopyRecord(c, child[c].feeder # 0)

HandleSettings(c) == CopyRecord(c, TRUE)

LoadCounter(c) ==
  /\ child[c].stage = "load"
  /\ Become(c, [child[c] EXCEPT !.stage = "store", !.tmp = changed[child[c].cam]])
  /\ UNCHANGED <<server, open, up, down, client, edits, setups, connects>>

StoreWith(c, value) ==
  /\ child[c].stage = "store"
  /\ changed' = [changed EXCEPT ![child[c].cam] = value]
  /\ Become(c, [child[c] EXCEPT !.stage = "loop", !.at = 1, !.cam = 1, !.tmp = 0])
  /\ torn' = IF changed[child[c].cam] # child[c].tmp THEN torn \cup {child[c].cam} ELSE torn
  /\ UNCHANGED <<cs, disk, lost, open, up, down, client, edits, setups, connects>>

\* Mutants: a flag in place of the counter; a counter that runs downwards.
StoreFlag(c) == StoreWith(c, 1)
StoreDown(c) == StoreWith(c, child[c].tmp - 1)

StoreCounter(c) == StoreWith(c, (child[c].tmp + 1) % Wrap)

\* The first turn of the loop in a new second, when save_cs is up.  The flag goes first,
\* and a save that fails is not tried again.
SaveTick(c) ==
  /\ open[c] /\ child[c].save
  /\ AtTop(c) \/ (AtRead(c) /\ up[c] = <<>>)
  /\ disk' \in Files
  /\ lost' = Unsaved(disk')
  /\ Become(c, [child[c] EXCEPT !.save = FALSE, !.at = 1])
  /\ UNCHANGED <<cs, changed, torn, open, up, down, client, edits, setups, connects>>

-----------------------------------------------------------------------------
(* Connections.                                                             *)

\* A console sends its mask before it registers.  A camera's mask asks for no
\* camera settings, so only its registration matters here.
Connect(c) ==
  /\ ~open[c] /\ connects < MaxConnects
  /\ open' = [open EXCEPT ![c] = TRUE]
  /\ Become(c, Fresh)
  /\ up' = [up EXCEPT ![c] = IF c \in Consoles THEN <<MaskMsg, RegisterMsg>>
                                               ELSE <<RegisterMsg>>]
  /\ connects' = connects + 1
  /\ UNCHANGED <<server, down, client, edits, setups>>

\* The socket closes: the child finishes its turn and exits, and with it goes
\* its save_cs.  What neither side has read is gone.
Disconnect(c) ==
  /\ open[c] /\ child[c].stage = "loop"
  /\ open' = [open EXCEPT ![c] = FALSE]
  /\ up' = [up EXCEPT ![c] = <<>>]
  /\ down' = [down EXCEPT ![c] = <<>>]
  /\ Become(c, Idle)
  /\ lost' = IF child[c].save THEN Unsaved(disk) ELSE lost
  /\ sendnow' = [f \in Feeders |-> IF f = c THEN FALSE ELSE sendnow[f]]
  /\ UNCHANGED <<cs, changed, disk, torn, local, seen, sel, pend, reinit, edits, setups, connects>>

\* The client's process ends and is started again: it holds no records.
Restart(c) ==
  /\ ~open[c] /\ \E n \in Cams : local[c][n] # 0
  /\ local' = [local EXCEPT ![c] = [n \in Cams |-> 0]]
  /\ sel' = [k \in Consoles |-> IF k = c THEN 1 ELSE sel[k]]
  /\ pend' = [k \in Consoles |-> k # c /\ pend[k]]
  /\ reinit' = [f \in Feeders |-> f # c /\ reinit[f]]
  /\ UNCHANGED <<server, child, open, up, down, seen, sendnow, edits, setups, connects>>

-----------------------------------------------------------------------------
(* The console.                                                             *)

SelectCam(k, n) ==
  /\ sel[k] # n
  /\ sel' = [sel EXCEPT ![k] = n]
  /\ UNCHANGED <<server, child, open, up, down, local, seen, pend, sendnow, reinit,
                 edits, setups, connects>>

\* The user moves a control of the selected camera's form.  An edit made before
\* the camera's record arrived carries camera number 0 and reaches no camera.
Edit(k) ==
  /\ local[k][sel[k]] # 0 /\ edits < MaxEdits
  /\ edits' = edits + 1
  /\ local' = [local EXCEPT ![k][sel[k]] = edits + 2]
  /\ pend' = [pend EXCEPT ![k] = TRUE]
  /\ UNCHANGED <<server, child, open, up, down, seen, sel, sendnow, reinit, setups, connects>>

\* timer_cb sends the record of the camera that is selected now, as the console
\* holds it now.  Without a connection it is sent to nobody.
TimerSend(k) ==
  /\ pend[k]
  /\ pend' = [pend EXCEPT ![k] = FALSE]
  /\ up' = IF open[k] /\ local[k][sel[k]] # 0
             THEN [up EXCEPT ![k] = Append(@, SettingsMsg(sel[k], local[k][sel[k]], TRUE))]
             ELSE up
  /\ UNCHANGED <<server, child, open, down, local, seen, sel, sendnow, reinit,
                 edits, setups, connects>>

\* A record under request number 101 is taken for the console's own and ignored.  The
\* server numbers what it sends, so now and then one of its own is.
ConsoleRecv(k) ==
  /\ down[k] # <<>>
  /\ LET m == Head(down[k]) IN
     \/ /\ local' = [local EXCEPT ![k][m.cam] = m.v]
        /\ seen' = [seen EXCEPT ![k][m.cam] = m.w]
     \/ Numbers101 /\ UNCHANGED <<local, seen>>
  /\ down' = [down EXCEPT ![k] = Tail(@)]
  /\ UNCHANGED <<server, child, open, up, sel, pend, sendnow, reinit, edits, setups, connects>>

-----------------------------------------------------------------------------
(* The camera.                                                              *)

\* The first record of a session is sent back; a record that asks for another
\* picture size makes the capture be set up again.
CamRecv(f) ==
  /\ down[f] # <<>>
  /\ LET m == Head(down[f]) IN
     /\ local' = [local EXCEPT ![f][f] = m.v]
     /\ seen' = [seen EXCEPT ![f][m.cam] = m.w]
     /\ up' = IF sendnow[f] THEN up
              ELSE [up EXCEPT ![f] = Append(@, SettingsMsg(f, m.v, FALSE))]
     /\ \E again \in IF m.v # local[f][f] THEN BOOLEAN ELSE {FALSE} :
          reinit' = [reinit EXCEPT ![f] = @ \/ again]
  /\ sendnow' = [sendnow EXCEPT ![f] = TRUE]
  /\ down' = [down EXCEPT ![f] = Tail(@)]
  /\ UNCHANGED <<server, child, open, sel, pend, edits, setups, connects>>

\* capture_init ends with send_camerasettings: the server is told of the size
\* that was obtained, in a copy of the whole record.
CamReinit(f) ==
  /\ reinit[f] /\ setups < MaxSetups
  /\ setups' = setups + 1
  /\ reinit' = [reinit EXCEPT ![f] = FALSE]
  /\ up' = IF open[f] THEN [up EXCEPT ![f] = Append(@, SettingsMsg(f, local[f][f], FALSE))]
                      ELSE up
  /\ UNCHANGED <<server, child, open, down, local, seen, sel, pend, sendnow,
                 edits, connects>>

-----------------------------------------------------------------------------
ChildStep(c) ==
  \/ ScanCam(c) \/ ReadNothing(c)
  \/ HandleMask(c) \/ HandleRegister(c) \/ HandleSettings(c)
  \/ LoadCounter(c) \/ StoreCounter(c)

ConsoleStep(k) == TimerSend(k) \/ ConsoleRecv(k)
CamStep(f) == CamRecv(f) \/ CamReinit(f)

Next ==
  \/ \E c \in Clients : ChildStep(c) \/ SaveTick(c) \/ Connect(c) \/ Disconnect(c) \/ Restart(c)
  \/ \E k \in Consoles : ConsoleStep(k) \/ Edit(k) \/ \E n \in Cams : SelectCam(k, n)
  \/ \E f \in Feeders : CamStep(f)

Spec == Init /\ [][Next]_vars

\* Every process is scheduled: a child polls its socket and its counters every
\* millisecond, the seconds pass, the console's timer runs and both clients read
\* their sockets.  Users and connections owe nothing.
Fairness ==
  /\ \A c \in Clients : WF_vars(ChildStep(c)) /\ WF_vars(SaveTick(c))
  /\ \A k \in Consoles : WF_vars(ConsoleStep(k))
  /\ \A f \in Feeders : WF_vars(CamStep(f))

FairSpec == Spec /\ Fairness

-----------------------------------------------------------------------------
(* What makes it correct.                                                   *)

Version == [v : Nat, w : Nat]

\* Every variable has its type (the layout of struct sharedmem and the locals
\* of a child).
TypeOK ==
  /\ cs \in [Cams -> Version] /\ disk \in [Cams -> Version]
  /\ changed \in [Cams -> 0..(Wrap - 1)]
  /\ child \in [Clients -> Child]
  /\ open \in [Clients -> BOOLEAN]
  /\ up \in [Clients -> Seq(UpMsg)]
  /\ down \in [Clients -> Seq(DownMsg)]
  /\ local \in [Clients -> [Cams -> Nat]] /\ seen \in [Clients -> [Cams -> Nat]]
  /\ sel \in [Consoles -> Cams] /\ pend \in [Consoles -> BOOLEAN]
  /\ sendnow \in [Feeders -> BOOLEAN] /\ reinit \in [Feeders -> BOOLEAN]
  /\ torn \subseteq Cams /\ lost \subseteq Cams
  /\ edits \in Nat /\ setups \in Nat /\ connects \in Nat

\* A record that differs from the one on disk has a child that will save it,
\* or was left behind by a child that exited with its save still to do or by a save
\* that failed: no other path loses a save (save_cs, set by JC_MSG_CAMERASETTINGS).
UnsavedIsFlagged ==
  \A n \in Cams : cs[n] # disk[n] =>
    n \in lost \/ \E c \in Clients : open[c] /\ child[c].save

\* Camera f's side of the system is at rest: nothing queued for it or by it, no
\* child in the middle of an increment, and its own child has seen the counter.
AtRest(f) ==
  /\ up[f] = <<>> /\ down[f] = <<>> /\ ~reinit[f]
  /\ \A c \in Clients : child[c].stage = "loop"
  /\ ~Moved(f, f)

Obeys(f) == open[f] /\ child[f].feeder = f /\ AtRest(f) => local[f][f] = cs[f].v

\* A registered camera at rest obeys the record the server holds, whatever the
\* interleaving of edits, echoes and scans was, as long as no child stored its
\* counter over another's increment since the camera's own child last found the
\* counter moved.
CameraCurrent == \A f \in Feeders \ torn : Obeys(f)

\* The same without the exception: "the camera has no local settings".
CameraAlwaysCurrent == \A f \in Feeders : Obeys(f)

\* A console that asked for every camera's settings and registered, with
\* nothing in flight, shows what the server holds ("server should send us any
\* camera settings change").
ConsoleCurrent ==
  \A k \in Consoles, n \in Cams :
    /\ open[k] /\ child[k].mask /\ up[k] = <<>> /\ down[k] = <<>> /\ ~pend[k]
    /\ \A c \in Clients : child[c].stage = "loop"
    /\ ~Moved(k, n)
    => local[k][n] = cs[n].v

\* No client is ever given a record older than one it already had, over any
\* number of reconnections: the children and the clients implement a store with
\* monotonic reads.
Reads == INSTANCE MonotonicReads
           WITH Readers <- Clients, Items <- Cams,
                version <- [n \in Cams |-> cs[n].w], view <- seen
MonotonicReads == Reads!Spec

\* A camera that stays registered and has done with setting up its capture ends up
\* obeying the server's record, once the users have stopped editing (with the exception
\* of CameraCurrent).  That it has done is a premise: two records of different sizes on
\* their way between the two make the camera set up and send for each of them, and the
\* server send it back, for ever (main, capture_init).
CameraEventuallyCurrent ==
  \A f \in Feeders :
    <>[](open[f] /\ child[f].feeder = f /\ f \notin torn /\ ~reinit[f])
      => <>[](local[f][f] = cs[f].v)

\* A changed record reaches the disk ("defer saving for a while").
EveryChangeSaved == \A n \in Cams : cs[n].v # disk[n].v ~> cs[n].v = disk[n].v

=============================================================================
