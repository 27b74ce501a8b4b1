----------------------------- MODULE CameraSlots -----------------------------
(***************************************************************************)
(* How the server ties a camera to a camera number: the table of ids in      *)
(* shared memory, its copy on disk, and the handler of JC_MSG_REGISTER that   *)
(* looks an id up, claims a free slot for it and saves the table.            *)
(*                                                                          *)
(* Every session is served by a child of its own; nothing orders the children *)
(* between the lookup, the claim and the save.  A console writes whole       *)
(* records, ids included, from the copy it last received.                    *)
(*                                                                          *)
(* An id the server makes is a digest of rand() seeded with the second it is  *)
(* made in, so an id is that second; 0 is the blank id.                      *)
(***************************************************************************)
EXTENDS Naturals, FiniteSets

CONSTANTS
  Devices,      \* the cameras
  Sessions,     \* names for connections and the children that serve them
  None,         \* no session
  MaxCams,      \* JC_MAX_CAMS
  MaxTime,      \* bound: seconds
  MaxConnects,  \* bound: connections
  MaxWrites,    \* bound: ids that writes and cameras write over another
  MaxRestarts   \* bound: restarts of the server

ASSUME SlotsAssumption ==
  /\ None \notin Sessions /\ None \notin Devices
  /\ MaxCams \in Nat \ {0}
  /\ MaxTime \in Nat \ {0}
  /\ MaxConnects \in Nat /\ MaxWrites \in Nat
  /\ MaxRestarts \in Nat

Cams == 1..MaxCams

\* Both loops over the table run to MaxCams+1: cs[MaxCams+1] is past its end,
\* where struct sharedmem holds the archiver's comment.
Beyond == MaxCams + 1
Slots == 1..Beyond
Text == MaxTime + 1
Ids == 1..MaxTime
Entry == 0..Text

VARIABLES
  id,        \* jcsm->cs[n].id; at Beyond the first bytes of archive_comment
  disk,      \* the ids in jcamsys_camerasettings.dat
  sess,      \* the children: [dev, stage, id, slot]
  conn,      \* the session a device believes it has, or None
  devid,     \* the registration a device has stored, 0 when it has none
  held,      \* the settings record the device holds: its camera and the id in it
  view,      \* the record a console is editing: its camera and the id in the copy
  now,       \* the second
  home,      \* where an id was when its registration was first saved
  twins,     \* ids the server made twice
  blamed,    \* slots found by two children at once, and slots whose id was
             \* changed by a record someone sent
  connects, writes, restarts

table == <<id, disk>>
device == <<conn, devid, held>>
ghost == <<home, twins, blamed>>
count == <<connects, writes, restarts>>
vars == <<table, sess, device, view, now, ghost, count>>

Free == [dev |-> None, stage |-> "free", id |-> 0, slot |-> 0]

\* The record a camera starts with names no camera.
NoRecord == [cam |-> 0, id |-> 0]

\* What cameras hold when those of D have lost their connection: what they held, and
\* when the bound allows no further session, nothing.
HeldWithout(D) ==
  IF connects < MaxConnects THEN held
  ELSE [d \in Devices |-> IF d \in D THEN NoRecord ELSE held[d]]

Session == [dev : Devices \cup {None},
            stage : {"free", "connected", "named", "found", "taken", "feeding", "refused"},
            id : 0..MaxTime, slot : 0..Beyond]

Init ==
  /\ id = [n \in Slots |-> 0]
  /\ disk = [n \in Cams |-> 0]
  /\ sess = [s \in Sessions |-> Free]
  /\ conn = [d \in Devices |-> None]
  /\ devid = [d \in Devices |-> 0]
  /\ held = [d \in Devices |-> NoRecord]
  /\ view = [cam |-> 1, id |-> 0]
  /\ now = 1
  /\ home = [i \in Ids |-> 0]
  /\ twins = {} /\ blamed = {}
  /\ connects = 0 /\ writes = 0 /\ restarts = 0

Become(s, r) == sess' = [sess EXCEPT ![s] = r]

-----------------------------------------------------------------------------
(* Registration, step by step.                                              *)

Connect(s, d) ==
  /\ conn[d] = None /\ sess[s].stage = "free" /\ connects < MaxConnects
  /\ connects' = connects + 1
  /\ conn' = [conn EXCEPT ![d] = s]
  /\ Become(s, [dev |-> d, stage |-> "connected", id |-> devid[d], slot |-> 0])
  /\ UNCHANGED <<table, devid, held, view, now, ghost, writes, restarts>>

\* random_md5: the child sleeps a second, then seeds rand() with the time.
\* Whatever id comes first, another child may have made it in the same second.
Name(s) ==
  /\ sess[s].stage = "connected"
  /\ IF sess[s].id # 0
       THEN Become(s, [sess[s] EXCEPT !.stage = "named"]) /\ UNCHANGED twins
       ELSE /\ Become(s, [sess[s] EXCEPT !.stage = "named", !.id = now])
            /\ twins' = IF \/ \E t \in Sessions : sess[t].id = now
                           \/ \E d \in Devices : devid[d] = now \/ held[d].id = now
                           \/ \E n \in Slots : id[n] = now
                           \/ \E n \in Cams : disk[n] = now
                           \/ view.id = now
                          THEN twins \cup {now} ELSE twins
  /\ UNCHANGED <<table, device, view, now, home, blamed, count>>

LowestOf(S) == CHOOSE n \in S : \A m \in S : n <= m

\* Mutant: the lookup stops one slot short, as the other loops over cameras do.
FindSlotShort(i) ==
  LET mine == {n \in 1..(MaxCams - 1) : id[n] = i}
      free == {n \in Slots : id[n] = 0}
  IN IF mine # {} THEN LowestOf(mine) ELSE IF free # {} THEN LowestOf(free) ELSE 0

\* Mutant: a slot is free when the file says so.
FindSlotOnDisk(i) ==
  LET mine == {n \in Slots : id[n] = i}
      free == {n \in Cams : disk[n] = 0} \cup {Beyond}
  IN IF mine # {} THEN LowestOf(mine) ELSE LowestOf(free)

\* jc_camera_find_slot, then jc_camera_find_free_slot; 0 for JC_ERR.
FindSlot(i) ==
  LET mine == {n \in Slots : id[n] = i}
      free == {n \in Slots : id[n] = 0}
  IN IF mine # {} THEN LowestOf(mine) ELSE IF free # {} THEN LowestOf(free) ELSE 0

Find(s) ==
  /\ sess[s].stage = "named"
  /\ LET n == FindSlot(sess[s].id) IN
     Become(s, [sess[s] EXCEPT !.stage = IF n = 0 THEN "refused" ELSE "found", !.slot = n])
  /\ UNCHANGED <<table, device, view, now, ghost, count>>

\* Two children found the same slot for different ids and neither has claimed it.
Overlap(s, t) ==
  /\ sess[t].stage = "found" /\ sess[t].slot = sess[s].slot /\ sess[t].id # sess[s].id

\* The id is copied into the slot and the record sent to the camera.
Take(s) ==
  /\ sess[s].stage = "found"
  /\ id' = [id EXCEPT ![sess[s].slot] = sess[s].id]
  /\ blamed' = IF \E t \in Sessions \ {s} : Overlap(s, t) THEN blamed \cup {sess[s].slot}
                                                          ELSE blamed
  /\ Become(s, [sess[s] EXCEPT !.stage = "taken"])
  /\ UNCHANGED <<disk, device, view, now, home, twins, count>>

\* Mutant: the file is one slot longer than the table.
TableOnDiskLong == [n \in Slots |-> id[n]]

\* The file holds the table's own slots only.
TableOnDisk == [n \in Cams |-> id[n]]

\* Mutant: registration leaves the save to save_cs.
SaveLater(s) ==
  /\ sess[s].stage = "taken"
  /\ Become(s, [sess[s] EXCEPT !.stage = "feeding"])
  /\ home' = [home EXCEPT ![sess[s].id] = IF @ = 0 THEN sess[s].slot ELSE @]
  /\ UNCHANGED <<table, device, view, now, twins, blamed, count>>

Save(s) ==
  /\ sess[s].stage = "taken"
  /\ disk' = TableOnDisk
  /\ Become(s, [sess[s] EXCEPT !.stage = "feeding"])
  /\ home' = [home EXCEPT ![sess[s].id] = IF @ = 0 THEN sess[s].slot ELSE @]
  /\ UNCHANGED <<id, device, view, now, twins, blamed, count>>

\* The file could not be written: the child exits and the slot stays claimed.
SaveFails(s) ==
  /\ sess[s].stage = "taken"
  /\ Become(s, Free)
  /\ conn' = [d \in Devices |-> IF conn[d] = s THEN None ELSE conn[d]]
  /\ held' = HeldWithout({d \in Devices : conn[d] = s})
  /\ UNCHANGED <<table, devid, view, now, ghost, count>>

-----------------------------------------------------------------------------
(* The camera.                                                              *)

\* JC_MSG_REGISTER comes back only to a camera that had no id.
StoreId(d) ==
  /\ conn[d] # None /\ devid[d] = 0
  /\ sess[conn[d]].stage \notin {"connected"}
  /\ devid' = [devid EXCEPT ![d] = sess[conn[d]].id]
  /\ UNCHANGED <<table, sess, conn, held, view, now, ghost, count>>

Fed(d) == conn[d] # None /\ sess[conn[d]].stage \in {"taken", "feeding"}

RecordOf(n) == [cam |-> n, id |-> id[n]]

\* A record for the camera's slot arrives, at registration or on a change.  Once no
\* record can be sent any more, what is received makes no difference (ConsoleReceive too).
Receive(d) ==
  /\ Fed(d) /\ writes < MaxWrites /\ held[d] # RecordOf(sess[conn[d]].slot)
  /\ held' = [held EXCEPT ![d] = RecordOf(sess[conn[d]].slot)]
  /\ UNCHANGED <<table, sess, conn, devid, view, now, ghost, count>>

\* The record of slot n is overwritten with one that carries id i.
Overwrite(n, i) ==
  /\ id[n] # i /\ writes < MaxWrites
  /\ writes' = writes + 1
  /\ id' = [id EXCEPT ![n] = i]
  /\ blamed' = blamed \cup {n}

\* The camera sends its record, which carries the number and the id it was received
\* with, perhaps in an earlier session: when the capture is set up before the record of
\* this one has arrived.  The child reads it once it has done with the registration.
Echo(d) ==
  /\ Fed(d) /\ sess[conn[d]].stage = "feeding" /\ held[d].cam # 0
  /\ Overwrite(held[d].cam, held[d].id)
  /\ UNCHANGED <<disk, sess, device, view, now, home, twins, connects, restarts>>

\* The connection is lost, and its child may not notice for a long time.  The camera
\* keeps its record; one that is started anew holds none and sends none back until it
\* receives one, which is a case of this.
Drop(d) ==
  /\ conn[d] # None
  /\ conn' = [conn EXCEPT ![d] = None]
  /\ held' = HeldWithout({d})
  /\ UNCHANGED <<table, sess, devid, view, now, ghost, count>>

\* The child notices, in its loop.
End(s) ==
  /\ sess[s].stage \in {"connected", "feeding", "refused"}
  /\ \A d \in Devices : conn[d] # s
  /\ Become(s, Free)
  /\ UNCHANGED <<table, device, view, now, ghost, count>>

-----------------------------------------------------------------------------
(* Everyone else.                                                           *)

ConsoleReceive(n) ==
  /\ writes < MaxWrites
  /\ view' = [cam |-> n, id |-> id[n]]
  /\ UNCHANGED <<table, sess, device, now, ghost, count>>

ConsoleSend ==
  /\ Overwrite(view.cam, view.id)
  /\ UNCHANGED <<disk, sess, device, view, now, home, twins, connects, restarts>>

\* Some child's save_cs.
SaveTick ==
  /\ disk' = TableOnDisk
  /\ UNCHANGED <<id, sess, device, view, now, ghost, count>>

\* jc_archiver_add_image reports what it wrote.
ArchiveComment ==
  /\ id' = [id EXCEPT ![Beyond] = Text]
  /\ UNCHANGED <<disk, sess, device, view, now, ghost, count>>

Tick ==
  /\ now < MaxTime
  /\ now' = now + 1
  /\ UNCHANGED <<table, sess, device, view, ghost, count>>

\* The server is stopped at any point and started again: main loads the file.
Restart ==
  /\ restarts < MaxRestarts
  /\ restarts' = restarts + 1
  /\ id' = [n \in Slots |-> IF n \in Cams THEN disk[n] ELSE 0]
  /\ sess' = [s \in Sessions |-> Free]
  /\ conn' = [d \in Devices |-> None]
  /\ held' = HeldWithout(Devices)
  /\ UNCHANGED <<disk, devid, view, now, ghost, connects, writes>>

Next ==
  \/ \E s \in Sessions, d \in Devices : Connect(s, d)
  \/ \E s \in Sessions : Name(s) \/ Find(s) \/ Take(s) \/ Save(s) \/ SaveFails(s) \/ End(s)
  \/ \E d \in Devices : StoreId(d) \/ Receive(d) \/ Echo(d) \/ Drop(d)
  \/ \E n \in Cams : ConsoleReceive(n)
  \/ ConsoleSend \/ SaveTick \/ ArchiveComment \/ Tick \/ Restart

Spec == Init /\ [][Next]_vars

-----------------------------------------------------------------------------
(* What makes it correct.                                                   *)

\* Every variable has its type (struct sharedmem, struct jcamsys_register).
TypeOK ==
  /\ id \in [Slots -> Entry] /\ disk \in [Cams -> Entry]
  /\ sess \in [Sessions -> Session]
  /\ conn \in [Devices -> Sessions \cup {None}]
  /\ devid \in [Devices -> 0..MaxTime] /\ held \in [Devices -> [cam : 0..Beyond, id : Entry]]
  /\ view \in [cam : Cams, id : Entry]
  /\ now \in Ids
  /\ home \in [Ids -> 0..Beyond]
  /\ twins \subseteq Ids /\ blamed \subseteq Slots
  /\ connects \in Nat /\ writes \in Nat /\ restarts \in Nat

Holds(s) == sess[s].stage \in {"taken", "feeding"}

\* Two cameras feed one slot only if the server made them the same id, two
\* registrations overlapped on it, or its record was overwritten with another
\* id: dropped connections, children that linger, failed saves and restarts
\* never bring it about.
SlotExclusive ==
  \A s, t \in Sessions :
    /\ Holds(s) /\ Holds(t) /\ sess[s].slot = sess[t].slot
    /\ sess[s].slot \notin blamed /\ sess[s].id \notin twins
    => sess[s].dev = sess[t].dev

\* A camera whose registration was saved has its slot, in memory and on disk,
\* from then on, through any restart (the handler saves before it goes on).
SlotRemembered ==
  \A i \in Ids : home[i] \in Cams \ blamed => id[home[i]] = i /\ disk[home[i]] = i

\* So a camera that comes back is given the number it had: "the service can
\* remember user settings, tying the camera number to a specific camera (by id)".
ReturnsHome ==
  [][\A s \in Sessions :
       Find(s) /\ blamed = {} /\ home[sess[s].id] \in Cams
         => sess'[s].slot = home[sess[s].id]]_vars

\* "Camera number 1..JC_MAX_CAMS".
SlotInTable == \A s \in Sessions : sess[s].slot <= MaxCams

=============================================================================
