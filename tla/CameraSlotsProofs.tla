-------------------------- MODULE CameraSlotsProofs --------------------------
(***************************************************************************)
(* Proofs about CameraSlots, for any cameras, any number of children and     *)
(* slots, and any bounds: its types, that two cameras share a slot for no     *)
(* other cause than the three it names, that a saved registration is kept,    *)
(* and that a camera returns to the number it had.                           *)
(***************************************************************************)
EXTENDS CameraSlots, WellFoundedInduction, TLAPS

USE SlotsAssumption

-----------------------------------------------------------------------------
(* The lookup.                                                              *)

\* A set of slot numbers that is not empty has a lowest element, and LowestOf
\* chooses it (the first match of the loops in jc_camera_find_slot).
LEMMA LowestOfSome ==
  ASSUME NEW S \in SUBSET Nat, S # {}
  PROVE  LowestOf(S) \in S /\ \A m \in S : LowestOf(S) <= m
<1> DEFINE R == OpToRel(<, Nat)
<1>1. IsWellFoundedOn(R, Nat)
  BY NatLessThanWellFounded
<1>2. \A y, x \in Nat : y < x => <<y, x>> \in R
  BY DEF OpToRel
<1> HIDE DEF R
<1>3. PICK x \in S : \A y \in S : ~(<<y, x>> \in R)
  BY <1>1, WFMin, Zenon
<1>4. \A y \in S : x <= y
  <2> TAKE y \in S
  <2>1. y \in Nat /\ x \in Nat
    OBVIOUS
  <2>2. ~(y < x)
    BY <1>2, <1>3, <2>1
  <2> QED BY <2>1, <2>2
<1> QED BY <1>3, <1>4 DEF LowestOf

\* The slots are those of the table and the one past it.
LEMMA SlotNumbers ==
  /\ Slots \in SUBSET Nat /\ Cams \subseteq Slots /\ Slots = Cams \cup {Beyond}
  /\ Beyond \in Slots /\ Beyond \notin Cams /\ 0 \notin Slots
  /\ Slots \subseteq 0..Beyond /\ \A n \in Cams : n < Beyond
BY DEF Slots, Cams, Beyond

\* The lookup finds the lowest slot with the id, failing that the lowest free
\* one, failing that none (FindSlot).
LEMMA Lookup ==
  ASSUME NEW i \in Ids
  PROVE  LET n == FindSlot(i) IN
         \/ n \in Slots /\ id[n] = i
         \/ /\ n \in Slots /\ id[n] = 0 /\ \A m \in Slots : id[m] # i
            /\ \A m \in Slots : id[m] = 0 => n <= m
         \/ n = 0 /\ \A m \in Slots : id[m] # i /\ id[m] # 0
<1> DEFINE mine == {n \in Slots : id[n] = i}
           free == {n \in Slots : id[n] = 0}
<1>1. mine \in SUBSET Nat /\ free \in SUBSET Nat
  BY SlotNumbers
<1>2. FindSlot(i) = IF mine # {} THEN LowestOf(mine)
                    ELSE IF free # {} THEN LowestOf(free) ELSE 0
  BY DEF FindSlot
<1>3. CASE mine # {}
  <2>1. LowestOf(mine) \in mine
    BY <1>1, <1>3, LowestOfSome
  <2> QED BY <1>2, <1>3, <2>1
<1>4. CASE mine = {} /\ free # {}
  <2>1. LowestOf(free) \in free /\ \A m \in free : LowestOf(free) <= m
    BY <1>1, <1>4, LowestOfSome
  <2> QED BY <1>2, <1>4, <2>1
<1>5. CASE mine = {} /\ free = {}
  BY <1>2, <1>5
<1> QED BY <1>3, <1>4, <1>5

-----------------------------------------------------------------------------
(* Types.                                                                   *)

\* A child that knows its camera's id knows one the server made, and the slot it
\* has found is one of the slots.
Proper(r) ==
  /\ r \in Session
  /\ r.stage \in {"named", "found", "taken", "feeding", "refused"} => r.id \in Ids
  /\ r.stage \in {"found", "taken", "feeding"} => r.slot \in Slots

\* TypeOK with what makes it inductive.
Sound == TypeOK /\ \A s \in Sessions : Proper(sess[s])

\* The slots, the ids and the entries of the table, and their ranges.
LEMMA Parts ==
  /\ 0 \in Entry /\ Text \in Entry /\ Ids \subseteq Entry
  /\ Ids \subseteq 0..MaxTime /\ 0..MaxTime \subseteq Entry
  /\ 0 \notin Ids /\ Text \notin Ids /\ Text # 0 /\ 1 \in Ids /\ 1 \in Cams
  /\ \A i \in 0..MaxTime : i = 0 \/ i \in Ids
  /\ 0 \in 0..MaxTime /\ 0 \in 0..Beyond /\ 0 \in Nat
BY DEF Entry, Text, Ids, Cams, Beyond

\* The locals of a child have the types of their parts.
LEMMA Locals ==
  ASSUME Sound, NEW s \in Sessions
  PROVE  /\ sess[s] \in Session /\ sess[s].id \in 0..MaxTime /\ sess[s].slot \in 0..Beyond
         /\ sess[s].stage \in {"named", "found", "taken", "feeding", "refused"}
              => sess[s].id \in Ids
         /\ sess[s].stage \in {"found", "taken", "feeding"} => sess[s].slot \in Slots
BY DEF Sound, Proper, Session

\* A child that leaves proper locals keeps all children's locals proper (Become).
LEMMA BecomeProper ==
  ASSUME Sound, NEW s \in Sessions, NEW r, Proper(r), Become(s, r)
  PROVE  /\ sess' \in [Sessions -> Session]
         /\ \A t \in Sessions : Proper(sess'[t])
         /\ sess'[s] = r /\ \A t \in Sessions \ {s} : sess'[t] = sess[t]
<1>1. sess \in [Sessions -> Session] /\ r \in Session
  BY DEF Sound, TypeOK, Proper
<1>2. sess'[s] = r /\ \A t \in Sessions \ {s} : sess'[t] = sess[t]
  BY <1>1 DEF Become
<1>3. sess' \in [Sessions -> Session]
  BY <1>1 DEF Become
<1> QED BY <1>2, <1>3 DEF Sound

\* A child that serves nobody is proper (Free).
LEMMA FreeProper == Proper(Free)
<1>1. Free \in Session
  BY Parts DEF Free, Session
<1> QED BY <1>1 DEF Proper, Free

Records == [cam : 0..Beyond, id : Entry]

\* A new camera holds a record of no camera (NoRecord).
LEMMA NoneHeld == NoRecord \in Records
BY Parts, SlotNumbers DEF NoRecord, Records, Entry, Beyond, Text

\* The server starts with an empty table and no children (Init).
LEMMA InitSound == Init => Sound
<1> SUFFICES ASSUME Init PROVE Sound
  OBVIOUS
<1>1. sess \in [Sessions -> Session]
  BY FreeProper DEF Init, Proper
<1>2. \A s \in Sessions : Proper(sess[s])
  BY FreeProper DEF Init
<1>3. view \in [cam : Cams, id : Entry]
  BY Parts DEF Init
<1>4. home \in [Ids -> 0..Beyond]
  BY Parts DEF Init
<1>5. held \in [Devices -> [cam : 0..Beyond, id : Entry]]
  BY NoneHeld DEF Init, Records
<1> QED BY <1>1, <1>2, <1>3, <1>4, <1>5, Parts DEF Init, TypeOK, Sound

\* A child on its way to a slot stays proper (Connect, Name, Find).
LEMMA LookupSound ==
  ASSUME Sound, NEW s \in Sessions,
         (\E d \in Devices : Connect(s, d)) \/ Name(s) \/ Find(s)
  PROVE  Sound'
<1>1. ASSUME NEW d \in Devices, Connect(s, d) PROVE Sound'
  <2> DEFINE r == [dev |-> d, stage |-> "connected", id |-> devid[d], slot |-> 0]
  <2>1. Proper(r)
    <3>1. devid[d] \in 0..MaxTime
      BY DEF Sound, TypeOK
    <3> QED BY <3>1, Parts DEF Proper, Session
  <2>2. Become(s, r)
    BY <1>1 DEF Connect
  <2>3. sess' \in [Sessions -> Session] /\ \A t \in Sessions : Proper(sess'[t])
    BY <2>1, <2>2, BecomeProper
  <2>4. conn' \in [Devices -> Sessions \cup {None}]
    BY <1>1 DEF Connect, Sound, TypeOK
  <2> QED BY <1>1, <2>3, <2>4 DEF Connect, Sound, TypeOK, table, ghost
<1>2. CASE Name(s)
  <2> DEFINE r == [sess[s] EXCEPT !.stage = "named"]
             q == [sess[s] EXCEPT !.stage = "named", !.id = now]
  <2>1. now \in 0..MaxTime /\ now \in Ids
    BY Parts DEF Sound, TypeOK
  <2>2. sess[s] \in Session /\ sess[s].id \in 0..MaxTime
    BY Locals
  <2>3. (sess[s].id # 0 => Proper(r)) /\ Proper(q)
    BY <2>1, <2>2, Parts DEF Session, Proper
  <2>4. (sess[s].id # 0 /\ Become(s, r)) \/ Become(s, q)
    BY <1>2 DEF Name
  <2> HIDE DEF r, q
  <2>5. sess' \in [Sessions -> Session] /\ \A t \in Sessions : Proper(sess'[t])
    BY <2>3, <2>4, BecomeProper
  <2>6. twins' \subseteq Ids
    BY <1>2, <2>1 DEF Name, Sound, TypeOK
  <2> QED BY <1>2, <2>5, <2>6 DEF Name, Sound, TypeOK, table, device, count
<1>3. CASE Find(s)
  <2> DEFINE n == FindSlot(sess[s].id)
             r == [sess[s] EXCEPT !.stage = IF n = 0 THEN "refused" ELSE "found", !.slot = n]
  <2>1. sess[s] \in Session /\ sess[s].id \in Ids
    BY <1>3, Locals DEF Find
  <2>2. n = 0 \/ n \in Slots
    BY <2>1, Lookup
  <2>3. n \in 0..Beyond
    BY <2>2, SlotNumbers, Parts
  <2>4. Become(s, r)
    BY <1>3 DEF Find
  <2>5. Proper(r)
    <3> HIDE DEF n
    <3>1. r \in Session
      BY <2>1, <2>3 DEF Session
    <3> QED BY <2>1, <2>2, <3>1 DEF Proper, Session
  <2> HIDE DEF r
  <2>6. sess' \in [Sessions -> Session] /\ \A t \in Sessions : Proper(sess'[t])
    BY <2>4, <2>5, BecomeProper
  <2> QED BY <1>3, <2>6 DEF Find, Sound, TypeOK, table, device, ghost, count
<1> QED BY <1>1, <1>2, <1>3

\* What cameras keep of it when they lose their connection (Drop, SaveFails, Restart).
LEMMA StillHeld ==
  ASSUME Sound, NEW D
  PROVE  HeldWithout(D) \in [Devices -> Records]
BY NoneHeld DEF HeldWithout, Records, Sound, TypeOK

\* The claim of a slot, its save and the end of a child keep all locals proper
\* (Take, Save, SaveFails, End).
LEMMA ClaimSound ==
  ASSUME Sound, NEW s \in Sessions, Take(s) \/ Save(s) \/ SaveFails(s) \/ End(s)
  PROVE  Sound'
<1>1. /\ sess[s] \in Session /\ sess[s].id \in Entry /\ sess[s].slot \in 0..Beyond
      /\ sess[s].stage \in {"found", "taken"} => sess[s].id \in Ids /\ sess[s].slot \in Slots
  BY Locals, Parts
<1>2. CASE Take(s)
  <2> DEFINE r == [sess[s] EXCEPT !.stage = "taken"]
  <2>1. Become(s, r) /\ sess[s].stage = "found"
    BY <1>2 DEF Take
  <2>2. Proper(r)
    BY <1>1, <2>1 DEF Session, Proper
  <2> HIDE DEF r
  <2>3. sess' \in [Sessions -> Session] /\ \A t \in Sessions : Proper(sess'[t])
    BY <2>1, <2>2, BecomeProper
  <2>4. id' \in [Slots -> Entry]
    BY <1>1, <1>2 DEF Take, Sound, TypeOK
  <2>5. blamed' \subseteq Slots
    BY <1>1, <1>2, <2>1 DEF Take, Sound, TypeOK
  <2> QED BY <1>2, <2>3, <2>4, <2>5 DEF Take, Sound, TypeOK, device, count
<1>3. CASE Save(s)
  <2> DEFINE r == [sess[s] EXCEPT !.stage = "feeding"]
  <2>1. Become(s, r) /\ sess[s].stage = "taken"
    BY <1>3 DEF Save
  <2>2. Proper(r)
    BY <1>1, <2>1 DEF Session, Proper
  <2> HIDE DEF r
  <2>3. sess' \in [Sessions -> Session] /\ \A t \in Sessions : Proper(sess'[t])
    BY <2>1, <2>2, BecomeProper
  <2>4. disk' \in [Cams -> Entry]
    BY <1>3, SlotNumbers DEF Save, TableOnDisk, Sound, TypeOK
  <2>5. home' \in [Ids -> 0..Beyond]
    BY <1>1, <1>3 DEF Save, Sound, TypeOK
  <2> QED BY <1>3, <2>3, <2>4, <2>5 DEF Save, Sound, TypeOK, device, count
<1>4. CASE SaveFails(s)
  <2>1. sess' \in [Sessions -> Session] /\ \A t \in Sessions : Proper(sess'[t])
    BY <1>4, FreeProper, BecomeProper DEF SaveFails
  <2>2. conn' \in [Devices -> Sessions \cup {None}]
    BY <1>4 DEF SaveFails, Sound, TypeOK
  <2>3. held' \in [Devices -> Records]
    BY <1>4, StillHeld DEF SaveFails
  <2> QED BY <1>4, <2>1, <2>2, <2>3 DEF SaveFails, Records, Sound, TypeOK, table, ghost, count
<1>5. CASE End(s)
  <2>1. sess' \in [Sessions -> Session] /\ \A t \in Sessions : Proper(sess'[t])
    BY <1>5, FreeProper, BecomeProper DEF End
  <2> QED BY <1>5, <2>1 DEF End, Sound, TypeOK, table, device, ghost, count
<1> QED BY <1>2, <1>3, <1>4, <1>5

\* What a camera can send back is a record of a slot (Echo).
LEMMA HeldSlot ==
  ASSUME Sound, NEW d \in Devices, held[d].cam # 0
  PROVE  held[d].cam \in Slots /\ held[d].id \in Entry
<1>1. held[d] \in Records
  BY DEF Sound, TypeOK, Records
<1> QED BY <1>1, SlotNumbers DEF Records, Slots, Beyond

\* What a camera stores and sends back is typed (StoreId, Receive, Echo, Drop).
LEMMA DeviceSound ==
  ASSUME Sound, NEW d \in Devices, StoreId(d) \/ Receive(d) \/ Echo(d) \/ Drop(d)
  PROVE  Sound'
<1>1. conn[d] # None => conn[d] \in Sessions
  BY DEF Sound, TypeOK
<1>2. CASE StoreId(d)
  <2>1. sess[conn[d]].id \in 0..MaxTime
    BY <1>1, <1>2, Locals DEF StoreId
  <2>2. devid' \in [Devices -> 0..MaxTime]
    BY <1>2, <2>1 DEF StoreId, Sound, TypeOK
  <2> QED BY <1>2, <2>2 DEF StoreId, Sound, TypeOK, table, ghost, count
<1>3. CASE Receive(d)
  <2>1. sess[conn[d]].slot \in Slots
    BY <1>1, <1>3, Locals DEF Receive, Fed
  <2>2. RecordOf(sess[conn[d]].slot) \in Records
    BY <2>1, SlotNumbers DEF RecordOf, Records, Sound, TypeOK
  <2>3. held' \in [Devices -> Records]
    BY <1>3, <2>2 DEF Receive, Records, Sound, TypeOK
  <2> QED BY <1>3, <2>3 DEF Receive, Records, Sound, TypeOK, table, ghost, count
<1>4. CASE Echo(d)
  <2>1. held[d].cam \in Slots /\ held[d].id \in Entry
    BY <1>4, HeldSlot DEF Echo
  <2>3. id' \in [Slots -> Entry] /\ blamed' \subseteq Slots /\ writes' \in Nat
    BY <1>4, <2>1 DEF Echo, Overwrite, Sound, TypeOK
  <2> QED BY <1>4, <2>3 DEF Echo, Sound, TypeOK, device
<1>5. CASE Drop(d)
  <2>1. conn' \in [Devices -> Sessions \cup {None}]
    BY <1>5 DEF Drop, Sound, TypeOK
  <2>2. held' \in [Devices -> Records]
    BY <1>5, StillHeld DEF Drop
  <2> QED BY <1>5, <2>1, <2>2 DEF Drop, Records, Sound, TypeOK, table, ghost, count
<1> QED BY <1>2, <1>3, <1>4, <1>5

\* Consoles, saves, the archiver, the clock and a restart keep every type
\* (ConsoleReceive, ConsoleSend, SaveTick, ArchiveComment, Tick, Restart).
LEMMA OtherSound ==
  ASSUME Sound,
         \/ \E n \in Cams : ConsoleReceive(n)
         \/ ConsoleSend \/ SaveTick \/ ArchiveComment \/ Tick \/ Restart
  PROVE  Sound'
<1>1. ASSUME NEW n \in Cams, ConsoleReceive(n) PROVE Sound'
  <2>1. view' \in [cam : Cams, id : Entry]
    BY <1>1, SlotNumbers DEF ConsoleReceive, Sound, TypeOK
  <2> QED BY <1>1, <2>1 DEF ConsoleReceive, Sound, TypeOK, table, device, ghost, count
<1>2. CASE ConsoleSend
  <2>1. view.cam \in Slots /\ view.id \in Entry
    BY SlotNumbers DEF Sound, TypeOK
  <2>2. id' \in [Slots -> Entry] /\ blamed' \subseteq Slots /\ writes' \in Nat
    BY <1>2, <2>1 DEF ConsoleSend, Overwrite, Sound, TypeOK
  <2> QED BY <1>2, <2>2 DEF ConsoleSend, Sound, TypeOK, device
<1>3. CASE SaveTick
  <2>1. disk' \in [Cams -> Entry]
    BY <1>3, SlotNumbers DEF SaveTick, TableOnDisk, Sound, TypeOK
  <2> QED BY <1>3, <2>1 DEF SaveTick, Sound, TypeOK, device, ghost, count
<1>4. CASE ArchiveComment
  <2>1. id' \in [Slots -> Entry]
    BY <1>4, Parts DEF ArchiveComment, Sound, TypeOK
  <2> QED BY <1>4, <2>1 DEF ArchiveComment, Sound, TypeOK, device, ghost, count
<1>5. CASE Tick
  <2>1. now' \in Ids
    BY <1>5 DEF Tick, Ids, Sound, TypeOK
  <2> QED BY <1>5, <2>1 DEF Tick, Sound, TypeOK, table, device, ghost, count
<1>6. CASE Restart
  <2>1. id' \in [Slots -> Entry]
    BY <1>6, Parts DEF Restart, Sound, TypeOK
  <2>2. sess' \in [Sessions -> Session] /\ \A t \in Sessions : Proper(sess'[t])
    BY <1>6, FreeProper DEF Restart, Proper
  <2>3. conn' \in [Devices -> Sessions \cup {None}]
    BY <1>6 DEF Restart
  <2>4. held' \in [Devices -> Records]
    BY <1>6, StillHeld DEF Restart
  <2> QED BY <1>6, <2>1, <2>2, <2>3, <2>4 DEF Restart, Records, Sound, TypeOK, ghost
<1> QED BY <1>1, <1>2, <1>3, <1>4, <1>5, <1>6

\* Sound is inductive.
LEMMA NextSound == Sound /\ [Next]_vars => Sound'
<1> SUFFICES ASSUME Sound, [Next]_vars PROVE Sound'
  OBVIOUS
<1>1. CASE Next
  BY <1>1, LookupSound, ClaimSound, DeviceSound, OtherSound DEF Next
<1>2. CASE UNCHANGED vars
  BY <1>2 DEF vars, table, device, ghost, count, Sound, TypeOK
<1> QED BY <1>1, <1>2

\* The strengthened type invariant holds throughout.
LEMMA AlwaysSound == Spec => []Sound
BY InitSound, NextSound, PTL DEF Spec

\* Every variable keeps its type, whatever the cameras, the children, the
\* consoles and the archiver do to the table (struct sharedmem).
THEOREM TypeCorrect == Spec => []TypeOK
<1>1. Sound => TypeOK
  BY DEF Sound
<1> QED BY <1>1, AlwaysSound, PTL

-----------------------------------------------------------------------------
(* Who owns an id.                                                          *)

\* A device's connection is a living child of that device.
Connected ==
  \A d \in Devices : conn[d] # None => sess[conn[d]].dev = d /\ sess[conn[d]].stage # "free"

\* Whatever bears an id that was made only once belongs to one device.
OneOwner ==
  \A i \in Ids \ twins :
    /\ \A s, t \in Sessions : sess[s].id = i /\ sess[t].id = i => sess[s].dev = sess[t].dev
    /\ \A s \in Sessions, d \in Devices : sess[s].id = i /\ devid[d] = i => sess[s].dev = d
    /\ \A d, e \in Devices : devid[d] = i /\ devid[e] = i => d = e

Owned == Connected /\ OneOwner

\* At the start no device has an id and none is connected (Init).
LEMMA InitOwned == Init => Owned
BY Parts DEF Init, Owned, Connected, OneOwner, Free

\* A child that goes on with the camera and the id it has changes no ownership
\* (Find, Take, Save).
LEMMA MoveOwned ==
  ASSUME Sound, Owned, NEW s \in Sessions, NEW r, Proper(r), Become(s, r),
         r.dev = sess[s].dev, r.id = sess[s].id, r.stage # "free",
         UNCHANGED <<conn, devid, twins>>
  PROVE  Owned'
<1>1. sess'[s] = r /\ \A t \in Sessions \ {s} : sess'[t] = sess[t]
  BY BecomeProper
<1>2. \A t \in Sessions : sess'[t].dev = sess[t].dev /\ sess'[t].id = sess[t].id
  BY <1>1
<1>3. \A t \in Sessions : sess[t].stage # "free" => sess'[t].stage # "free"
  BY <1>1
<1>4. \A d \in Devices : conn[d] # None => conn[d] \in Sessions
  BY DEF Sound, TypeOK
<1>5. Connected'
  BY <1>2, <1>3, <1>4 DEF Owned, Connected
<1>6. OneOwner'
  BY <1>2 DEF Owned, OneOwner
<1> QED BY <1>5, <1>6 DEF Owned

\* A child that ends takes its camera's id with it (SaveFails, End).
LEMMA EndOwned ==
  ASSUME Sound, Owned, NEW s \in Sessions, Become(s, Free),
         \A d \in Devices : conn'[d] # s,
         \A d \in Devices : conn'[d] # None => conn'[d] = conn[d],
         UNCHANGED <<devid, twins>>
  PROVE  Owned'
<1>1. sess'[s] = Free /\ \A t \in Sessions \ {s} : sess'[t] = sess[t]
  BY FreeProper, BecomeProper
<1>2. Free.id \notin Ids
  BY Parts DEF Free
<1>3. \A d \in Devices : conn[d] # None => conn[d] \in Sessions
  BY DEF Sound, TypeOK
<1>4. Connected'
  BY <1>1, <1>3 DEF Owned, Connected
<1>5. OneOwner'
  BY <1>1, <1>2 DEF Owned, OneOwner
<1> QED BY <1>4, <1>5 DEF Owned

\* A new connection brings the id its device has stored (Connect).
LEMMA ConnectOwned ==
  ASSUME Sound, Owned, NEW s \in Sessions, NEW d \in Devices, Connect(s, d)
  PROVE  Owned'
<1> DEFINE r == [dev |-> d, stage |-> "connected", id |-> devid[d], slot |-> 0]
<1>1. sess'[s] = r /\ \A t \in Sessions \ {s} : sess'[t] = sess[t]
  <2>1. sess \in [Sessions -> Session]
    BY DEF Sound, TypeOK
  <2> QED BY <2>1 DEF Connect, Become
<1>2. conn' = [conn EXCEPT ![d] = s] /\ UNCHANGED <<devid, twins>>
  BY DEF Connect, ghost
<1>3. /\ conn \in [Devices -> Sessions \cup {None}]
      /\ sess[s].stage = "free"
  BY DEF Sound, TypeOK, Connect
<1>4. Connected'
  <2> SUFFICES ASSUME NEW e \in Devices, conn'[e] # None
               PROVE  sess'[conn'[e]].dev = e /\ sess'[conn'[e]].stage # "free"
    BY DEF Connected
  <2>1. CASE e = d
    BY <1>1, <1>2, <1>3, <2>1
  <2>2. CASE e # d
    <3>1. conn'[e] = conn[e] /\ conn[e] \in Sessions
      BY <1>2, <1>3, <2>2
    <3>2. conn[e] # s
      BY <1>3, <3>1 DEF Owned, Connected
    <3> QED BY <1>1, <3>1, <3>2 DEF Owned, Connected
  <2> QED BY <2>1, <2>2
<1>5. r.dev = d /\ r.id = devid[d]
  OBVIOUS
<1> HIDE DEF r
<1>6. OneOwner'
  <2> SUFFICES ASSUME NEW i \in Ids \ twins
               PROVE  /\ \A t, u \in Sessions : sess'[t].id = i /\ sess'[u].id = i
                                                  => sess'[t].dev = sess'[u].dev
                      /\ \A t \in Sessions, e \in Devices : sess'[t].id = i /\ devid[e] = i
                                                              => sess'[t].dev = e
                      /\ \A e, f \in Devices : devid[e] = i /\ devid[f] = i => e = f
    BY <1>2 DEF OneOwner
  <2>1. \A e, f \in Devices : devid[e] = i /\ devid[f] = i => e = f
    BY DEF Owned, OneOwner
  <2>2. \A t \in Sessions, e \in Devices :
          sess'[t].id = i /\ devid[e] = i => sess'[t].dev = e
    BY <1>1, <1>5, <2>1 DEF Owned, OneOwner
  <2>3. \A t, u \in Sessions :
          sess'[t].id = i /\ sess'[u].id = i => sess'[t].dev = sess'[u].dev
    <3> TAKE t, u \in Sessions
    <3> HAVE sess'[t].id = i /\ sess'[u].id = i
    <3>1. CASE t = s \/ u = s
      <4>1. devid[d] = i
        BY <1>1, <1>5, <3>1
      <4> QED BY <2>2, <4>1
    <3>2. CASE t # s /\ u # s
      BY <1>1, <3>2 DEF Owned, OneOwner
    <3> QED BY <3>1, <3>2
  <2> QED BY <2>1, <2>2, <2>3
<1> QED BY <1>4, <1>6 DEF Owned

\* An id is either new to everyone or one of those made twice (Name).
LEMMA NameOwned ==
  ASSUME Sound, Owned, NEW s \in Sessions, Name(s)
  PROVE  Owned'
<1> DEFINE q == [sess[s] EXCEPT !.stage = "named", !.id = now]
           r == [sess[s] EXCEPT !.stage = "named"]
<1>1. sess[s] \in Session /\ sess[s].id \in 0..MaxTime
  BY Locals
<1>2. CASE sess[s].id # 0
  <2>1. Become(s, r) /\ UNCHANGED <<conn, devid, twins>>
    BY <1>2 DEF Name, device
  <2>2. Proper(r)
    BY <1>1, <1>2, Parts DEF Session, Proper
  <2>3. r.dev = sess[s].dev /\ r.id = sess[s].id /\ r.stage # "free"
    BY <1>1 DEF Session
  <2> HIDE DEF r
  <2> QED BY <2>1, <2>2, <2>3, MoveOwned
<1>3. CASE sess[s].id = 0
  <2>1. Become(s, q) /\ UNCHANGED <<conn, devid>>
    BY <1>3 DEF Name, device
  <2>2. q.dev = sess[s].dev /\ q.id = now /\ q.stage = "named"
    BY <1>1 DEF Session
  <2>3. sess'[s] = q /\ \A t \in Sessions \ {s} : sess'[t] = sess[t]
    <3>1. sess \in [Sessions -> Session]
      BY DEF Sound, TypeOK
    <3> QED BY <2>1, <3>1 DEF Become
  <2> HIDE DEF q
  <2>4. /\ twins \subseteq twins'
        /\ now \notin twins' => /\ \A t \in Sessions : sess[t].id # now
                                /\ \A d \in Devices : devid[d] # now
    <3>1. now \in twins' \/ (/\ \A t \in Sessions : sess[t].id # now
                             /\ \A d \in Devices : devid[d] # now)
      BY <1>3 DEF Name
    <3>2. twins \subseteq twins'
      BY <1>3 DEF Name
    <3> QED BY <3>1, <3>2
  <2>5. \A d \in Devices : conn[d] # None => conn[d] \in Sessions
    BY DEF Sound, TypeOK
  <2>6. Connected'
    BY <2>1, <2>2, <2>3, <2>5 DEF Owned, Connected
  <2>7. OneOwner'
    BY <2>1, <2>2, <2>3, <2>4 DEF Owned, OneOwner
  <2> QED BY <2>6, <2>7 DEF Owned
<1> QED BY <1>2, <1>3

\* A camera stores the id of the child that serves it (StoreId).
LEMMA StoreOwned ==
  ASSUME Sound, Owned, NEW d \in Devices, StoreId(d)
  PROVE  Owned'
<1> DEFINE s == conn[d]
<1>1. s \in Sessions /\ sess[s].dev = d
  BY DEF Sound, TypeOK, StoreId, Owned, Connected
<1>2. /\ devid' = [devid EXCEPT ![d] = sess[s].id]
      /\ UNCHANGED <<sess, conn, twins>>
  BY DEF StoreId, ghost
<1> HIDE DEF s
<1>3. devid'[d] = sess[s].id /\ \A e \in Devices \ {d} : devid'[e] = devid[e]
  BY <1>2 DEF Sound, TypeOK
<1>4. OneOwner'
  <2> SUFFICES ASSUME NEW i \in Ids \ twins
               PROVE  /\ \A t, u \in Sessions : sess[t].id = i /\ sess[u].id = i
                                                  => sess[t].dev = sess[u].dev
                      /\ \A t \in Sessions, e \in Devices : sess[t].id = i /\ devid'[e] = i
                                                              => sess[t].dev = e
                      /\ \A e, f \in Devices : devid'[e] = i /\ devid'[f] = i => e = f
    BY <1>2 DEF OneOwner
  <2>1. \A t, u \in Sessions : sess[t].id = i /\ sess[u].id = i => sess[t].dev = sess[u].dev
    BY DEF Owned, OneOwner
  <2>2. \A t \in Sessions, e \in Devices :
          sess[t].id = i /\ devid'[e] = i => sess[t].dev = e
    <3> TAKE t \in Sessions, e \in Devices
    <3> HAVE sess[t].id = i /\ devid'[e] = i
    <3>1. CASE e = d
      BY <1>1, <1>3, <2>1, <3>1
    <3>2. CASE e # d
      BY <1>3, <3>2 DEF Owned, OneOwner
    <3> QED BY <3>1, <3>2
  <2>3. \A e, f \in Devices : devid'[e] = i /\ devid'[f] = i => e = f
    <3> TAKE e, f \in Devices
    <3> HAVE devid'[e] = i /\ devid'[f] = i
    <3>1. CASE e = d \/ f = d
      <4>1. sess[s].id = i
        BY <1>3, <3>1
      <4> QED BY <1>1, <2>2, <4>1
    <3>2. CASE e # d /\ f # d
      BY <1>3, <3>2 DEF Owned, OneOwner
    <3> QED BY <3>1, <3>2
  <2> QED BY <2>1, <2>2, <2>3
<1> QED BY <1>2, <1>4 DEF Owned, Connected

\* Ownership is inductive.
LEMMA NextOwned == Sound /\ Owned /\ [Next]_vars => Owned'
<1> SUFFICES ASSUME Sound, Owned, [Next]_vars PROVE Owned'
  OBVIOUS
<1>1. ASSUME NEW s \in Sessions, Find(s) \/ Take(s) \/ Save(s) PROVE Owned'
  <2> DEFINE n == FindSlot(sess[s].id)
             a == [sess[s] EXCEPT !.stage = IF n = 0 THEN "refused" ELSE "found", !.slot = n]
             b == [sess[s] EXCEPT !.stage = "taken"]
             c == [sess[s] EXCEPT !.stage = "feeding"]
  <2>1. sess[s] \in Session
    BY Locals
  <2>2. /\ Become(s, a) \/ Become(s, b) \/ Become(s, c)
        /\ UNCHANGED <<conn, devid, twins>>
    BY <1>1 DEF Find, Take, Save, device, ghost
  <2>3. /\ a.dev = sess[s].dev /\ a.id = sess[s].id /\ a.stage # "free"
        /\ b.dev = sess[s].dev /\ b.id = sess[s].id /\ b.stage # "free"
        /\ c.dev = sess[s].dev /\ c.id = sess[s].id /\ c.stage # "free"
    <3> HIDE DEF n
    <3> QED BY <2>1 DEF Session
  <2> HIDE DEF a, b, c
  <2>4. sess \in [Sessions -> Session]
    BY DEF Sound, TypeOK
  <2>5. \A t \in Sessions : sess'[t].dev = sess[t].dev /\ sess'[t].id = sess[t].id
    BY <2>2, <2>3, <2>4 DEF Become
  <2>6. \A t \in Sessions : sess[t].stage # "free" => sess'[t].stage # "free"
    BY <2>2, <2>3, <2>4 DEF Become
  <2>7. \A d \in Devices : conn[d] # None => conn[d] \in Sessions
    BY DEF Sound, TypeOK
  <2>8. Connected'
    BY <2>2, <2>5, <2>6, <2>7 DEF Owned, Connected
  <2>9. OneOwner'
    BY <2>2, <2>5 DEF Owned, OneOwner
  <2> QED BY <2>8, <2>9 DEF Owned
<1>2. ASSUME NEW s \in Sessions, SaveFails(s) \/ End(s) PROVE Owned'
  <2>1. Become(s, Free) /\ UNCHANGED <<devid, twins>>
    BY <1>2 DEF SaveFails, End, device, ghost
  <2>2. \A d \in Devices : conn'[d] # s /\ (conn'[d] # None => conn'[d] = conn[d])
    BY <1>2 DEF SaveFails, End, device
  <2> QED BY <2>1, <2>2, EndOwned
<1>3. ASSUME NEW d \in Devices, Drop(d) PROVE Owned'
  <2>1. /\ \A e \in Devices : conn'[e] # None => conn'[e] = conn[e]
        /\ UNCHANGED <<sess, devid, twins>>
    BY <1>3 DEF Drop, ghost, Sound, TypeOK
  <2> QED BY <2>1 DEF Owned, Connected, OneOwner
<1>4. CASE Restart
  <2>1. /\ \A d \in Devices : conn'[d] = None
        /\ \A s \in Sessions : sess'[s] = Free
        /\ UNCHANGED <<devid, twins>>
    BY <1>4 DEF Restart, ghost
  <2>2. Free.id \notin Ids
    BY Parts DEF Free
  <2> QED BY <2>1, <2>2 DEF Owned, Connected, OneOwner
<1>5. ASSUME UNCHANGED <<sess, conn, devid, twins>> PROVE Owned'
  BY <1>5 DEF Owned, Connected, OneOwner
<1>6. ASSUME NEW d \in Devices, Receive(d) \/ Echo(d) PROVE Owned'
  BY <1>6, <1>5 DEF Receive, Echo, device, ghost
<1>7. ASSUME \/ \E n \in Cams : ConsoleReceive(n)
             \/ ConsoleSend \/ SaveTick \/ ArchiveComment \/ Tick
      PROVE  Owned'
  BY <1>7, <1>5 DEF ConsoleReceive, ConsoleSend, SaveTick, ArchiveComment, Tick, device, ghost
<1>8. CASE UNCHANGED vars
  BY <1>8, <1>5 DEF vars, device, ghost
<1>9. CASE Next
  BY <1>9, <1>1, <1>2, <1>3, <1>4, <1>6, <1>7, ConnectOwned, NameOwned, StoreOwned DEF Next
<1> QED BY <1>8, <1>9

-----------------------------------------------------------------------------
(* Who holds a slot.                                                        *)

Found(s) == sess[s].stage = "found"

\* A slot that is held carries its holder's id, but for the archiver's comment.
Claimed ==
  \A s \in Sessions : Holds(s) /\ sess[s].slot \notin blamed =>
    id[sess[s].slot] = sess[s].id \/ (sess[s].slot = Beyond /\ id[Beyond] = Text)

\* Whoever holds or has found a slot that another holds has the other's id.
Agree ==
  \A s, t \in Sessions :
    Holds(s) /\ (Holds(t) \/ Found(t)) /\ sess[s].slot = sess[t].slot
      /\ sess[s].slot \notin blamed => sess[s].id = sess[t].id

\* Who found a remembered slot is who it is remembered for.
HomeFound ==
  \A i \in Ids, s \in Sessions :
    Found(s) /\ home[i] \in Cams \ blamed /\ sess[s].slot = home[i] => sess[s].id = i

Kept == Claimed /\ Agree /\ HomeFound /\ SlotRemembered

\* At the start nobody holds a slot and none is remembered (Init).
LEMMA InitKept == Init => Kept
<1> SUFFICES ASSUME Init PROVE Kept
  OBVIOUS
<1>1. \A s \in Sessions : ~Holds(s) /\ ~Found(s)
  BY DEF Init, Holds, Found, Free
<1>2. \A i \in Ids : home[i] \notin Cams
  BY DEF Init, Cams
<1> QED BY <1>1, <1>2 DEF Kept, Claimed, Agree, HomeFound, SlotRemembered

\* Where each child is, once it has changed its locals (Become).
LEMMA BecomeHolds ==
  ASSUME Sound, NEW s \in Sessions, NEW r, Become(s, r)
  PROVE  /\ Holds(s)' <=> r.stage \in {"taken", "feeding"}
         /\ Found(s)' <=> r.stage = "found"
         /\ sess'[s] = r
         /\ \A t \in Sessions \ {s} :
              /\ Holds(t)' <=> Holds(t)
              /\ Found(t)' <=> Found(t)
              /\ sess'[t] = sess[t]
<1>1. sess \in [Sessions -> Session]
  BY DEF Sound, TypeOK
<1>2. sess'[s] = r /\ \A t \in Sessions \ {s} : sess'[t] = sess[t]
  BY <1>1 DEF Become
<1> QED BY <1>2 DEF Holds, Found

\* A child that has no slot yet, or no longer, disturbs nobody's (Connect, Name,
\* SaveFails, End, and Find when the table is full).
LEMMA AwayKept ==
  ASSUME Sound, Kept, NEW s \in Sessions, NEW r, Become(s, r),
         r.stage \notin {"found", "taken", "feeding"},
         UNCHANGED <<id, disk, home, blamed>>
  PROVE  Kept'
<1>1. /\ ~Holds(s)' /\ ~Found(s)'
      /\ \A t \in Sessions : (Holds(t)' => Holds(t)) /\ (Found(t)' => Found(t))
      /\ \A t \in Sessions : Holds(t)' \/ Found(t)' => sess'[t] = sess[t]
  BY BecomeHolds
<1>2. Claimed'
  BY <1>1 DEF Kept, Claimed
<1>3. Agree'
  BY <1>1 DEF Kept, Agree
<1>4. HomeFound'
  BY <1>1 DEF Kept, HomeFound
<1>5. SlotRemembered'
  BY DEF Kept, SlotRemembered
<1> QED BY <1>2, <1>3, <1>4, <1>5 DEF Kept

\* A lookup finds a slot that is free or has the camera's id, so not one that
\* another id holds or is remembered in (Find).
LEMMA FindKept ==
  ASSUME Sound, Kept, NEW s \in Sessions, Find(s)
  PROVE  Kept'
<1> DEFINE n == FindSlot(sess[s].id)
           r == [sess[s] EXCEPT !.stage = IF n = 0 THEN "refused" ELSE "found", !.slot = n]
<1>1. sess[s] \in Session /\ sess[s].id \in Ids
  BY Locals DEF Find
<1>2. n = 0 \/ (n \in Slots /\ id[n] \in {0, sess[s].id})
  BY <1>1, Lookup
<1>3. Become(s, r) /\ UNCHANGED <<id, disk, home, blamed>>
  BY DEF Find, table, ghost
<1>4. r.id = sess[s].id /\ r.slot = n /\ r.stage = IF n = 0 THEN "refused" ELSE "found"
  <2> HIDE DEF n
  <2> QED BY <1>1 DEF Session
<1> HIDE DEF n, r
<1>5. CASE n = 0
  BY <1>3, <1>4, <1>5, AwayKept
<1>6. CASE n # 0
  <2>1. /\ ~Holds(s)' /\ sess'[s] = r
        /\ \A t \in Sessions \ {s} : /\ Holds(t)' <=> Holds(t)
                                     /\ Found(t)' <=> Found(t)
                                     /\ sess'[t] = sess[t]
    BY <1>3, <1>4, <1>6, BecomeHolds
  <2>2. Claimed'
    BY <1>3, <2>1 DEF Kept, Claimed
  <2>3. \A t \in Sessions : Holds(t) /\ sess[t].slot = n /\ n \notin blamed
                              => sess[t].id = sess[s].id
    <3> SUFFICES ASSUME NEW t \in Sessions, Holds(t), sess[t].slot = n, n \notin blamed
                 PROVE  sess[t].id = sess[s].id
      OBVIOUS
    <3>1. id[n] = sess[t].id \/ id[n] = Text
      BY DEF Kept, Claimed
    <3>2. sess[t].id \in Ids
      BY Locals DEF Holds
    <3> QED BY <1>1, <1>2, <1>6, <3>1, <3>2, Parts
  <2>4. Agree'
    BY <1>3, <1>4, <2>1, <2>3 DEF Kept, Agree
  <2>5. \A i \in Ids : home[i] \in Cams \ blamed /\ home[i] = n => sess[s].id = i
    BY <1>1, <1>2, <1>6, Parts DEF Kept, SlotRemembered
  <2>6. HomeFound'
    BY <1>3, <1>4, <2>1, <2>5 DEF Kept, HomeFound
  <2>7. SlotRemembered'
    BY <1>3 DEF Kept, SlotRemembered
  <2> QED BY <2>2, <2>4, <2>6, <2>7 DEF Kept
<1> QED BY <1>5, <1>6

\* A claim puts the id where nobody else's is, or the slot is blamed (Take).
LEMMA TakeKept ==
  ASSUME Sound, Kept, NEW s \in Sessions, Take(s)
  PROVE  Kept'
<1> DEFINE n == sess[s].slot
           r == [sess[s] EXCEPT !.stage = "taken"]
<1>1. Found(s) /\ sess[s] \in Session /\ n \in Slots /\ sess[s].id \in Ids
  BY Locals DEF Take, Found
<1>2. /\ Become(s, r) /\ UNCHANGED <<disk, home>>
      /\ id' = [id EXCEPT ![n] = sess[s].id]
  BY DEF Take
<1>3. r.id = sess[s].id /\ r.slot = n /\ r.stage = "taken"
  BY <1>1 DEF Session
<1>4. /\ blamed \subseteq blamed'
      /\ n \notin blamed' => \A t \in Sessions \ {s} :
           Found(t) /\ sess[t].slot = n => sess[t].id = sess[s].id
  BY DEF Take, Overlap, Found
<1>5. id'[n] = sess[s].id /\ \A m \in Slots \ {n} : id'[m] = id[m]
  BY <1>1, <1>2 DEF Sound, TypeOK
<1> HIDE DEF r
<1>6. /\ Holds(s)' /\ ~Found(s)' /\ sess'[s] = r
      /\ \A t \in Sessions \ {s} : /\ Holds(t)' <=> Holds(t)
                                   /\ Found(t)' <=> Found(t)
                                   /\ sess'[t] = sess[t]
  BY <1>2, <1>3, BecomeHolds
<1>7. \A t \in Sessions : Holds(t) /\ sess[t].slot = n /\ n \notin blamed'
                            => sess[t].id = sess[s].id
  BY <1>1, <1>4 DEF Kept, Agree
<1>8. \A t \in Sessions : Holds(t) \/ Found(t) => sess[t].slot \in Slots
  BY Locals DEF Holds, Found
<1>9. Claimed'
  <2> SUFFICES ASSUME NEW t \in Sessions, Holds(t)', sess'[t].slot \notin blamed'
               PROVE  \/ id'[sess'[t].slot] = sess'[t].id
                      \/ sess'[t].slot = Beyond /\ id'[Beyond] = Text
    BY DEF Claimed, Holds
  <2>1. CASE t = s
    BY <1>3, <1>5, <1>6, <2>1
  <2>2. CASE t # s /\ sess[t].slot = n
    BY <1>5, <1>6, <1>7, <2>2
  <2>3. CASE t # s /\ sess[t].slot # n
    <3>1. Holds(t) /\ sess[t].slot \in Slots /\ sess[t].slot \notin blamed
      BY <1>4, <1>6, <1>8, <2>3
    <3> QED BY <1>5, <1>6, <2>3, <3>1 DEF Kept, Claimed
  <2> QED BY <2>1, <2>2, <2>3
<1>10. Agree'
  <2> SUFFICES ASSUME NEW t \in Sessions, NEW u \in Sessions,
                      Holds(t)', Holds(u)' \/ Found(u)',
                      sess'[t].slot = sess'[u].slot, sess'[t].slot \notin blamed'
               PROVE  sess'[t].id = sess'[u].id
    BY DEF Agree, Holds, Found
  <2>1. CASE t = s /\ u = s
    BY <2>1
  <2>2. CASE t = s /\ u # s
    BY <1>3, <1>4, <1>6, <1>7, <2>2
  <2>3. CASE t # s /\ u = s
    BY <1>3, <1>6, <1>7, <2>3
  <2>4. CASE t # s /\ u # s
    BY <1>4, <1>6, <2>4 DEF Kept, Agree
  <2> QED BY <2>1, <2>2, <2>3, <2>4
<1>11. HomeFound'
  BY <1>2, <1>4, <1>6 DEF Kept, HomeFound
<1>12. SlotRemembered'
  <2> SUFFICES ASSUME NEW i \in Ids, home[i] \in Cams \ blamed'
               PROVE  id'[home[i]] = i /\ disk[home[i]] = i
    BY <1>2 DEF SlotRemembered
  <2>1. home[i] \in Slots /\ home[i] \in Cams \ blamed
    BY <1>4, SlotNumbers
  <2>2. home[i] = n => sess[s].id = i
    BY <1>1, <2>1 DEF Kept, HomeFound
  <2> QED BY <1>5, <2>1, <2>2 DEF Kept, SlotRemembered
<1> QED BY <1>9, <1>10, <1>11, <1>12 DEF Kept

\* The save puts on disk what is remembered, the new registration included (Save).
LEMMA SaveKept ==
  ASSUME Sound, Kept, NEW s \in Sessions, Save(s)
  PROVE  Kept'
<1> DEFINE n == sess[s].slot
           r == [sess[s] EXCEPT !.stage = "feeding"]
<1>1. Holds(s) /\ sess[s] \in Session /\ n \in Slots /\ sess[s].id \in Ids
  BY Locals DEF Save, Holds
<1>2. /\ Become(s, r) /\ UNCHANGED <<id, blamed>>
      /\ disk' = TableOnDisk
      /\ home' = [home EXCEPT ![sess[s].id] = IF @ = 0 THEN n ELSE @]
  BY DEF Save
<1>3. r.id = sess[s].id /\ r.slot = n /\ r.stage = "feeding"
  BY <1>1 DEF Session
<1> HIDE DEF r
<1>4. /\ Holds(s)' /\ ~Found(s)' /\ sess'[s] = r
      /\ \A t \in Sessions \ {s} : /\ Holds(t)' <=> Holds(t)
                                   /\ Found(t)' <=> Found(t)
                                   /\ sess'[t] = sess[t]
  BY <1>2, <1>3, BecomeHolds
<1>5. \A t \in Sessions : (Holds(t)' <=> Holds(t)) /\ sess'[t].id = sess[t].id
                            /\ sess'[t].slot = sess[t].slot
  BY <1>1, <1>3, <1>4
<1>6. \A t \in Sessions : Found(t)' <=> Found(t)
  BY <1>1, <1>4 DEF Holds, Found
<1>7. Claimed'
  BY <1>2, <1>5 DEF Kept, Claimed
<1>8. Agree'
  BY <1>2, <1>5, <1>6 DEF Kept, Agree
<1>9. /\ home'[sess[s].id] \in {home[sess[s].id], n}
      /\ \A i \in Ids \ {sess[s].id} : home'[i] = home[i]
  BY <1>1, <1>2 DEF Sound, TypeOK
<1>10. HomeFound'
  <2> SUFFICES ASSUME NEW i \in Ids, NEW t \in Sessions, Found(t),
                      home'[i] \in Cams \ blamed, sess[t].slot = home'[i]
               PROVE  sess[t].id = i
    BY <1>2, <1>5, <1>6 DEF HomeFound
  <2>1. CASE home'[i] = home[i]
    BY <2>1 DEF Kept, HomeFound
  <2>2. CASE home'[i] # home[i]
    <3>1. i = sess[s].id /\ home'[i] = n
      BY <1>9, <2>2
    <3> QED BY <1>1, <3>1 DEF Kept, Agree
  <2> QED BY <2>1, <2>2
<1>11. SlotRemembered'
  <2> SUFFICES ASSUME NEW i \in Ids, home'[i] \in Cams \ blamed
               PROVE  id[home'[i]] = i /\ disk'[home'[i]] = i
    BY <1>2 DEF SlotRemembered
  <2>1. disk'[home'[i]] = id[home'[i]]
    BY <1>2 DEF TableOnDisk
  <2>2. CASE home'[i] = home[i]
    BY <2>1, <2>2 DEF Kept, SlotRemembered
  <2>3. CASE home'[i] # home[i]
    <3>1. i = sess[s].id /\ home'[i] = n
      BY <1>9, <2>3
    <3>2. n # Beyond
      BY <3>1, SlotNumbers
    <3> QED BY <1>1, <2>1, <3>1, <3>2 DEF Kept, Claimed
  <2> QED BY <2>2, <2>3
<1> QED BY <1>7, <1>8, <1>10, <1>11 DEF Kept

\* A record overwritten with another id is blamed for what follows (Overwrite).
LEMMA OverwriteKept ==
  ASSUME Sound, Kept, NEW n \in Slots, NEW i, Overwrite(n, i), UNCHANGED <<sess, disk, home>>
  PROVE  Kept'
<1>1. n \in blamed' /\ blamed \subseteq blamed' /\ \A m \in Slots \ {n} : id'[m] = id[m]
  BY DEF Overwrite, Sound, TypeOK
<1>2. \A t \in Sessions : Holds(t) => sess[t].slot \in Slots
  BY Locals DEF Holds
<1>3. \A t \in Sessions : (Holds(t)' <=> Holds(t)) /\ (Found(t)' <=> Found(t))
  BY DEF Holds, Found
<1>4. Claimed'
  <2> SUFFICES ASSUME NEW t \in Sessions, Holds(t), sess[t].slot \notin blamed'
               PROVE  \/ id'[sess[t].slot] = sess[t].id
                      \/ sess[t].slot = Beyond /\ id'[Beyond] = Text
    BY <1>3 DEF Claimed
  <2>1. id'[sess[t].slot] = id[sess[t].slot] /\ sess[t].slot \notin blamed
    BY <1>1, <1>2
  <2> QED BY <2>1 DEF Kept, Claimed
<1>5. Agree'
  BY <1>1, <1>3 DEF Kept, Agree
<1>6. HomeFound'
  BY <1>1, <1>3 DEF Kept, HomeFound
<1>7. SlotRemembered'
  BY <1>1, SlotNumbers DEF Kept, SlotRemembered
<1> QED BY <1>4, <1>5, <1>6, <1>7 DEF Kept

\* The archiver's comment and a restart: the first touches no remembered slot, the
\* second brings back what the file remembers and ends every child
\* (ArchiveComment, Restart).
LEMMA RestKept ==
  ASSUME Sound, Kept, SaveTick \/ ArchiveComment \/ Restart
  PROVE  Kept'
<1>1. CASE SaveTick
  <2>1. UNCHANGED <<id, sess, home, blamed>> /\ \A n \in Cams : disk'[n] = id[n]
    BY <1>1 DEF SaveTick, TableOnDisk, ghost
  <2>2. SlotRemembered'
    BY <2>1 DEF Kept, SlotRemembered
  <2> QED BY <2>1, <2>2 DEF Kept, Claimed, Agree, HomeFound, Holds, Found
<1>2. CASE ArchiveComment
  <2>1. /\ UNCHANGED <<disk, sess, home, blamed>>
        /\ id'[Beyond] = Text /\ \A n \in Cams : id'[n] = id[n]
    BY <1>2, SlotNumbers DEF ArchiveComment, ghost, Sound, TypeOK
  <2>2. \A t \in Sessions : Holds(t) => sess[t].slot \in Cams \/ sess[t].slot = Beyond
    BY Locals, SlotNumbers DEF Holds
  <2>3. Claimed'
    BY <2>1, <2>2 DEF Kept, Claimed, Holds
  <2>4. SlotRemembered'
    BY <2>1 DEF Kept, SlotRemembered
  <2> QED BY <2>1, <2>3, <2>4 DEF Kept, Agree, HomeFound, Holds, Found
<1>3. CASE Restart
  <2>1. /\ UNCHANGED <<disk, home, blamed>> /\ \A t \in Sessions : sess'[t] = Free
        /\ \A n \in Cams : id'[n] = disk[n]
    BY <1>3, SlotNumbers DEF Restart, ghost
  <2>2. \A t \in Sessions : ~Holds(t)' /\ ~Found(t)'
    BY <2>1 DEF Holds, Found, Free
  <2>3. SlotRemembered'
    BY <2>1 DEF Kept, SlotRemembered
  <2> QED BY <2>2, <2>3 DEF Kept, Claimed, Agree, HomeFound
<1> QED BY <1>1, <1>2, <1>3

\* Who holds which slot, and what is remembered, is inductive.
LEMMA NextKept == Sound /\ Kept /\ [Next]_vars => Kept'
<1> SUFFICES ASSUME Sound, Kept, [Next]_vars PROVE Kept'
  OBVIOUS
<1>1. ASSUME NEW s \in Sessions, NEW d \in Devices, Connect(s, d) PROVE Kept'
  <2> DEFINE r == [dev |-> d, stage |-> "connected", id |-> devid[d], slot |-> 0]
  <2>1. Become(s, r) /\ UNCHANGED <<id, disk, home, blamed>>
    BY <1>1 DEF Connect, table, ghost
  <2> QED BY <2>1, AwayKept
<1>2. ASSUME NEW s \in Sessions, Name(s) PROVE Kept'
  <2> DEFINE r == [sess[s] EXCEPT !.stage = "named"]
             q == [sess[s] EXCEPT !.stage = "named", !.id = now]
  <2>1. (Become(s, r) \/ Become(s, q)) /\ UNCHANGED <<id, disk, home, blamed>>
    BY <1>2 DEF Name, table
  <2>2. r.stage = "named" /\ q.stage = "named"
    BY Locals DEF Session
  <2> HIDE DEF r, q
  <2> QED BY <2>1, <2>2, AwayKept
<1>3. ASSUME NEW s \in Sessions, SaveFails(s) \/ End(s) PROVE Kept'
  <2>1. Become(s, Free) /\ UNCHANGED <<id, disk, home, blamed>> /\ Free.stage = "free"
    BY <1>3 DEF SaveFails, End, table, ghost, Free
  <2> QED BY <2>1, AwayKept
<1>4. ASSUME NEW d \in Devices, Echo(d) PROVE Kept'
  <2>1. held[d].cam \in Slots
    BY <1>4, HeldSlot DEF Echo
  <2>2. Overwrite(held[d].cam, held[d].id) /\ UNCHANGED <<sess, disk, home>>
    BY <1>4 DEF Echo
  <2> QED BY <2>1, <2>2, OverwriteKept
<1>5. CASE ConsoleSend
  <2>1. view.cam \in Slots
    BY SlotNumbers DEF Sound, TypeOK
  <2>2. Overwrite(view.cam, view.id) /\ UNCHANGED <<sess, disk, home>>
    BY <1>5 DEF ConsoleSend
  <2> QED BY <2>1, <2>2, OverwriteKept
<1>6. ASSUME UNCHANGED <<id, disk, sess, home, blamed>> PROVE Kept'
  BY <1>6 DEF Kept, Claimed, Agree, HomeFound, SlotRemembered, Holds, Found
<1>7. ASSUME NEW d \in Devices, StoreId(d) \/ Receive(d) \/ Drop(d) PROVE Kept'
  BY <1>7, <1>6 DEF StoreId, Receive, Drop, table, ghost
<1>8. ASSUME (\E n \in Cams : ConsoleReceive(n)) \/ Tick PROVE Kept'
  BY <1>8, <1>6 DEF ConsoleReceive, Tick, table, ghost
<1>9. CASE UNCHANGED vars
  BY <1>9, <1>6 DEF vars, table, ghost
<1>10. CASE Next
  BY <1>10, <1>1, <1>2, <1>3, <1>4, <1>5, <1>7, <1>8, FindKept, TakeKept, SaveKept, RestKept
  DEF Next
<1> QED BY <1>9, <1>10

\* The three invariants together, for every behaviour.
LEMMA Invariant == Spec => [](Sound /\ Owned /\ Kept)
<1>1. Init => Sound /\ Owned /\ Kept
  BY InitSound, InitOwned, InitKept
<1>2. Sound /\ Owned /\ Kept /\ [Next]_vars => (Sound /\ Owned /\ Kept)'
  BY NextSound, NextOwned, NextKept
<1> QED BY <1>1, <1>2, PTL DEF Spec

\* Two cameras feed one slot only if the server made them the same id, two
\* registrations overlapped on it, or its record was overwritten.
THEOREM ExclusiveSlots == Spec => []SlotExclusive
<1>1. Sound /\ Owned /\ Kept => SlotExclusive
  <2> SUFFICES ASSUME Sound, Owned, Kept, NEW s \in Sessions, NEW t \in Sessions,
                      Holds(s), Holds(t), sess[s].slot = sess[t].slot,
                      sess[s].slot \notin blamed, sess[s].id \notin twins
               PROVE  sess[s].dev = sess[t].dev
    BY DEF SlotExclusive
  <2>1. sess[s].id = sess[t].id
    BY DEF Kept, Agree
  <2>2. sess[s].id \in Ids
    BY Locals DEF Holds
  <2> QED BY <2>1, <2>2 DEF Owned, OneOwner
<1> QED BY <1>1, Invariant, PTL

\* A saved registration keeps its slot, in memory and on disk, through restarts,
\* failed saves and everyone else's registrations (the save in JC_MSG_REGISTER).
THEOREM RememberedSlots == Spec => []SlotRemembered
<1>1. Kept => SlotRemembered
  BY DEF Kept
<1> QED BY <1>1, Invariant, PTL

-----------------------------------------------------------------------------
(* Coming home.                                                             *)

\* No id is in two slots, in memory or on disk.
UniqueIds == \A n, m \in Slots : id[n] \in Ids /\ id[n] = id[m] => n = m
UniqueDisk == \A n, m \in Cams : disk[n] \in Ids /\ disk[n] = disk[m] => n = m

\* The table has no free slot below n.
Below(n) == \A m \in Slots : m < n => id[m] # 0

\* What a child has found is what another lookup for the same id would find, and
\* what any other child found for it.
Steady(s) ==
  /\ \A n \in Slots : id[n] = sess[s].id => n = sess[s].slot
  /\ \/ id[sess[s].slot] = sess[s].id /\ sess[s].slot # Beyond
     \/ id[sess[s].slot] = 0 /\ Below(sess[s].slot)
     \/ sess[s].slot = Beyond /\ Below(Beyond) /\ id[Beyond] \in {sess[s].id, Text}
  /\ \A t \in Sessions : Found(t) /\ sess[t].id = sess[s].id => sess[t].slot = sess[s].slot

\* The slot past the end is claimed only when the table is full.
LastFull == id[Beyond] \in Ids => Below(Beyond)

Neat == UniqueIds /\ UniqueDisk /\ LastFull /\ \A s \in Sessions : Found(s) => Steady(s)

\* As long as there is no slot to blame.
Tidy == blamed = {} => Neat

\* An empty table is tidy (Init).
LEMMA InitTidy == Init => Tidy
<1> SUFFICES ASSUME Init PROVE Neat
  BY DEF Tidy
<1>1. \A s \in Sessions : ~Found(s)
  BY DEF Init, Found, Free
<1> QED BY <1>1, Parts, SlotNumbers DEF Init, Neat, UniqueIds, UniqueDisk, LastFull

\* A child that has found nothing new leaves the others' finds as they are.
LEMMA AwayNeat ==
  ASSUME Sound, Neat, NEW s \in Sessions, NEW r, Become(s, r), r.stage # "found",
         UNCHANGED id, UniqueDisk'
  PROVE  Neat'
<1>1. /\ ~Found(s)'
      /\ \A t \in Sessions : Found(t)' => Found(t) /\ sess'[t] = sess[t]
  BY BecomeHolds
<1>2. UniqueIds' /\ LastFull'
  BY DEF Neat, UniqueIds, LastFull, Below
<1>3. \A t \in Sessions : Found(t)' => Steady(t)'
  BY <1>1 DEF Neat, Steady, Below
<1> QED BY <1>2, <1>3 DEF Neat

\* A child finds the one slot with its id, or the lowest that is free, as everyone
\* who looks for that id would (Find).
LEMMA FindNeat ==
  ASSUME Sound, Neat, NEW s \in Sessions, Find(s)
  PROVE  Neat'
<1> DEFINE i == sess[s].id
           n == FindSlot(i)
           r == [sess[s] EXCEPT !.stage = IF n = 0 THEN "refused" ELSE "found", !.slot = n]
<1>1. sess[s] \in Session /\ i \in Ids /\ ~Found(s)
  BY Locals DEF Find, Found
<1>2. \/ n \in Slots /\ id[n] = i
      \/ /\ n \in Slots /\ id[n] = 0 /\ \A m \in Slots : id[m] # i
         /\ \A m \in Slots : id[m] = 0 => n <= m
      \/ n = 0 /\ \A m \in Slots : id[m] # i /\ id[m] # 0
  BY <1>1, Lookup
<1>3. Become(s, r) /\ UNCHANGED <<id, disk>>
  BY DEF Find, table
<1>4. r.id = i /\ r.slot = n /\ r.stage = IF n = 0 THEN "refused" ELSE "found"
  <2> HIDE DEF n
  <2> QED BY <1>1 DEF Session
<1>5. UniqueDisk'
  BY <1>3 DEF Neat, UniqueDisk
<1>6. \A t \in Sessions : Found(t) => sess[t].slot \in Slots
  BY Locals DEF Found
<1> HIDE DEF n, r, i
<1>7. CASE n = 0
  BY <1>3, <1>4, <1>5, <1>7, AwayNeat
<1>8. CASE n # 0
  <2>1. /\ sess'[s] = r /\ Found(s)'
        /\ \A t \in Sessions \ {s} : (Found(t)' <=> Found(t)) /\ sess'[t] = sess[t]
    BY <1>3, <1>4, <1>8, BecomeHolds
  <2>2. n \in Slots
    BY <1>2, <1>8
  <2>3. UniqueIds' /\ LastFull'
    BY <1>3 DEF Neat, UniqueIds, LastFull, Below
  <2>4. \A m \in Slots : id[m] = i => m = n
    BY <1>1, <1>2, <1>8 DEF Neat, UniqueIds
  <2>5. \/ id[n] = i /\ n # Beyond
        \/ id[n] = 0 /\ Below(n)
        \/ n = Beyond /\ Below(Beyond) /\ id[Beyond] = i
    <3>1. CASE id[n] = i
      BY <1>1, <3>1 DEF Neat, LastFull
    <3>2. CASE id[n] # i
      <4>1. id[n] = 0 /\ \A m \in Slots : id[m] = 0 => n <= m
        BY <1>2, <1>8, <3>2
      <4>2. Below(n)
        BY <2>2, <4>1, SlotNumbers DEF Below
      <4> QED BY <4>1, <4>2
    <3> QED BY <3>1, <3>2
  <2>6. \A t \in Sessions : Found(t) /\ sess[t].id = i => sess[t].slot = n
    <3> SUFFICES ASSUME NEW t \in Sessions, Found(t), sess[t].id = i PROVE sess[t].slot = n
      OBVIOUS
    <3> DEFINE k == sess[t].slot
    <3>1. Steady(t) /\ k \in Slots
      BY <1>6 DEF Neat
    <3>2. CASE id[n] = i
      BY <2>2, <3>1, <3>2 DEF Steady
    <3>3. CASE id[n] # i
      <4>1. id[n] = 0 /\ (\A m \in Slots : id[m] # i) /\ \A m \in Slots : id[m] = 0 => n <= m
        BY <1>2, <1>8, <3>3
      <4>2. CASE id[k] = 0
        <5>1. Below(k)
          BY <1>1, <3>1, <4>1, <4>2, Parts DEF Steady
        <5>2. n \in Nat /\ k \in Nat
          BY <2>2, <3>1, SlotNumbers
        <5>3. n <= k
          BY <3>1, <4>1, <4>2
        <5>4. ~(n < k)
          BY <2>2, <4>1, <5>1 DEF Below
        <5> QED BY <5>2, <5>3, <5>4
      <4>3. CASE id[k] # 0
        <5>1. k = Beyond /\ Below(Beyond)
          BY <3>1, <4>1, <4>3 DEF Steady
        <5>2. n = Beyond \/ n < Beyond
          BY <2>2, SlotNumbers
        <5> QED BY <2>2, <4>1, <5>1, <5>2 DEF Below
      <4> QED BY <4>2, <4>3
    <3> QED BY <3>2, <3>3
  <2>7. Steady(s)'
    <3>1. \A m \in Slots : id'[m] = sess'[s].id => m = sess'[s].slot
      BY <1>3, <1>4, <2>1, <2>4
    <3>2. \/ id'[sess'[s].slot] = sess'[s].id /\ sess'[s].slot # Beyond
          \/ id'[sess'[s].slot] = 0 /\ Below(sess[s].slot)'
          \/ sess'[s].slot = Beyond /\ Below(Beyond)' /\ id'[Beyond] \in {sess'[s].id, Text}
      BY <1>3, <1>4, <2>1, <2>5 DEF Below
    <3>3. \A t \in Sessions : Found(t)' /\ sess'[t].id = sess'[s].id
                                => sess'[t].slot = sess'[s].slot
      BY <1>4, <2>1, <2>6
    <3> QED BY <3>1, <3>2, <3>3 DEF Steady
  <2>8. ASSUME NEW t \in Sessions \ {s}, Found(t)' PROVE Steady(t)'
    <3>1. Steady(t) /\ Found(t) /\ sess'[t] = sess[t]
      BY <2>1, <2>8 DEF Neat
    <3>2. \A u \in Sessions : Found(u)' /\ sess'[u].id = sess'[t].id
                                => sess'[u].slot = sess'[t].slot
      BY <1>4, <2>1, <2>6, <3>1 DEF Steady
    <3> QED BY <1>3, <3>1, <3>2 DEF Steady, Below
  <2> QED BY <1>5, <2>3, <2>7, <2>8 DEF Neat
<1> QED BY <1>7, <1>8

\* A claim nobody overlaps makes true what the lookup found (Take).
LEMMA TakeNeat ==
  ASSUME Sound, Neat, NEW s \in Sessions, Take(s), blamed' = {}
  PROVE  Neat'
<1> DEFINE i == sess[s].id
           n == sess[s].slot
           r == [sess[s] EXCEPT !.stage = "taken"]
<1>1. Found(s) /\ sess[s] \in Session /\ n \in Slots /\ i \in Ids
  BY Locals DEF Take, Found
<1>2. /\ Become(s, r) /\ UNCHANGED disk
      /\ id' = [id EXCEPT ![n] = i]
  BY DEF Take
<1>3. r.stage = "taken"
  BY <1>1 DEF Session
<1>4. \A t \in Sessions \ {s} : Found(t) /\ sess[t].slot = n => sess[t].id = i
  BY DEF Take, Overlap, Found
<1>5. id'[n] = i /\ \A m \in Slots \ {n} : id'[m] = id[m]
  BY <1>1, <1>2 DEF Sound, TypeOK
<1> HIDE DEF r
<1>6. /\ ~Found(s)'
      /\ \A t \in Sessions : Found(t)' => Found(t) /\ sess'[t] = sess[t]
  BY <1>2, <1>3, BecomeHolds
<1>7. \A m \in Slots : id[m] = i => m = n
  BY <1>1 DEF Neat, Steady
<1>8. \A m \in Slots : id[m] # 0 => id'[m] # 0
  BY <1>1, <1>5, Parts
<1>9. \A t \in Sessions : Found(t) => sess[t].slot \in Slots /\ Steady(t)
  BY Locals DEF Found, Neat
<1>10. UniqueIds'
  <2> SUFFICES ASSUME NEW m \in Slots, NEW k \in Slots, id'[m] \in Ids, id'[m] = id'[k]
               PROVE  m = k
    BY DEF UniqueIds
  <2>1. CASE m = n \/ k = n
    BY <1>5, <1>7, <2>1
  <2>2. CASE m # n /\ k # n
    BY <1>5, <2>2 DEF Neat, UniqueIds
  <2> QED BY <2>1, <2>2
<1>11. UniqueDisk'
  BY <1>2 DEF Neat, UniqueDisk
<1>12. LastFull'
  <2> SUFFICES ASSUME id'[Beyond] \in Ids PROVE Below(Beyond)'
    BY DEF LastFull
  <2>1. CASE n = Beyond
    <3>1. Below(Beyond)
      BY <1>1, <1>9, <2>1 DEF Steady
    <3> QED BY <1>8, <3>1 DEF Below
  <2>2. CASE n # Beyond
    <3>1. id[Beyond] \in Ids
      BY <1>5, <2>2, SlotNumbers
    <3>2. Below(Beyond)
      BY <3>1 DEF Neat, LastFull
    <3> QED BY <1>8, <3>2 DEF Below
  <2> QED BY <2>1, <2>2
<1>13. ASSUME NEW t \in Sessions, Found(t)' PROVE Steady(t)'
  <2> DEFINE k == sess[t].slot
             j == sess[t].id
  <2>1. /\ Found(t) /\ t # s /\ sess'[t] = sess[t] /\ Steady(t) /\ k \in Slots
        /\ \A u \in Sessions : Found(u)' => Found(u) /\ sess'[u] = sess[u]
    BY <1>6, <1>9, <1>13
  <2>2. i = j => k = n
    BY <1>1, <2>1 DEF Steady
  <2>3. k = n => j = i
    BY <1>4, <2>1
  <2>4. \A m \in Slots : id'[m] = j => m = k
    BY <1>5, <2>1, <2>2 DEF Steady
  <2>5. \/ id'[k] = j /\ k # Beyond
        \/ id'[k] = 0 /\ Below(k)'
        \/ k = Beyond /\ Below(Beyond)' /\ id'[Beyond] \in {j, Text}
    <3>1. CASE k = n
      <4>1. id'[k] = j
        BY <1>5, <2>3, <3>1
      <4>2. k = Beyond => Below(Beyond)
        BY <2>1 DEF Steady
      <4> QED BY <1>8, <4>1, <4>2 DEF Below
    <3>2. CASE k # n
      <4>1. id'[k] = id[k]
        BY <1>5, <2>1, <3>2
      <4>2. /\ Below(k) => Below(k)'
            /\ Below(Beyond) => Below(Beyond)'
        BY <1>8, <2>1 DEF Below
      <4> QED BY <2>1, <4>1, <4>2 DEF Steady
    <3> QED BY <3>1, <3>2
  <2>6. \A u \in Sessions : Found(u)' /\ sess'[u].id = j => sess'[u].slot = k
    BY <2>1 DEF Steady
  <2>7. sess'[t].id = j /\ sess'[t].slot = k /\ (Below(k)' <=> Below(sess[t].slot)')
    BY <2>1 DEF Below
  <2> QED BY <2>4, <2>5, <2>6, <2>7 DEF Steady
<1> QED BY <1>10, <1>11, <1>12, <1>13 DEF Neat

\* A file written from a tidy table is tidy (TableOnDisk).
LEMMA SavedUnique ==
  ASSUME Neat, disk' = TableOnDisk
  PROVE  UniqueDisk'
BY SlotNumbers DEF Neat, UniqueIds, UniqueDisk, TableOnDisk

\* The archiver's comment and a restart leave the table tidy (ArchiveComment,
\* Restart).
LEMMA RestNeat ==
  ASSUME Sound, Neat, SaveTick \/ ArchiveComment \/ Restart
  PROVE  Neat'
<1>1. CASE SaveTick
  <2>1. UNCHANGED <<id, sess>> /\ UniqueDisk'
    BY <1>1, SavedUnique DEF SaveTick
  <2> QED BY <2>1 DEF Neat, UniqueIds, LastFull, Below, Steady, Found
<1>2. CASE ArchiveComment
  <2>1. /\ UNCHANGED <<disk, sess>>
        /\ id'[Beyond] = Text /\ \A n \in Cams : id'[n] = id[n]
    BY <1>2, SlotNumbers DEF ArchiveComment, Sound, TypeOK
  <2>2. \A n \in Slots : n \in Cams \/ n = Beyond
    BY SlotNumbers
  <2>3. UniqueIds' /\ UniqueDisk' /\ LastFull'
    BY <2>1, <2>2, Parts DEF Neat, UniqueIds, UniqueDisk, LastFull
  <2>4. \A n \in Slots : id[n] # 0 => id'[n] # 0
    BY <2>1, <2>2, Parts
  <2>5. ASSUME NEW t \in Sessions, Found(t) PROVE Steady(t)'
    <3> DEFINE k == sess[t].slot
    <3>1. Steady(t) /\ k \in Slots /\ sess[t].id \in Ids
      BY <2>5, Locals DEF Found, Neat
    <3>2. \A n \in Slots : id'[n] = sess[t].id => n = k
      BY <2>1, <2>2, <3>1, Parts DEF Steady
    <3>3. \/ id'[k] = sess[t].id /\ k # Beyond
          \/ id'[k] = 0 /\ Below(k)'
          \/ k = Beyond /\ Below(Beyond)' /\ id'[Beyond] \in {sess[t].id, Text}
      <4>1. CASE k = Beyond
        <5>1. Below(Beyond)
          BY <3>1, <4>1 DEF Steady
        <5> QED BY <2>1, <2>4, <4>1, <5>1 DEF Below
      <4>2. CASE k # Beyond
        <5>1. id'[k] = id[k]
          BY <2>1, <2>2, <3>1, <4>2
        <5>2. Below(k) => Below(k)'
          BY <2>1, <2>4 DEF Below
        <5> QED BY <3>1, <4>2, <5>1, <5>2 DEF Steady
      <4> QED BY <4>1, <4>2
    <3> QED BY <2>1, <3>1, <3>2, <3>3 DEF Steady, Found, Below
  <2> QED BY <2>1, <2>3, <2>5 DEF Neat, Found
<1>3. CASE Restart
  <2>1. /\ UNCHANGED disk /\ \A t \in Sessions : sess'[t] = Free
        /\ \A n \in Cams : id'[n] = disk[n]
        /\ id'[Beyond] = 0
    BY <1>3, SlotNumbers DEF Restart
  <2>2. \A n \in Slots : n \in Cams \/ n = Beyond
    BY SlotNumbers
  <2>3. \A t \in Sessions : ~Found(t)'
    BY <2>1 DEF Found, Free
  <2>4. UniqueIds' /\ UniqueDisk' /\ LastFull'
    BY <2>1, <2>2, Parts DEF Neat, UniqueIds, UniqueDisk, LastFull
  <2> QED BY <2>3, <2>4 DEF Neat
<1> QED BY <1>1, <1>2, <1>3

\* The table stays tidy until a slot is blamed.
LEMMA NextTidy == Sound /\ Tidy /\ [Next]_vars => Tidy'
<1> SUFFICES ASSUME Sound, Tidy, [Next]_vars, blamed' = {} PROVE Neat'
  BY DEF Tidy
<1>1. ASSUME NEW s \in Sessions, NEW d \in Devices, Connect(s, d) PROVE Neat'
  <2> DEFINE r == [dev |-> d, stage |-> "connected", id |-> devid[d], slot |-> 0]
  <2>1. Become(s, r) /\ UNCHANGED <<id, disk, blamed>>
    BY <1>1 DEF Connect, table, ghost
  <2>2. Neat /\ UniqueDisk'
    BY <2>1 DEF Tidy, Neat, UniqueDisk
  <2> QED BY <2>1, <2>2, AwayNeat
<1>2. ASSUME NEW s \in Sessions, Name(s) PROVE Neat'
  <2> DEFINE r == [sess[s] EXCEPT !.stage = "named"]
             q == [sess[s] EXCEPT !.stage = "named", !.id = now]
  <2>1. (Become(s, r) \/ Become(s, q)) /\ UNCHANGED <<id, disk, blamed>>
    BY <1>2 DEF Name, table
  <2>2. r.stage = "named" /\ q.stage = "named"
    BY Locals DEF Session
  <2>3. Neat /\ UniqueDisk'
    BY <2>1 DEF Tidy, Neat, UniqueDisk
  <2> HIDE DEF r, q
  <2> QED BY <2>1, <2>2, <2>3, AwayNeat
<1>3. ASSUME NEW s \in Sessions, SaveFails(s) \/ End(s) PROVE Neat'
  <2>1. Become(s, Free) /\ UNCHANGED <<id, disk, blamed>> /\ Free.stage = "free"
    BY <1>3 DEF SaveFails, End, table, ghost, Free
  <2>2. Neat /\ UniqueDisk'
    BY <2>1 DEF Tidy, Neat, UniqueDisk
  <2> QED BY <2>1, <2>2, AwayNeat
<1>4. ASSUME NEW s \in Sessions, Find(s) PROVE Neat'
  BY <1>4, FindNeat DEF Find, ghost, Tidy
<1>5. ASSUME NEW s \in Sessions, Take(s) PROVE Neat'
  <2>1. blamed = {}
    BY <1>5 DEF Take
  <2> QED BY <1>5, <2>1, TakeNeat DEF Tidy
<1>6. ASSUME NEW s \in Sessions, Save(s) PROVE Neat'
  <2> DEFINE r == [sess[s] EXCEPT !.stage = "feeding"]
  <2>1. Become(s, r) /\ UNCHANGED <<id, blamed>> /\ disk' = TableOnDisk
    BY <1>6 DEF Save
  <2>2. r.stage = "feeding"
    BY Locals DEF Session
  <2>3. Neat /\ UniqueDisk'
    BY <2>1, SavedUnique DEF Tidy
  <2> HIDE DEF r
  <2> QED BY <2>1, <2>2, <2>3, AwayNeat
<1>7. ASSUME SaveTick \/ ArchiveComment \/ Restart PROVE Neat'
  BY <1>7, RestNeat DEF SaveTick, ArchiveComment, Restart, ghost, Tidy
<1>8. ASSUME NEW d \in Devices, Echo(d) PROVE FALSE
  BY <1>8 DEF Echo, Overwrite
<1>9. CASE ConsoleSend
  BY <1>9 DEF ConsoleSend, Overwrite
<1>10. ASSUME UNCHANGED <<id, disk, sess, blamed>> PROVE Neat'
  BY <1>10 DEF Tidy, Neat, UniqueIds, UniqueDisk, LastFull, Below, Steady, Found
<1>11. ASSUME NEW d \in Devices, StoreId(d) \/ Receive(d) \/ Drop(d) PROVE Neat'
  BY <1>11, <1>10 DEF StoreId, Receive, Drop, table, ghost
<1>12. ASSUME (\E n \in Cams : ConsoleReceive(n)) \/ Tick PROVE Neat'
  BY <1>12, <1>10 DEF ConsoleReceive, Tick, table, ghost
<1>13. CASE UNCHANGED vars
  BY <1>13, <1>10 DEF vars, table, ghost
<1>14. CASE Next
  BY <1>14, <1>1, <1>2, <1>3, <1>4, <1>5, <1>6, <1>7, <1>8, <1>9, <1>11, <1>12 DEF Next
<1> QED BY <1>13, <1>14

\* A camera whose registration was saved is given the number it had, as long as no
\* slot is to blame: the lookup finds the one slot with its id.
THEOREM CamerasReturnHome == Spec => ReturnsHome
<1>1. Spec => []Tidy
  BY InitTidy, NextTidy, AlwaysSound, PTL DEF Spec
<1>2. Sound /\ Kept /\ Tidy =>
        \A s \in Sessions : Find(s) /\ blamed = {} /\ home[sess[s].id] \in Cams
                              => sess'[s].slot = home[sess[s].id]
  <2> SUFFICES ASSUME Sound, Kept, Tidy, NEW s \in Sessions, Find(s), blamed = {},
                      home[sess[s].id] \in Cams
               PROVE  sess'[s].slot = home[sess[s].id]
    OBVIOUS
  <2> DEFINE i == sess[s].id
             n == FindSlot(i)
             r == [sess[s] EXCEPT !.stage = IF n = 0 THEN "refused" ELSE "found", !.slot = n]
  <2>1. sess[s] \in Session /\ i \in Ids
    BY Locals DEF Find
  <2>2. home[i] \in Slots /\ id[home[i]] = i
    BY <2>1, SlotNumbers DEF Kept, SlotRemembered
  <2>3. n \in Slots /\ id[n] = i
    BY <2>1, <2>2, Lookup
  <2>4. n = home[i]
    BY <2>1, <2>2, <2>3 DEF Tidy, Neat, UniqueIds
  <2>5. sess'[s] = r
    BY DEF Find, Become, Sound, TypeOK
  <2>6. r.slot = n
    <3> HIDE DEF n
    <3> QED BY <2>1 DEF Session
  <2> QED BY <2>4, <2>5, <2>6
<1> QED BY <1>1, <1>2, Invariant, PTL DEF ReturnsHome
====
