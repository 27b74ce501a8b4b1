------------------------- MODULE SettingsSyncProofs -------------------------
(***************************************************************************)
(* Proofs about SettingsSync, for any set of consoles, any cameras and any   *)
(* bounds: its types, that only a child that leaves or a save that fails     *)
(* loses a change, that it implements MonotonicReads, and that a camera at   *)
(* rest obeys the server.                                                   *)
(***************************************************************************)
EXTENDS SettingsSync, SequenceTheorems, TLAPS

USE SettingsAssumption

-----------------------------------------------------------------------------
(* What the children put on the wire.                                       *)

\* A list of messages that each carry the present version of their record.
Present(s) == /\ s \in Seq(DownMsg)
              /\ \A i \in 1..Len(s) : s[i].w = cs[s[i].cam].w

\* A record taken from shared memory carries the write count of its camera, so it
\* is present by construction of Record (jc_msg_camerasettings).
LEMMA RecordPresent ==
  ASSUME TypeOK, NEW n \in Cams
  PROVE  Record(n) \in DownMsg /\ Record(n).w = cs[Record(n).cam].w
BY DEF TypeOK, Record, DownMsg, Version

\* Whatever the scan decides to send is present (Notice).
LEMMA NoticePresent ==
  ASSUME TypeOK, NEW c, NEW n \in Cams
  PROVE  Present(Notice(c, n))
<1> DEFINE a == IF child[c].mask /\ ~child[c].dontsend THEN <<Record(n)>> ELSE <<>>
           b == IF child[c].feeder = n THEN <<Record(n)>> ELSE <<>>
<1>1. Record(n) \in DownMsg /\ Record(n).w = cs[Record(n).cam].w
  BY RecordPresent
<1>2. Present(<<Record(n)>>)
  BY <1>1 DEF Present
<1>3. Present(<<>>)
  BY DEF Present
<1>4. Present(a) /\ Present(b)
  BY <1>2, <1>3
<1>5. Present(a \o b)
  BY <1>4, ConcatProperties DEF Present
<1> QED BY <1>5 DEF Notice

\* So is the answer to a registration (RegisterReply).
LEMMA ReplyPresent ==
  ASSUME TypeOK, NEW c \in Clients
  PROVE  Present(RegisterReply(c))
<1>1. \A n \in Cams : Record(n) \in DownMsg /\ Record(n).w = cs[Record(n).cam].w
  BY RecordPresent
<1>2. CASE c \in Consoles
  <2> DEFINE s == [n \in Cams |-> Record(n)]
  <2>1. s \in [1..MaxCams -> DownMsg] /\ MaxCams \in Nat
    BY <1>1 DEF Cams
  <2>2. s \in Seq(DownMsg) /\ Len(s) = MaxCams
    BY <2>1
  <2>3. \A i \in 1..Len(s) : s[i].w = cs[s[i].cam].w
    BY <1>1, <2>2 DEF Cams
  <2> QED BY <1>2, <2>2, <2>3 DEF RegisterReply, Present
<1>3. CASE c \notin Consoles
  <2>1. c \in Cams
    BY <1>3 DEF Clients
  <2>2. Record(c) \in DownMsg /\ Record(c).w = cs[Record(c).cam].w
    BY <1>1, <2>1
  <2> QED BY <1>3, <2>2 DEF RegisterReply, Present
<1> QED BY <1>2, <1>3

-----------------------------------------------------------------------------
(* Types.                                                                   *)

\* The locals a forked child starts with are locals of a child (Fresh, Idle).
LEMMA FreshType ==
  ASSUME TypeOK
  PROVE  Fresh \in Child /\ Idle \in Child
<1>1. [n \in Cams |-> changed[n] + 20] \in [Cams -> Nat]
  BY DEF TypeOK
<1>2. 1 \in Cams /\ 1 \in 1..(MaxCams + 1) /\ 0 \in 0..(Wrap - 1) /\ 0 \in 0..MaxCams
  BY DEF Cams
<1>3. Fresh \in Child
  BY <1>1, <1>2 DEF Fresh, Child
<1> QED BY <1>3, <1>2 DEF Idle, Child

\* The server's start-up leaves every variable in its type (Init).
LEMMA InitTypeOK == Init => TypeOK
<1> SUFFICES ASSUME Init PROVE TypeOK
  OBVIOUS
<1>1. Idle \in Child
  <2>1. 1 \in Cams /\ 1 \in 1..(MaxCams + 1) /\ 0 \in 0..(Wrap - 1) /\ 0 \in 0..MaxCams
    BY DEF Cams
  <2> QED BY <2>1 DEF Idle, Fresh, Child
<1> QED BY <1>1 DEF Init, TypeOK, Version, Clients, Cams

\* The locals of each client's child have the type of a child's locals.
LEMMA ChildField ==
  ASSUME TypeOK, NEW c \in Clients
  PROVE  /\ child[c] \in Child
         /\ up[c] \in Seq(UpMsg) /\ down[c] \in Seq(DownMsg)
BY DEF TypeOK

\* A child that leaves well-typed locals keeps the table of children typed (Become).
LEMMA BecomeType ==
  ASSUME TypeOK, NEW c \in Clients, NEW r \in Child, Become(c, r)
  PROVE  child' \in [Clients -> Child]
BY DEF TypeOK, Become

\* The values a child's locals start from (Fresh) and the camera numbers
\* (JC_MAX_CAMS) are in range.
LEMMA Positions ==
  /\ 1 \in Cams /\ 1 \in 1..(MaxCams + 1)
  /\ 0 \in 0..(Wrap - 1) /\ 0 \in 0..MaxCams /\ Cams \subseteq 0..MaxCams
BY DEF Cams

\* The scan of the counters keeps every variable's type (ScanCam).
LEMMA ScanType ==
  ASSUME TypeOK, NEW c \in Clients, ScanCam(c)
  PROVE  TypeOK'
<1> DEFINE n == child[c].at
<1>1. n \in Cams /\ n + 1 \in 1..(MaxCams + 1)
  BY DEF ScanCam, Cams
<1>2. CASE Moved(c, n)
  <2> DEFINE r == [child[c] EXCEPT !.at = n + 1, !.pcs = [@ EXCEPT ![n] = changed[n]],
                                   !.dontsend = @ /\ ~child[c].mask]
  <2>1. /\ Become(c, r) /\ down' = [down EXCEPT ![c] = down[c] \o Notice(c, n)]
        /\ torn' \subseteq torn
    BY <1>2 DEF ScanCam
  <2>2. down[c] \o Notice(c, n) \in Seq(DownMsg)
    BY <1>1, NoticePresent, ChildField, ConcatProperties DEF Present
  <2>3. down' \in [Clients -> Seq(DownMsg)]
    BY <2>1, <2>2 DEF TypeOK
  <2>4. changed[n] \in Nat /\ child[c] \in Child
    BY <1>1, ChildField DEF TypeOK
  <2>5. r \in Child
    BY <2>4, <1>1 DEF Child
  <2>6. child' \in [Clients -> Child]
    BY <2>1, <2>5, BecomeType
  <2> QED BY <2>1, <2>3, <2>6 DEF ScanCam, TypeOK, client
<1>3. CASE ~Moved(c, n)
  <2> DEFINE r == [child[c] EXCEPT !.at = n + 1]
  <2>1. Become(c, r) /\ UNCHANGED <<down, torn>>
    BY <1>3 DEF ScanCam
  <2>2. child[c] \in Child
    BY ChildField
  <2>3. r \in Child
    BY <1>1, <2>2 DEF Child
  <2>4. child' \in [Clients -> Child]
    BY <2>1, <2>3, BecomeType
  <2> QED BY <2>1, <2>4 DEF ScanCam, TypeOK, client
<1> QED BY <1>2, <1>3

\* What a save leaves behind is a file of records, whether it failed or not
\* (savefile).
LEMMA FilesType ==
  ASSUME TypeOK
  PROVE  Files \subseteq [Cams -> Version]
<1>1. cs \in [Cams -> Version] /\ disk \in [Cams -> Version] /\ NoRecord \in Version
  BY DEF TypeOK, NoRecord, Version
<1>2. \A k \in 0..MaxCams : Cut(k) \in [Cams -> Version]
  BY <1>1 DEF Cut
<1> QED BY <1>1, <1>2 DEF Files

\* The handlers of the three messages keep every variable's type (HandleMask,
\* HandleRegister, HandleSettings).
LEMMA HandlerType ==
  ASSUME TypeOK, NEW c \in Clients,
         HandleMask(c) \/ HandleRegister(c) \/ HandleSettings(c)
  PROVE  TypeOK'
<1>1. /\ up[c] # <<>> /\ up[c] \in Seq(UpMsg)
      /\ up' = [up EXCEPT ![c] = Tail(up[c])]
  BY ChildField DEF HandleMask, HandleRegister, HandleSettings, CopyRecord, ReadMsg
<1>2. Head(up[c]) \in UpMsg /\ Tail(up[c]) \in Seq(UpMsg)
  BY <1>1, HeadTailProperties
<1>3. up' \in [Clients -> Seq(UpMsg)]
  BY <1>1, <1>2 DEF TypeOK
<1>4. child[c] \in Child
  BY ChildField
<1>5. CASE HandleMask(c)
  <2> DEFINE r == [child[c] EXCEPT !.mask = TRUE, !.at = 1]
  <2>1. r \in Child
    BY <1>4, Positions DEF Child
  <2>2. child' \in [Clients -> Child]
    BY <1>5, <2>1, BecomeType DEF HandleMask
  <2> QED BY <1>3, <1>5, <2>2 DEF HandleMask, TypeOK, server, client
<1>6. CASE HandleRegister(c)
  <2> DEFINE slot == IF c \in Feeders THEN c ELSE 0
             r == [child[c] EXCEPT !.at = 1, !.feeder = slot]
  <2>1. /\ Become(c, r)
        /\ down' = [down EXCEPT ![c] = down[c] \o RegisterReply(c)]
        /\ \/ disk' \in Files /\ lost' = Unsaved(disk')
           \/ UNCHANGED <<disk, lost>>
    BY <1>6 DEF HandleRegister
  <2>2. down[c] \o RegisterReply(c) \in Seq(DownMsg)
    BY ReplyPresent, ChildField, ConcatProperties DEF Present
  <2>3. down' \in [Clients -> Seq(DownMsg)]
    BY <2>1, <2>2 DEF TypeOK
  <2>4. slot \in 0..MaxCams
    BY Positions
  <2>5. r \in Child
    BY <1>4, <2>4, Positions DEF Child
  <2>6. child' \in [Clients -> Child]
    BY <2>1, <2>5, BecomeType
  <2>7. disk' \in [Cams -> Version] /\ lost' \subseteq Cams
    BY <2>1, FilesType DEF TypeOK, Unsaved
  <2> QED BY <1>3, <1>6, <2>3, <2>6, <2>7 DEF HandleRegister, TypeOK, client
<1>7. CASE HandleSettings(c)
  <2> DEFINE m == Head(up[c])
             r == [child[c] EXCEPT !.stage = "load", !.cam = m.cam, !.save = TRUE,
                                   !.dontsend = @ \/ m.quiet]
  <2>1. m.type = "camerasettings"
    BY <1>7 DEF HandleSettings, CopyRecord, ReadMsg
  <2>2. m.cam \in Cams /\ m.v \in Nat /\ m.quiet \in BOOLEAN
    BY <1>2, <2>1 DEF UpMsg, MaskMsg, RegisterMsg
  <2>3. /\ cs' = [cs EXCEPT ![m.cam] = [v |-> m.v, w |-> cs[m.cam].w + 1]]
        /\ Become(c, r)
    BY <1>7 DEF HandleSettings, CopyRecord
  <2>a. cs[m.cam].w \in Nat
    BY <2>2 DEF TypeOK, Version
  <2>b. [v |-> m.v, w |-> cs[m.cam].w + 1] \in Version
    BY <2>2, <2>a DEF Version
  <2>4. cs' \in [Cams -> Version]
    BY <2>2, <2>3, <2>b DEF TypeOK
  <2>5. r \in Child
    BY <1>4, <2>2 DEF Child
  <2>6. child' \in [Clients -> Child]
    BY <2>3, <2>5, BecomeType
  <2> QED BY <1>3, <1>7, <2>4, <2>6 DEF HandleSettings, CopyRecord, TypeOK, client
<1> QED BY <1>5, <1>6, <1>7

\* The increment of cs_changed[] stays within its 16 bits (LoadCounter,
\* StoreCounter).
LEMMA CounterType ==
  ASSUME TypeOK, NEW c \in Clients, LoadCounter(c) \/ StoreCounter(c)
  PROVE  TypeOK'
<1>1. child[c] \in Child /\ child[c].cam \in Cams /\ child[c].tmp \in 0..(Wrap - 1)
  BY ChildField DEF Child
<1>2. CASE LoadCounter(c)
  <2> DEFINE r == [child[c] EXCEPT !.stage = "store", !.tmp = changed[child[c].cam]]
  <2>1. changed[child[c].cam] \in 0..(Wrap - 1)
    BY <1>1 DEF TypeOK
  <2>2. r \in Child
    BY <1>1, <2>1 DEF Child
  <2>3. child' \in [Clients -> Child]
    BY <1>2, <2>2, BecomeType DEF LoadCounter
  <2> QED BY <1>2, <2>3 DEF LoadCounter, TypeOK, server, client
<1>3. CASE StoreCounter(c)
  <2> DEFINE r == [child[c] EXCEPT !.stage = "loop", !.at = 1, !.cam = 1, !.tmp = 0]
             x == (child[c].tmp + 1) % Wrap
  <2>1. x \in 0..(Wrap - 1)
    BY <1>1
  <2>2. /\ changed' = [changed EXCEPT ![child[c].cam] = x]
        /\ Become(c, r)
        /\ torn' = torn \/ torn' = torn \cup {child[c].cam}
    BY <1>3 DEF StoreCounter, StoreWith
  <2>3. changed' \in [Cams -> 0..(Wrap - 1)]
    BY <2>1, <2>2 DEF TypeOK
  <2>4. r \in Child
    BY <1>1, Positions DEF Child
  <2>5. child' \in [Clients -> Child]
    BY <2>2, <2>4, BecomeType
  <2>6. torn' \subseteq Cams
    BY <1>1, <2>2 DEF TypeOK
  <2> QED BY <1>3, <2>3, <2>5, <2>6 DEF StoreCounter, StoreWith, TypeOK, client
<1> QED BY <1>2, <1>3

\* A turn without a message, with or without a save, keeps every variable's type
\* (ReadNothing, SaveTick).
LEMMA LoopType ==
  ASSUME TypeOK, NEW c \in Clients, ReadNothing(c) \/ SaveTick(c)
  PROVE  TypeOK'
<1>1. child[c] \in Child /\ 1 \in 1..(MaxCams + 1)
  BY ChildField, Positions
<1>2. [child[c] EXCEPT !.at = 1] \in Child
  BY <1>1 DEF Child
<1>3. [child[c] EXCEPT !.save = FALSE, !.at = 1] \in Child
  BY <1>1 DEF Child
<1>4. child' \in [Clients -> Child]
  BY <1>2, <1>3, BecomeType DEF ReadNothing, SaveTick
<1>5. disk' \in [Cams -> Version] /\ lost' \subseteq Cams
  BY FilesType DEF ReadNothing, SaveTick, TypeOK, Unsaved, server
<1> QED BY <1>4, <1>5 DEF ReadNothing, SaveTick, TypeOK, server, client

\* Connections and restarts of clients keep every variable's type (Connect,
\* Disconnect, Restart).
LEMMA ConnectionType ==
  ASSUME TypeOK, NEW c \in Clients, Connect(c) \/ Disconnect(c) \/ Restart(c)
  PROVE  TypeOK'
<1>1. CASE Connect(c)
  <2>1. child' \in [Clients -> Child]
    BY <1>1, FreshType, BecomeType DEF Connect
  <2>2. <<MaskMsg, RegisterMsg>> \in Seq(UpMsg) /\ <<RegisterMsg>> \in Seq(UpMsg)
    BY DEF UpMsg
  <2>3. up' \in [Clients -> Seq(UpMsg)]
    BY <1>1, <2>2 DEF Connect, TypeOK
  <2> QED BY <1>1, <2>1, <2>3 DEF Connect, TypeOK, server, client
<1>2. CASE Disconnect(c)
  <2>1. child' \in [Clients -> Child]
    BY <1>2, FreshType, BecomeType DEF Disconnect
  <2>2. <<>> \in Seq(UpMsg) /\ <<>> \in Seq(DownMsg)
    BY EmptySeq
  <2>3. up' \in [Clients -> Seq(UpMsg)] /\ down' \in [Clients -> Seq(DownMsg)]
    BY <1>2, <2>2 DEF Disconnect, TypeOK
  <2>4. lost' \subseteq Cams
    BY <1>2 DEF Disconnect, TypeOK, Unsaved
  <2>5. sendnow' \in [Feeders -> BOOLEAN]
    BY <1>2 DEF Disconnect, TypeOK
  <2> QED BY <1>2, <2>1, <2>3, <2>4, <2>5 DEF Disconnect, TypeOK
<1>3. CASE Restart(c)
  <2>1. local' \in [Clients -> [Cams -> Nat]]
    BY <1>3 DEF Restart, TypeOK
  <2>2. /\ sel' \in [Consoles -> Cams] /\ pend' \in [Consoles -> BOOLEAN]
        /\ reinit' \in [Feeders -> BOOLEAN]
    BY <1>3, Positions DEF Restart, TypeOK
  <2> QED BY <1>3, <2>1, <2>2 DEF Restart, TypeOK, server
<1> QED BY <1>1, <1>2, <1>3

\* The console's callbacks, timer and parser keep every variable's type (Edit,
\* SelectCam, TimerSend, ConsoleRecv).
LEMMA ConsoleType ==
  ASSUME TypeOK, NEW k \in Consoles,
         \/ Edit(k) \/ TimerSend(k) \/ ConsoleRecv(k)
         \/ \E n \in Cams : SelectCam(k, n)
  PROVE  TypeOK'
<1>1. k \in Clients /\ sel[k] \in Cams /\ local[k] \in [Cams -> Nat]
      /\ up[k] \in Seq(UpMsg) /\ down[k] \in Seq(DownMsg)
  BY DEF TypeOK, Clients
<1>2. CASE Edit(k)
  <2>1. local' = [local EXCEPT ![k] = [local[k] EXCEPT ![sel[k]] = edits + 2]]
    BY <1>2, <1>1 DEF Edit, TypeOK
  <2>2. local' \in [Clients -> [Cams -> Nat]]
    BY <1>1, <2>1 DEF TypeOK
  <2>3. edits' \in Nat /\ pend' \in [Consoles -> BOOLEAN]
    BY <1>2 DEF Edit, TypeOK
  <2> QED BY <1>2, <2>2, <2>3 DEF Edit, TypeOK, server
<1>3. CASE TimerSend(k)
  <2>1. local[k][sel[k]] \in Nat
    BY <1>1
  <2>2. SettingsMsg(sel[k], local[k][sel[k]], TRUE) \in UpMsg
    BY <1>1, <2>1 DEF SettingsMsg, UpMsg
  <2>3. up' \in [Clients -> Seq(UpMsg)]
    BY <1>3, <1>1, <2>2, AppendProperties DEF TimerSend, TypeOK
  <2> QED BY <1>3, <2>3 DEF TimerSend, TypeOK, server
<1>4. CASE ConsoleRecv(k)
  <2> DEFINE m == Head(down[k])
  <2>1. m \in DownMsg /\ Tail(down[k]) \in Seq(DownMsg)
    BY <1>4, <1>1, HeadTailProperties DEF ConsoleRecv
  <2>2. m.cam \in Cams /\ m.v \in Nat /\ m.w \in Nat
    BY <2>1 DEF DownMsg
  <2>3. /\ \/ /\ local' = [local EXCEPT ![k] = [local[k] EXCEPT ![m.cam] = m.v]]
              /\ seen' = [seen EXCEPT ![k] = [seen[k] EXCEPT ![m.cam] = m.w]]
           \/ UNCHANGED <<local, seen>>
        /\ down' = [down EXCEPT ![k] = Tail(down[k])]
    BY <1>4, <1>1 DEF ConsoleRecv, TypeOK
  <2>4. down' \in [Clients -> Seq(DownMsg)]
    BY <1>1, <2>1, <2>3 DEF TypeOK
  <2>5. local' \in [Clients -> [Cams -> Nat]] /\ seen' \in [Clients -> [Cams -> Nat]]
    <3>1. seen[k] \in [Cams -> Nat]
      BY <1>1 DEF TypeOK
    <3> HIDE DEF m
    <3>2. /\ [local[k] EXCEPT ![m.cam] = m.v] \in [Cams -> Nat]
          /\ [seen[k] EXCEPT ![m.cam] = m.w] \in [Cams -> Nat]
      BY <1>1, <2>2, <3>1
    <3> DEFINE l == [local[k] EXCEPT ![m.cam] = m.v]
               w == [seen[k] EXCEPT ![m.cam] = m.w]
    <3>3. \/ local' = [local EXCEPT ![k] = l] /\ seen' = [seen EXCEPT ![k] = w]
          \/ local' = local /\ seen' = seen
      BY <2>3
    <3> HIDE DEF l, w
    <3>4. l \in [Cams -> Nat] /\ w \in [Cams -> Nat]
      BY <3>2 DEF l, w
    <3>5. local \in [Clients -> [Cams -> Nat]] /\ seen \in [Clients -> [Cams -> Nat]]
      BY DEF TypeOK
    <3>6. CASE local' = local /\ seen' = seen
      BY ONLY <3>5, <3>6
    <3>7. CASE local' = [local EXCEPT ![k] = l] /\ seen' = [seen EXCEPT ![k] = w]
      BY ONLY <1>1, <3>4, <3>5, <3>7
    <3> QED BY <3>3, <3>6, <3>7
  <2> QED BY <1>4, <2>4, <2>5 DEF ConsoleRecv, TypeOK, server
<1>5. CASE \E n \in Cams : SelectCam(k, n)
  BY <1>5 DEF SelectCam, TypeOK, server
<1> QED BY <1>2, <1>3, <1>4, <1>5

\* The camera's handler and its capture setup keep every variable's type (CamRecv,
\* CamReinit).
LEMMA CameraType ==
  ASSUME TypeOK, NEW f \in Feeders, CamRecv(f) \/ CamReinit(f)
  PROVE  TypeOK'
<1>1. f \in Clients /\ f \in Cams /\ local[f] \in [Cams -> Nat]
      /\ up[f] \in Seq(UpMsg) /\ down[f] \in Seq(DownMsg)
  BY DEF TypeOK, Clients
<1>2. CASE CamRecv(f)
  <2> DEFINE m == Head(down[f])
  <2>1. m \in DownMsg /\ Tail(down[f]) \in Seq(DownMsg)
    BY <1>2, <1>1, HeadTailProperties DEF CamRecv
  <2>2. m.cam \in Cams /\ m.v \in Nat /\ m.w \in Nat
    BY <2>1 DEF DownMsg
  <2>3. SettingsMsg(f, m.v, FALSE) \in UpMsg
    BY <1>1, <2>2 DEF SettingsMsg, UpMsg
  <2>4. up' \in [Clients -> Seq(UpMsg)]
    BY <1>2, <1>1, <2>3, AppendProperties DEF CamRecv, TypeOK
  <2>5. /\ local' = [local EXCEPT ![f] = [local[f] EXCEPT ![f] = m.v]]
        /\ seen' = [seen EXCEPT ![f] = [seen[f] EXCEPT ![m.cam] = m.w]]
        /\ down' = [down EXCEPT ![f] = Tail(down[f])]
    BY <1>2, <1>1 DEF CamRecv, TypeOK
  <2>6. /\ local' \in [Clients -> [Cams -> Nat]] /\ seen' \in [Clients -> [Cams -> Nat]]
        /\ down' \in [Clients -> Seq(DownMsg)]
    BY <1>1, <2>1, <2>2, <2>5 DEF TypeOK
  <2>7. sendnow' \in [Feeders -> BOOLEAN] /\ reinit' \in [Feeders -> BOOLEAN]
    BY <1>2 DEF CamRecv, TypeOK
  <2> QED BY <1>2, <2>4, <2>6, <2>7 DEF CamRecv, TypeOK, server
<1>3. CASE CamReinit(f)
  <2>1. SettingsMsg(f, local[f][f], FALSE) \in UpMsg
    BY <1>1 DEF SettingsMsg, UpMsg
  <2>2. up' \in [Clients -> Seq(UpMsg)]
    BY <1>3, <1>1, <2>1, AppendProperties DEF CamReinit, TypeOK
  <2>3. setups' \in Nat /\ reinit' \in [Feeders -> BOOLEAN]
    BY <1>3 DEF CamReinit, TypeOK
  <2> QED BY <1>3, <2>2, <2>3 DEF CamReinit, TypeOK, server
<1> QED BY <1>2, <1>3

\* TypeOK is inductive: no step of the server or of a client leaves it.
LEMMA NextTypeOK == TypeOK /\ [Next]_vars => TypeOK'
<1> SUFFICES ASSUME TypeOK, [Next]_vars PROVE TypeOK'
  OBVIOUS
<1>1. ASSUME NEW c \in Clients,
             ChildStep(c) \/ SaveTick(c) \/ Connect(c) \/ Disconnect(c) \/ Restart(c)
      PROVE  TypeOK'
  BY <1>1, ScanType, HandlerType, CounterType, LoopType, ConnectionType DEF ChildStep
<1>2. ASSUME NEW k \in Consoles,
             ConsoleStep(k) \/ Edit(k) \/ \E n \in Cams : SelectCam(k, n)
      PROVE  TypeOK'
  BY <1>2, ConsoleType DEF ConsoleStep
<1>3. ASSUME NEW f \in Feeders, CamStep(f) PROVE TypeOK'
  BY <1>3, CameraType DEF CamStep
<1>4. CASE UNCHANGED vars
  BY <1>4 DEF vars, server, client, TypeOK
<1> QED
  <2>1. CASE Next
    BY <2>1, <1>1, <1>2, <1>3 DEF Next
  <2> QED BY <2>1, <1>4

\* Every variable keeps its type: no record for a camera that does not exist is
\* ever stored or sent, and the counters stay within 16 bits.
THEOREM TypeCorrect == Spec => []TypeOK
BY InitTypeOK, NextTypeOK, PTL DEF Spec

-----------------------------------------------------------------------------
(* Saves.                                                                   *)

\* A step that leaves a child's save_cs alone leaves every child's alone.
LEMMA SaveKept ==
  ASSUME TypeOK, NEW c \in Clients, NEW r, Become(c, r), r.save = child[c].save
  PROVE  \A x \in Clients : child[x].save => child'[x].save
BY DEF TypeOK, Become

\* Only the exit of a child that still has to save, or a save that fails, leaves a
\* changed record without anyone to save it (save_cs).
THEOREM SavesAreFlagged == Spec => []UnsavedIsFlagged
<1>1. Init => UnsavedIsFlagged
  BY DEF Init, UnsavedIsFlagged
<1>2. TypeOK /\ UnsavedIsFlagged /\ [Next]_vars => UnsavedIsFlagged'
  <2> SUFFICES ASSUME TypeOK, UnsavedIsFlagged, [Next]_vars,
                      NEW n \in Cams, cs'[n] # disk'[n], n \notin lost'
               PROVE  \E c \in Clients : open'[c] /\ child'[c].save
    BY DEF UnsavedIsFlagged
  <2>0. \A c \in Clients : child[c] \in Child
    BY ChildField
  \* The record was unsaved before: whoever had to save it still has to.
  <2>1. ASSUME cs[n] # disk[n], n \notin lost, UNCHANGED open,
               \A c \in Clients : child[c].save => child'[c].save
        PROVE  \E c \in Clients : open'[c] /\ child'[c].save
    BY <2>1 DEF UnsavedIsFlagged
  <2>2. ASSUME NEW c \in Clients, ScanCam(c) \/ ReadNothing(c) \/ HandleMask(c)
                                  \/ LoadCounter(c) \/ StoreCounter(c)
        PROVE  \E x \in Clients : open'[x] /\ child'[x].save
    <3>1. UNCHANGED <<cs, disk, lost, open>>
      BY <2>2 DEF ScanCam, ReadNothing, HandleMask, LoadCounter, StoreCounter, StoreWith,
                  server
    <3> DEFINE n_ == child[c].at
               moved == [child[c] EXCEPT !.at = n_ + 1,
                                         !.pcs = [@ EXCEPT ![n_] = changed[n_]],
                                         !.dontsend = @ /\ ~child[c].mask]
               on == [child[c] EXCEPT !.at = n_ + 1]
               again == [child[c] EXCEPT !.at = 1]
               masked == [child[c] EXCEPT !.mask = TRUE, !.at = 1]
               loaded == [child[c] EXCEPT !.stage = "store", !.tmp = changed[child[c].cam]]
               stored == [child[c] EXCEPT !.stage = "loop", !.at = 1, !.cam = 1, !.tmp = 0]
    <3>2. \/ Become(c, moved) \/ Become(c, on) \/ Become(c, again)
          \/ Become(c, masked) \/ Become(c, loaded) \/ Become(c, stored)
      BY <2>2 DEF ScanCam, ReadNothing, HandleMask, LoadCounter, StoreCounter, StoreWith
    <3>3. /\ moved.save = child[c].save /\ on.save = child[c].save
          /\ again.save = child[c].save /\ masked.save = child[c].save
          /\ loaded.save = child[c].save /\ stored.save = child[c].save
      BY <2>0 DEF Child
    <3> HIDE DEF moved, on, again, masked, loaded, stored
    <3>4. \A x \in Clients : child[x].save => child'[x].save
      BY <3>2, <3>3, SaveKept
    <3> QED BY <3>1, <3>4, <2>1
  <2>3. ASSUME NEW c \in Clients, HandleRegister(c)
        PROVE  \E x \in Clients : open'[x] /\ child'[x].save
    <3>1. c \notin Feeders /\ UNCHANGED <<cs, disk, lost, open>>
      BY <2>3 DEF HandleRegister, Unsaved
    <3> DEFINE r == [child[c] EXCEPT !.at = 1, !.feeder = 0]
    <3>2. Become(c, r)
      BY <2>3, <3>1 DEF HandleRegister
    <3>3. r.save = child[c].save
      BY <2>0 DEF Child
    <3>4. \A x \in Clients : child[x].save => child'[x].save
      BY <3>2, <3>3, SaveKept
    <3> QED BY <3>1, <3>4, <2>1
  <2>4. ASSUME NEW c \in Clients, HandleSettings(c)
        PROVE  \E x \in Clients : open'[x] /\ child'[x].save
    <3> DEFINE r == [child[c] EXCEPT !.stage = "load", !.cam = Head(up[c]).cam, !.save = TRUE,
                                     !.dontsend = @ \/ Head(up[c]).quiet]
    <3>1. Become(c, r) /\ open'[c]
      BY <2>4 DEF HandleSettings, CopyRecord, ReadMsg
    <3>2. r.save
      BY <2>0 DEF Child
    <3>3. child'[c] = r
      BY <3>1 DEF Become, TypeOK
    <3> QED BY <3>1, <3>2, <3>3
  <2>5. ASSUME NEW c \in Clients, SaveTick(c) PROVE FALSE
    BY <2>5 DEF SaveTick, Unsaved
  <2>6. ASSUME NEW c \in Clients, Connect(c)
        PROVE  \E x \in Clients : open'[x] /\ child'[x].save
    <3>1. PICK x \in Clients : open[x] /\ child[x].save
      BY <2>6 DEF Connect, server, UnsavedIsFlagged
    <3>2. x # c
      BY <2>6, <3>1 DEF Connect
    <3> QED BY <2>6, <3>1, <3>2 DEF Connect, Become, TypeOK
  <2>7. ASSUME NEW c \in Clients, Disconnect(c)
        PROVE  \E x \in Clients : open'[x] /\ child'[x].save
    <3>1. ~child[c].save /\ UNCHANGED <<cs, disk, lost>>
      BY <2>7 DEF Disconnect, Unsaved
    <3>2. PICK x \in Clients : open[x] /\ child[x].save
      BY <3>1 DEF UnsavedIsFlagged
    <3> QED BY <2>7, <3>1, <3>2 DEF Disconnect, Become, TypeOK
  <2>8. ASSUME UNCHANGED <<cs, disk, lost, open, child>>
        PROVE  \E x \in Clients : open'[x] /\ child'[x].save
    BY <2>8, <2>1
  <2>9. ASSUME NEW c \in Clients, Restart(c)
        PROVE  UNCHANGED <<cs, disk, lost, open, child>>
    BY <2>9 DEF Restart, server
  <2>10. ASSUME NEW k \in Consoles,
                ConsoleStep(k) \/ Edit(k) \/ \E m \in Cams : SelectCam(k, m)
         PROVE  UNCHANGED <<cs, disk, lost, open, child>>
    BY <2>10 DEF ConsoleStep, TimerSend, ConsoleRecv, Edit, SelectCam, server
  <2>11. ASSUME NEW f \in Feeders, CamStep(f)
         PROVE  UNCHANGED <<cs, disk, lost, open, child>>
    BY <2>11 DEF CamStep, CamRecv, CamReinit, server
  <2>12. CASE UNCHANGED vars
    BY <2>12, <2>8 DEF vars, server
  <2> QED
    <3>1. CASE Next
      BY <3>1, <2>2, <2>3, <2>4, <2>5, <2>6, <2>7, <2>8, <2>9, <2>10, <2>11
      DEF Next, ChildStep
    <3> QED BY <3>1, <2>12
<1> QED BY <1>1, <1>2, TypeCorrect, PTL DEF Spec

-----------------------------------------------------------------------------
(* Monotonic reads.                                                         *)

\* A channel that has yet to deliver d to a reader that has seen low, of records
\* that have been written high times.
Chan(d, low, high) ==
  /\ \A i \in 1..Len(d) : low[d[i].cam] <= d[i].w /\ d[i].w <= high[d[i].cam]
  /\ \A i, j \in 1..Len(d) : i < j /\ d[i].cam = d[j].cam => d[i].w <= d[j].w

Writes == [n \in Cams |-> cs[n].w]

\* The inductive invariant: what is in a channel lies, in order, between what
\* its reader has seen and what has been written.
InOrder ==
  \A c \in Clients :
    /\ Chan(down[c], seen[c], Writes)
    /\ \A n \in Cams : seen[c][n] <= cs[n].w

Count == [Cams -> Nat]

\* A message on its way to a client names a camera and a write count (DownMsg).
LEMMA MessageFields ==
  ASSUME NEW d \in Seq(DownMsg)
  PROVE  \A i \in 1..Len(d) : d[i].cam \in Cams /\ d[i].w \in Nat
<1>1. \A i \in 1..Len(d) : d[i] \in DownMsg
  BY ElementOfSeq
<1> QED BY <1>1 DEF DownMsg

\* A child may put any present records behind what it sent before.
LEMMA ChanExtend ==
  ASSUME NEW d \in Seq(DownMsg), NEW s \in Seq(DownMsg), NEW low \in Count, NEW high \in Count,
         Chan(d, low, high), \A n \in Cams : low[n] <= high[n],
         \A i \in 1..Len(s) : s[i].w = high[s[i].cam]
  PROVE  Chan(d \o s, low, high)
<1> DEFINE e == d \o s
<1>1. /\ e \in Seq(DownMsg) /\ Len(e) = Len(d) + Len(s)
      /\ \A i \in 1..Len(e) : e[i] = IF i <= Len(d) THEN d[i] ELSE s[i - Len(d)]
  BY ConcatProperties
<1>2. \A i \in 1..Len(e) : e[i].cam \in Cams /\ e[i].w \in Nat
  BY <1>1, MessageFields
<1>3. Len(d) \in Nat /\ Len(s) \in Nat
  BY LenProperties
<1>4. ASSUME NEW i \in 1..Len(e) PROVE i <= Len(d) \/ e[i].w = high[e[i].cam]
  BY <1>1, <1>3
<1>5. ASSUME NEW i \in 1..Len(e) PROVE low[e[i].cam] <= e[i].w /\ e[i].w <= high[e[i].cam]
  BY <1>1, <1>2, <1>3, <1>4 DEF Chan, Count
<1>6. ASSUME NEW i \in 1..Len(e), NEW j \in 1..Len(e), i < j, e[i].cam = e[j].cam
      PROVE  e[i].w <= e[j].w
  <2>1. CASE j <= Len(d)
    BY <2>1, <1>1, <1>3, <1>6 DEF Chan
  <2>2. CASE ~(j <= Len(d))
    BY <2>2, <1>4, <1>5, <1>6
  <2> QED BY <2>1, <2>2
<1> QED BY <1>5, <1>6 DEF Chan

\* Receiving the first message moves the reader's view to it.
LEMMA ChanReceive ==
  ASSUME NEW d \in Seq(DownMsg), d # <<>>, NEW low \in Count, NEW high \in Count,
         Chan(d, low, high)
  PROVE  LET m == Head(d) IN
         /\ m \in DownMsg /\ low[m.cam] <= m.w /\ m.w <= high[m.cam]
         /\ Chan(Tail(d), [low EXCEPT ![m.cam] = m.w], high)
<1> DEFINE m == Head(d)
           t == Tail(d)
           seen2 == [low EXCEPT ![m.cam] = m.w]
<1>1. /\ t \in Seq(DownMsg) /\ Len(t) = Len(d) - 1 /\ Len(d) \in Nat \ {0}
      /\ \A i \in 1..Len(t) : t[i] = d[i + 1]
  BY HeadTailProperties, EmptySeq
<1>2. m = d[1] /\ m \in DownMsg
  BY HeadTailProperties
<1>3. \A i \in 1..Len(d) : d[i].cam \in Cams /\ d[i].w \in Nat
  BY MessageFields
<1>4. low[m.cam] <= m.w /\ m.w <= high[m.cam]
  BY <1>1, <1>2 DEF Chan
<1>5. ASSUME NEW i \in 1..Len(t) PROVE seen2[t[i].cam] <= t[i].w /\ t[i].w <= high[t[i].cam]
  <2>1. i + 1 \in 1..Len(d) /\ 1 \in 1..Len(d) /\ t[i] = d[i + 1] /\ 1 < i + 1
    BY <1>1
  <2>2. low[t[i].cam] <= t[i].w /\ t[i].w <= high[t[i].cam]
    BY <2>1 DEF Chan
  <2>3. m.cam = t[i].cam => m.w <= t[i].w
    BY <2>1, <1>2 DEF Chan
  <2> QED BY <2>1, <2>2, <2>3, <1>2, <1>3 DEF Count
<1>6. ASSUME NEW i \in 1..Len(t), NEW j \in 1..Len(t), i < j, t[i].cam = t[j].cam
      PROVE  t[i].w <= t[j].w
  <2>1. i + 1 \in 1..Len(d) /\ j + 1 \in 1..Len(d) /\ i + 1 < j + 1
    BY <1>1, <1>6
  <2> QED BY <2>1, <1>1, <1>6 DEF Chan
<1> QED BY <1>2, <1>4, <1>5, <1>6 DEF Chan

\* A write may come at any time.
LEMMA ChanWrite ==
  ASSUME NEW d \in Seq(DownMsg), NEW low \in Count, NEW high \in Count, NEW high2 \in Count,
         Chan(d, low, high), \A n \in Cams : high[n] <= high2[n]
  PROVE  Chan(d, low, high2)
<1>1. \A i \in 1..Len(d) : d[i].cam \in Cams /\ d[i].w \in Nat
  BY MessageFields
<1> QED BY <1>1 DEF Chan, Count

\* What a step that neither writes nor reads must leave alone.
Channels == <<cs, down, seen>>

\* When the server starts no record is on its way (Init).
LEMMA InOrderInit == Init => InOrder
<1> SUFFICES ASSUME Init, NEW c \in Clients PROVE
      Chan(down[c], seen[c], Writes) /\ \A n \in Cams : seen[c][n] <= cs[n].w
  BY DEF InOrder
<1>1. down[c] = <<>> /\ Len(<<>>) = 0
  BY DEF Init
<1>2. Chan(<<>>, seen[c], Writes)
  BY <1>1 DEF Chan
<1> QED BY <1>1, <1>2 DEF Init

\* The write counts of the records and of what the clients saw are numbers.
LEMMA WritesType == TypeOK => Writes \in Count /\ \A c \in Clients : seen[c] \in Count
BY DEF TypeOK, Writes, Count, Version

\* A step that only puts present records in one channel keeps the order.
LEMMA InOrderSend ==
  ASSUME TypeOK, InOrder, NEW c \in Clients, NEW s, Present(s),
         down' = [down EXCEPT ![c] = down[c] \o s], UNCHANGED <<cs, seen>>
  PROVE  InOrder'
<1>1. down[c] \in Seq(DownMsg) /\ s \in Seq(DownMsg)
  BY ChildField DEF Present
<1>2. /\ Writes \in Count /\ seen[c] \in Count
      /\ Chan(down[c], seen[c], Writes) /\ \A n \in Cams : seen[c][n] <= Writes[n]
  BY WritesType DEF InOrder, Writes
<1>3. \A i \in 1..Len(s) : s[i].w = Writes[s[i].cam]
  BY <1>1, MessageFields DEF Present, Writes
<1>4. Chan(down[c] \o s, seen[c], Writes)
  BY <1>1, <1>2, <1>3, ChanExtend
<1>5. Writes' = Writes
  BY DEF Writes
<1> QED BY <1>4, <1>5 DEF InOrder, TypeOK

\* A client that receives sees a version that exists and is not older.
LEMMA InOrderReceive ==
  ASSUME TypeOK, InOrder, NEW c \in Clients, down[c] # <<>>, UNCHANGED cs,
         down' = [down EXCEPT ![c] = Tail(down[c])],
         seen' = [seen EXCEPT ![c] = [seen[c] EXCEPT ![Head(down[c]).cam] = Head(down[c]).w]]
  PROVE  /\ InOrder'
         /\ Head(down[c]) \in DownMsg
         /\ seen[c][Head(down[c]).cam] <= Head(down[c]).w
         /\ Head(down[c]).w <= cs[Head(down[c]).cam].w
<1> DEFINE m == Head(down[c])
<1>1. down[c] \in Seq(DownMsg) /\ Writes \in Count /\ seen[c] \in Count
  BY ChildField, WritesType
<1>2. Chan(down[c], seen[c], Writes) /\ \A n \in Cams : seen[c][n] <= Writes[n]
  BY DEF InOrder, Writes
<1>3. /\ m \in DownMsg /\ seen[c][m.cam] <= m.w /\ m.w <= Writes[m.cam]
      /\ Chan(Tail(down[c]), [seen[c] EXCEPT ![m.cam] = m.w], Writes)
  BY <1>1, <1>2, ChanReceive
<1>4. m.cam \in Cams /\ Writes' = Writes
  BY <1>3 DEF DownMsg, Writes
<1>5. \A n \in Cams : seen'[c][n] <= cs[n].w
  BY <1>1, <1>2, <1>3, <1>4 DEF TypeOK, Writes, Count
<1>6. InOrder'
  BY <1>3, <1>4, <1>5 DEF InOrder, TypeOK
<1> QED BY <1>3, <1>4, <1>6 DEF Writes

\* A step that touches neither the records nor a channel keeps the order.
LEMMA InOrderStutter == InOrder /\ UNCHANGED Channels => InOrder'
BY DEF InOrder, Channels, Writes

\* One step of the settings channel is one step of MonotonicReads, or none.
ReadsStep == [Reads!Next]_<<Writes, seen>>

\* A child that sends records, found by its scan or asked for by a registration,
\* keeps the order and writes nothing (ScanCam, HandleRegister).
LEMMA StepSend ==
  ASSUME TypeOK, InOrder, NEW c \in Clients, ScanCam(c) \/ HandleRegister(c)
  PROVE  InOrder' /\ ReadsStep
<1>1. UNCHANGED <<cs, seen>>
  BY DEF ScanCam, HandleRegister, server, client
<1>2. ReadsStep
  BY <1>1 DEF ReadsStep, Writes
<1>3. CASE ScanCam(c)
  <2> DEFINE n == child[c].at
  <2>1. n \in Cams
    BY <1>3 DEF ScanCam
  <2>2. down' = [down EXCEPT ![c] = down[c] \o Notice(c, n)] \/ UNCHANGED down
    BY <1>3 DEF ScanCam
  <2>3. Present(Notice(c, n))
    BY <2>1, NoticePresent
  <2>4. InOrder'
    BY <1>1, <2>2, <2>3, InOrderSend, InOrderStutter DEF Channels
  <2> QED BY <1>2, <2>4
<1>4. CASE HandleRegister(c)
  <2>1. down' = [down EXCEPT ![c] = down[c] \o RegisterReply(c)]
    BY <1>4 DEF HandleRegister
  <2>2. InOrder'
    BY <1>1, <2>1, ReplyPresent, InOrderSend
  <2> QED BY <1>2, <2>2
<1> QED BY <1>3, <1>4

\* The copy of a received record over the shared one is a write of one item
\* (HandleSettings).
LEMMA StepWrite ==
  ASSUME TypeOK, InOrder, NEW c \in Clients, HandleSettings(c)
  PROVE  InOrder' /\ ReadsStep
<1> DEFINE m == Head(up[c])
<1>1. /\ up[c] # <<>> /\ m.type = "camerasettings" /\ UNCHANGED <<down, seen>>
      /\ cs' = [cs EXCEPT ![m.cam] = [v |-> m.v, w |-> cs[m.cam].w + 1]]
  BY DEF HandleSettings, CopyRecord, ReadMsg, client
<1>2. m \in UpMsg
  BY <1>1, ChildField, HeadTailProperties
<1>3. m.cam \in Cams
  BY <1>1, <1>2 DEF UpMsg, MaskMsg, RegisterMsg
<1>4. Writes \in Count /\ Writes' = [Writes EXCEPT ![m.cam] = Writes[m.cam] + 1]
  BY <1>1, <1>3, WritesType DEF TypeOK, Version, Writes
<1>5. Writes' \in Count /\ \A n \in Cams : Writes[n] <= Writes'[n]
  BY <1>3, <1>4 DEF Count
<1>6. ASSUME NEW x \in Clients
      PROVE  Chan(down'[x], seen'[x], Writes') /\ \A n \in Cams : seen'[x][n] <= cs'[n].w
  <2>1. /\ Chan(down[x], seen[x], Writes) /\ \A n \in Cams : seen[x][n] <= Writes[n]
        /\ seen[x] \in Count /\ down[x] \in Seq(DownMsg)
    BY WritesType, ChildField DEF InOrder, Writes
  <2>2. Chan(down[x], seen[x], Writes')
    BY <2>1, <1>4, <1>5, ChanWrite
  <2>3. \A n \in Cams : seen[x][n] <= Writes'[n]
    BY <2>1, <1>4, <1>5 DEF Count
  <2> QED BY <2>2, <2>3, <1>1 DEF Writes
<1>7. InOrder'
  BY <1>6 DEF InOrder
<1>8. Reads!Write(m.cam)
  BY <1>1, <1>4 DEF Reads!Write, Writes
<1>9. Reads!Next
  BY <1>3, <1>8 DEF Reads!Next, Reads!Write
<1> QED BY <1>7, <1>9 DEF ReadsStep

\* A client that takes a record from its socket reads a version no older than the
\* one it had (ConsoleRecv, CamRecv).
LEMMA StepReceive ==
  ASSUME TypeOK, InOrder, NEW c \in Clients, down[c] # <<>>, UNCHANGED cs,
         down' = [down EXCEPT ![c] = Tail(down[c])],
         seen' = [seen EXCEPT ![c] = [seen[c] EXCEPT ![Head(down[c]).cam] = Head(down[c]).w]]
  PROVE  InOrder' /\ ReadsStep
<1> DEFINE m == Head(down[c])
<1>1. InOrder' /\ m \in DownMsg /\ seen[c][m.cam] <= m.w /\ m.w <= Writes[m.cam]
  <2>1. InOrder' /\ m \in DownMsg /\ seen[c][m.cam] <= m.w /\ m.w <= cs[m.cam].w
    BY InOrderReceive
  <2> QED BY <2>1 DEF Writes, DownMsg
<1>2. m.cam \in Cams /\ m.w \in Nat
  BY <1>1 DEF DownMsg
<1>3. seen[c][m.cam] \in Nat /\ Writes[m.cam] \in Nat
  BY <1>2, WritesType DEF Count
<1>4. m.w \in seen[c][m.cam]..Writes[m.cam] /\ UNCHANGED Writes
  BY <1>1, <1>2, <1>3 DEF Writes
<1>5. seen' = [seen EXCEPT ![c][m.cam] = m.w]
  BY DEF TypeOK
<1>6. Reads!Learn(c, m.cam)
  BY <1>4, <1>5 DEF Reads!Learn, Writes
<1> QED BY <1>1, <1>2, <1>6 DEF ReadsStep, Reads!Next

\* A record that is ignored takes nothing back that was read before (ConsoleRecv).
LEMMA StepIgnore ==
  ASSUME TypeOK, InOrder, NEW c \in Clients, down[c] # <<>>, UNCHANGED <<cs, seen>>,
         down' = [down EXCEPT ![c] = Tail(down[c])]
  PROVE  InOrder' /\ ReadsStep
<1> DEFINE d == down[c]
           t == Tail(d)
           low == seen[c]
<1>1. /\ t \in Seq(DownMsg) /\ Len(t) = Len(d) - 1 /\ Len(d) \in Nat \ {0}
      /\ \A i \in 1..Len(t) : t[i] = d[i + 1]
  BY ChildField, HeadTailProperties, EmptySeq
<1>2. Chan(d, low, Writes)
  BY DEF InOrder
<1>3. down'[c] = t /\ \A x \in Clients \ {c} : down'[x] = down[x]
  BY DEF TypeOK
<1> HIDE DEF d, t, low
<1>4. ASSUME NEW i \in 1..Len(t)
      PROVE  low[t[i].cam] <= t[i].w /\ t[i].w <= Writes[t[i].cam]
  <2>1. i + 1 \in 1..Len(d) /\ t[i] = d[i + 1]
    BY <1>1
  <2> QED BY <2>1, <1>2 DEF Chan
<1>5. ASSUME NEW i \in 1..Len(t), NEW j \in 1..Len(t), i < j, t[i].cam = t[j].cam
      PROVE  t[i].w <= t[j].w
  <2>1. i + 1 \in 1..Len(d) /\ j + 1 \in 1..Len(d) /\ i + 1 < j + 1
    BY <1>1, <1>5
  <2>2. t[i] = d[i + 1] /\ t[j] = d[j + 1]
    BY <1>1
  <2> QED BY <2>1, <2>2, <1>2, <1>5 DEF Chan
<1>6. Chan(t, low, Writes)
  BY <1>4, <1>5 DEF Chan
<1> QED BY <1>3, <1>6 DEF InOrder, ReadsStep, Writes, low

\* A connection that closes takes its unread records with it and goes back to
\* nothing older (Disconnect).
LEMMA StepDisconnect ==
  ASSUME TypeOK, InOrder, NEW c \in Clients, Disconnect(c)
  PROVE  InOrder' /\ ReadsStep
<1>1. down' = [down EXCEPT ![c] = <<>>] /\ UNCHANGED <<cs, seen>>
  BY DEF Disconnect
<1>2. Chan(<<>>, seen[c], Writes)
  BY EmptySeq DEF Chan
<1> QED BY <1>1, <1>2 DEF InOrder, TypeOK, ReadsStep, Writes

\* Every other step leaves records and channels alone and is a stutter of the
\* abstract store.
LEMMA StepOther == ASSUME InOrder, UNCHANGED Channels PROVE InOrder' /\ ReadsStep
BY InOrderStutter DEF ReadsStep, Channels, Writes

\* Every step of the system is a step of MonotonicReads or a stutter of it, and
\* keeps the records in order.
LEMMA StepReads == TypeOK /\ InOrder /\ [Next]_vars => InOrder' /\ ReadsStep
<1> SUFFICES ASSUME TypeOK, InOrder, [Next]_vars PROVE InOrder' /\ ReadsStep
  OBVIOUS
<1>1. ASSUME NEW c \in Clients, ChildStep(c) PROVE InOrder' /\ ReadsStep
  <2>1. CASE ScanCam(c) \/ HandleRegister(c)
    BY <2>1, StepSend
  <2>2. CASE HandleSettings(c)
    BY <2>2, StepWrite
  <2>3. CASE ReadNothing(c) \/ HandleMask(c) \/ LoadCounter(c) \/ StoreCounter(c)
    BY <2>3, StepOther DEF ReadNothing, HandleMask, LoadCounter, StoreCounter, StoreWith,
                           server, client, Channels
  <2> QED BY <1>1, <2>1, <2>2, <2>3 DEF ChildStep
<1>2. ASSUME NEW c \in Clients, SaveTick(c) \/ Connect(c) \/ Restart(c)
      PROVE  InOrder' /\ ReadsStep
  BY <1>2, StepOther DEF SaveTick, Connect, Restart, server, client, Channels
<1>3. ASSUME NEW c \in Clients, Disconnect(c) PROVE InOrder' /\ ReadsStep
  BY <1>3, StepDisconnect
<1>4. ASSUME NEW k \in Consoles, ConsoleRecv(k) PROVE InOrder' /\ ReadsStep
  <2>1. k \in Clients /\ down[k] # <<>> /\ UNCHANGED cs
    BY <1>4 DEF ConsoleRecv, Clients, server
  <2>2. /\ down' = [down EXCEPT ![k] = Tail(down[k])]
        /\ \/ UNCHANGED seen
           \/ seen' = [seen EXCEPT ![k] =
                          [seen[k] EXCEPT ![Head(down[k]).cam] = Head(down[k]).w]]
    BY <1>4, <2>1 DEF ConsoleRecv, TypeOK
  <2> QED BY <2>1, <2>2, StepReceive, StepIgnore
<1>5. ASSUME NEW k \in Consoles, TimerSend(k) \/ Edit(k) \/ \E n \in Cams : SelectCam(k, n)
      PROVE  InOrder' /\ ReadsStep
  BY <1>5, StepOther DEF TimerSend, Edit, SelectCam, server, Channels
<1>6. ASSUME NEW f \in Feeders, CamRecv(f) PROVE InOrder' /\ ReadsStep
  <2>1. f \in Clients /\ down[f] # <<>> /\ UNCHANGED cs
    BY <1>6 DEF CamRecv, Clients, server
  <2>2. /\ down' = [down EXCEPT ![f] = Tail(down[f])]
        /\ seen' = [seen EXCEPT ![f] = [seen[f] EXCEPT ![Head(down[f]).cam] = Head(down[f]).w]]
    BY <1>6, <2>1 DEF CamRecv, TypeOK
  <2> QED BY <2>1, <2>2, StepReceive
<1>7. ASSUME NEW f \in Feeders, CamReinit(f) PROVE InOrder' /\ ReadsStep
  BY <1>7, StepOther DEF CamReinit, server, Channels
<1>8. CASE UNCHANGED vars
  BY <1>8, StepOther DEF vars, server, client, Channels
<1> QED
  <2>1. CASE Next
    BY <2>1, <1>1, <1>2, <1>3, <1>4, <1>5, <1>6, <1>7 DEF Next, ConsoleStep, CamStep
  <2> QED BY <2>1, <1>8

\* The children, the counters and the connections together implement a store
\* with monotonic reads: no console and no camera is ever taken back to an
\* older record, however often it reconnects.
THEOREM ImplementsMonotonicReads == Spec => MonotonicReads
<1>1. Init => Reads!Init
  BY DEF Init, Reads!Init
<1>2. InOrder /\ TypeOK /\ [Next]_vars => InOrder' /\ [Reads!Next]_<<[n \in Cams |-> cs[n].w], seen>>
  BY StepReads DEF ReadsStep, Writes
<1> QED BY <1>1, <1>2, InOrderInit, TypeCorrect, PTL DEF Spec, MonotonicReads, Reads!Spec

-----------------------------------------------------------------------------
(* A camera at rest obeys the server.                                       *)

Registered(f) == open[f] /\ child[f].feeder = f

\* What camera f will hold when it has received everything on its way to it.
Final(f) == IF down[f] = <<>> THEN local[f][f] ELSE down[f][Len(down[f])].v

\* A child has written f's record and still has the counter to increment.
Writing(f) == \E c \in Clients : child[c].stage # "loop" /\ child[c].cam = f

NoMask(q) == \A i \in 1..Len(q) : q[i].type # "messagemask"

\* A camera's child serves that camera and never asks for others' records.
Plain(f) == ~child[f].mask /\ child[f].feeder \in {0, f} /\ NoMask(up[f])

\* Once the camera's child has scanned its own counter, that counter is not
\* ahead of the shared one, unless a store went back over an increment.
NotAhead(f) ==
  open[f] /\ f \notin torn /\ (child[f].feeder = f \/ child[f].at > f)
    => child[f].pcs[f] <= changed[f]

\* The camera holds or will be sent the record, or the child will notice.
Told(f) ==
  Registered(f) /\ f \notin torn
    => Final(f) = cs[f].v \/ Moved(f, f) \/ Writing(f)

\* A connection that is closed leaves no increment half done.
Quiet == \A c \in Clients : ~open[c] => child[c].stage = "loop"

Obedient(f) == Plain(f) /\ NotAhead(f) /\ Told(f)

\* The inductive invariant.
ToldInv == Quiet /\ \A f \in Feeders : Obedient(f)

\* No counter has reached its last value yet (cs_changed[], 16 bits): the children
\* compare for inequality and a counter that went all the way round looks unmoved.
Low == \A n \in Cams : changed[n] < Wrap - 1

\* Nothing a camera or its child appends or takes brings a mask message (up).
LEMMA NoMaskLemma ==
  ASSUME NEW q \in Seq(UpMsg), NoMask(q)
  PROVE  /\ q # <<>> => NoMask(Tail(q)) /\ Head(q).type # "messagemask"
         /\ \A n \in Cams, v \in Nat : NoMask(Append(q, SettingsMsg(n, v, FALSE)))
<1>1. ASSUME q # <<>> PROVE NoMask(Tail(q)) /\ Head(q).type # "messagemask"
  <2>1. /\ Len(Tail(q)) = Len(q) - 1 /\ Len(q) \in Nat \ {0} /\ Head(q) = q[1]
        /\ \A i \in 1..Len(Tail(q)) : Tail(q)[i] = q[i + 1]
    BY <1>1, HeadTailProperties, EmptySeq
  <2> QED BY <2>1 DEF NoMask
<1>2. ASSUME NEW n \in Cams, NEW v \in Nat
      PROVE  NoMask(Append(q, SettingsMsg(n, v, FALSE)))
  <2> DEFINE m == SettingsMsg(n, v, FALSE)
  <2>1. m \in UpMsg /\ m.type # "messagemask"
    BY DEF SettingsMsg, UpMsg
  <2> HIDE DEF m
  <2>2. /\ Len(Append(q, m)) = Len(q) + 1 /\ Len(q) \in Nat
        /\ \A i \in 1..Len(q) : Append(q, m)[i] = q[i]
        /\ Append(q, m)[Len(q) + 1] = m
    BY <2>1
  <2>3. ASSUME NEW i \in 1..(Len(q) + 1) PROVE Append(q, m)[i].type # "messagemask"
    <3>1. CASE i \in 1..Len(q)
      BY <2>2, <3>1 DEF NoMask
    <3>2. CASE i = Len(q) + 1
      BY <2>1, <2>2, <3>2
    <3> QED BY <2>2, <3>1, <3>2
  <2> QED BY <2>2, <2>3 DEF NoMask, m
<1> QED BY <1>1, <1>2

\* A step that touches nothing of camera f's side keeps what the invariant says of
\* f; it may end a scan, and it may tear a counter.
LEMMA ObedientFrame ==
  ASSUME TypeOK, NEW f \in Feeders, Obedient(f),
         open'[f] = open[f], child'[f].feeder = child[f].feeder,
         child'[f].mask = child[f].mask, child'[f].pcs[f] = child[f].pcs[f],
         child'[f].at > f => child[f].at > f,
         changed'[f] = changed[f], cs'[f] = cs[f], f \in torn => f \in torn',
         Final(f)' = Final(f), Writing(f) => Writing(f)', NoMask(up[f]) => NoMask(up'[f])
  PROVE  Obedient(f)'
<1>1. Plain(f)'
  BY DEF Obedient, Plain
<1>2. NotAhead(f)'
  BY DEF Obedient, NotAhead
<1>3. Told(f)'
  BY DEF Obedient, Told, Registered, Moved
<1> QED BY <1>1, <1>2, <1>3 DEF Obedient

\* When the server starts nobody is registered (Init).
LEMMA ToldInit == Init => ToldInv
<1> SUFFICES ASSUME Init PROVE ToldInv
  OBVIOUS
<1>1. \A c \in Clients : child[c] = Idle /\ ~open[c] /\ up[c] = <<>>
  BY DEF Init
<1>2. Idle.stage = "loop" /\ ~Idle.mask /\ Idle.feeder = 0
  BY DEF Idle, Fresh
<1>3. ASSUME NEW f \in Feeders PROVE Obedient(f)
  <2>1. f \in Clients
    BY DEF Clients
  <2>2. Len(<<>>) = 0
    BY EmptySeq
  <2> QED BY <1>1, <1>2, <2>1, <2>2 DEF Obedient, Plain, NoMask, NotAhead, Told, Registered
<1> QED BY <1>1, <1>2, <1>3 DEF ToldInv, Quiet

\* A child that goes through its loop leaves its connection quiet or open
\* (ChildStep, SaveTick).
LEMMA QuietKept ==
  ASSUME TypeOK, Quiet, [Next]_vars
  PROVE  Quiet'
<1> SUFFICES ASSUME NEW c \in Clients, ~open'[c] PROVE child'[c].stage = "loop"
  BY DEF Quiet
<1>1. \A x \in Clients : child[x] \in Child
  BY ChildField
<1>2. ASSUME NEW x \in Clients, ChildStep(x) \/ SaveTick(x) PROVE child'[c].stage = "loop"
  <2>1. ~open[c] /\ child[c].stage = "loop"
    BY <1>2 DEF ChildStep, ScanCam, ReadNothing, HandleMask, HandleRegister, HandleSettings,
                CopyRecord, LoadCounter, StoreCounter, StoreWith, SaveTick, Quiet
  <2>2. c # x /\ child'[c] = child[c]
    BY <1>2, <2>1 DEF ChildStep, ScanCam, ReadNothing, ReadMsg, HandleMask, HandleRegister,
         HandleSettings, CopyRecord, LoadCounter, StoreCounter, StoreWith, SaveTick, Become, TypeOK
  <2> QED BY <2>1, <2>2
<1>3. ASSUME NEW x \in Clients, Connect(x) \/ Disconnect(x) PROVE child'[c].stage = "loop"
  <2>1. Fresh.stage = "loop" /\ Idle.stage = "loop"
    BY DEF Fresh, Idle
  <2>2. child'[x].stage = "loop"
    BY <1>3, <2>1 DEF Connect, Disconnect, Become, TypeOK
  <2>3. c # x => child'[c] = child[c] /\ open'[c] = open[c]
    BY <1>3 DEF Connect, Disconnect, Become, TypeOK
  <2> QED BY <2>2, <2>3 DEF Quiet
<1>4. ASSUME UNCHANGED <<open, child>> PROVE child'[c].stage = "loop"
  BY <1>4 DEF Quiet
<1>5. ASSUME NEW x \in Clients, Restart(x) PROVE UNCHANGED <<open, child>>
  BY <1>5 DEF Restart
<1>6. ASSUME NEW k \in Consoles,
             ConsoleStep(k) \/ Edit(k) \/ \E n \in Cams : SelectCam(k, n)
      PROVE  UNCHANGED <<open, child>>
  BY <1>6 DEF ConsoleStep, TimerSend, ConsoleRecv, Edit, SelectCam
<1>7. ASSUME NEW f \in Feeders, CamStep(f) PROVE UNCHANGED <<open, child>>
  BY <1>7 DEF CamStep, CamRecv, CamReinit
<1>8. CASE UNCHANGED vars
  BY <1>8, <1>4 DEF vars
<1> QED
  <2>1. CASE Next
    BY <2>1, <1>2, <1>3, <1>4, <1>5, <1>6, <1>7 DEF Next
  <2> QED BY <2>1, <1>8

\* The children that are writing f's record go on writing it through a step of
\* another child's loop (Become).
LEMMA WritingKept ==
  ASSUME TypeOK, NEW f \in Feeders, NEW c \in Clients, NEW r, Become(c, r),
         \/ child[c].stage = "loop"
         \/ child[c].cam # f
         \/ r.stage # "loop" /\ r.cam = child[c].cam
  PROVE  Writing(f) => Writing(f)'
<1> SUFFICES ASSUME NEW x \in Clients, child[x].stage # "loop", child[x].cam = f
             PROVE  child'[x].stage # "loop" /\ child'[x].cam = f
  BY DEF Writing
<1>1. child' = [child EXCEPT ![c] = r] /\ child \in [Clients -> Child]
  BY DEF Become, TypeOK
<1>2. CASE x = c
  BY <1>1, <1>2
<1>3. CASE x # c
  BY <1>1, <1>3
<1> QED BY <1>2, <1>3

\* The scan tells the camera what it has to, and its counter catches up (ScanCam).
LEMMA ToldScan ==
  ASSUME TypeOK, NEW f \in Feeders, Obedient(f), NEW c \in Clients, ScanCam(c)
  PROVE  Obedient(f)'
<1> DEFINE n == child[c].at
           r == [child[c] EXCEPT !.at = n + 1, !.pcs = [@ EXCEPT ![n] = changed[n]],
                                 !.dontsend = @ /\ ~child[c].mask]
           s == [child[c] EXCEPT !.at = n + 1]
<1>1. /\ n \in Cams /\ f \in Cams /\ f \in Clients /\ child[c] \in Child /\ child[f] \in Child
      /\ child[c].stage = "loop"
      /\ UNCHANGED <<cs, changed, open, up, local>>
  BY ChildField DEF ScanCam, Clients, client
<1>2. /\ Moved(c, n) => /\ Become(c, r)
                        /\ down' = [down EXCEPT ![c] = down[c] \o Notice(c, n)]
                        /\ torn' = IF c = n THEN torn \ {n} ELSE torn
      /\ ~Moved(c, n) => Become(c, s) /\ UNCHANGED <<down, torn>>
  BY DEF ScanCam
<1>3. /\ r.feeder = child[c].feeder /\ r.mask = child[c].mask /\ r.at = n + 1
      /\ r.pcs = [child[c].pcs EXCEPT ![n] = changed[n]] /\ r.stage = child[c].stage
      /\ s.feeder = child[c].feeder /\ s.mask = child[c].mask /\ s.at = n + 1
      /\ s.pcs = child[c].pcs /\ s.stage = child[c].stage
  BY <1>1 DEF Child
<1>4. child[c].pcs \in [Cams -> Nat] /\ changed \in [Cams -> 0..(Wrap - 1)]
  BY <1>1 DEF Child, TypeOK
<1> HIDE DEF r, s
<1>5. Become(c, r) \/ Become(c, s)
  BY <1>2
<1>6. Writing(f) => Writing(f)'
  BY <1>1, <1>5, WritingKept
<1>7. CASE c # f
  <2>1. child'[f] = child[f] /\ down'[f] = down[f]
    BY <1>1, <1>2, <1>5, <1>7 DEF Become, TypeOK
  <2>2. f \in torn => f \in torn'
    BY <1>2, <1>7
  <2>3. Final(f)' = Final(f)
    BY <1>1, <2>1 DEF Final
  <2> QED BY <1>1, <1>6, <2>1, <2>2, <2>3, ObedientFrame
<1>8. CASE c = f /\ n # f
  <2>1. child'[f] = r \/ child'[f] = s
    BY <1>1, <1>5, <1>8 DEF Become, TypeOK
  <2>2. /\ child'[f].feeder = child[f].feeder /\ child'[f].mask = child[f].mask
        /\ child'[f].at = n + 1 /\ child'[f].pcs[f] = child[f].pcs[f]
    BY <1>1, <1>3, <1>4, <1>8, <2>1
  <2>3. child'[f].at > f => child[f].at > f
    BY <1>1, <1>8, <2>2 DEF Cams
  <2>4. Final(f)' = Final(f)
    <3>1. child[f].feeder # n
      BY <1>1, <1>8 DEF Obedient, Plain, Cams
    <3>2. Notice(c, n) = <<>> \o <<>>
      BY <1>8, <3>1 DEF Obedient, Plain, Notice
    <3>3. <<>> \o <<>> = <<>>
      BY EmptySeq, ConcatEmptySeq
    <3>4. down[f] \o <<>> = down[f]
      BY <1>1, ChildField, ConcatEmptySeq
    <3>5. down'[f] = down[f]
      BY <1>1, <1>2, <1>8, <3>2, <3>3, <3>4 DEF TypeOK
    <3> QED BY <1>1, <3>5 DEF Final
  <2>5. f \in torn => f \in torn'
    BY <1>2, <1>8
  <2> QED BY <1>1, <1>6, <2>2, <2>3, <2>4, <2>5, ObedientFrame
<1>9. CASE c = f /\ n = f /\ Moved(c, n)
  <2>1. child'[f] = r
    BY <1>1, <1>2, <1>9 DEF Become, TypeOK
  <2>2. child'[f].pcs[f] = changed[f] /\ ~child'[f].mask /\ child'[f].feeder = child[f].feeder
    BY <1>1, <1>3, <1>4, <1>9, <2>1 DEF Obedient, Plain
  <2>3. NotAhead(f)'
    BY <1>1, <1>4, <2>2 DEF NotAhead
  <2>4. ASSUME child[f].feeder = f PROVE Final(f)' = cs[f].v
    <3>1. Notice(f, f) = <<>> \o <<Record(f)>>
      BY <1>9, <2>4 DEF Obedient, Plain, Notice
    <3>2. Record(f) \in DownMsg /\ Record(f).v = cs[f].v
      BY <1>1, RecordPresent DEF Record
    <3> DEFINE e == Record(f)
    <3> HIDE DEF e
    <3>3. <<>> \o <<e>> = <<e>>
      <4>1. <<e>> \in Seq(DownMsg)
        BY <3>2 DEF e
      <4> QED BY <4>1, ConcatEmptySeq
    <3>4. down[f] \in Seq(DownMsg) /\ down'[f] = down[f] \o <<e>>
      <4>1. Notice(f, f) = <<e>>
        BY <3>1, <3>3 DEF e
      <4>2. down' = [down EXCEPT ![f] = down[f] \o Notice(f, f)]
        BY <1>2, <1>9
      <4> QED BY <1>1, <4>1, <4>2 DEF TypeOK
    <3>5. down'[f] # <<>> /\ down'[f][Len(down'[f])] = e
      BY <3>2, <3>4, ConcatProperties, EmptySeq DEF e
    <3> QED BY <3>2, <3>5 DEF Final, e
  <2>5. Told(f)'
    BY <1>1, <2>2, <2>4 DEF Told, Registered
  <2>6. Plain(f)'
    BY <1>1, <2>2 DEF Obedient, Plain
  <2> QED BY <2>3, <2>5, <2>6 DEF Obedient
<1>10. CASE c = f /\ n = f /\ ~Moved(c, n)
  <2>1. child'[f] = s /\ down'[f] = down[f] /\ torn' = torn
    BY <1>1, <1>2, <1>10 DEF Become, TypeOK
  <2>2. child'[f].pcs[f] = changed[f] /\ child[f].pcs[f] = changed[f]
    BY <1>3, <1>10, <2>1 DEF Moved
  <2>3. NotAhead(f)'
    BY <1>1, <1>4, <2>2 DEF NotAhead
  <2>4. Final(f)' = Final(f) /\ child'[f].feeder = child[f].feeder
        /\ child'[f].mask = child[f].mask
    BY <1>1, <1>3, <1>10, <2>1 DEF Final
  <2>5. Told(f)'
    BY <1>1, <1>6, <2>1, <2>2, <2>4 DEF Obedient, Told, Registered, Moved
  <2>6. Plain(f)'
    BY <1>1, <2>4 DEF Obedient, Plain
  <2> QED BY <2>3, <2>5, <2>6 DEF Obedient
<1> QED BY <1>7, <1>8, <1>9, <1>10

\* A child that changes nothing but its own locals, and those not in what it knows
\* of camera f, leaves f's side alone (Become).
LEMMA ToldLocals ==
  ASSUME TypeOK, NEW f \in Feeders, Obedient(f), NEW c \in Clients, NEW r, Become(c, r),
         r.pcs = child[c].pcs, r.feeder = child[c].feeder,
         r.at = child[c].at \/ r.at = 1, r.mask = child[c].mask \/ c # f,
         \/ child[c].stage = "loop"
         \/ child[c].cam # f
         \/ r.stage # "loop" /\ r.cam = child[c].cam,
         UNCHANGED <<open, down, local>>, cs'[f] = cs[f], changed'[f] = changed[f],
         f \in torn => f \in torn', NoMask(up[f]) => NoMask(up'[f])
  PROVE  Obedient(f)'
<1>1. f \in Cams /\ f \in Clients
  BY DEF Clients
<1>2. child'[f] = IF c = f THEN r ELSE child[f]
  BY <1>1 DEF Become, TypeOK
<1>3. child'[f].at > f => child[f].at > f
  BY <1>1, <1>2 DEF Cams
<1>4. Final(f)' = Final(f)
  BY DEF Final
<1>5. Writing(f) => Writing(f)'
  BY WritingKept
<1>6. /\ child'[f].feeder = child[f].feeder /\ child'[f].mask = child[f].mask
      /\ child'[f].pcs[f] = child[f].pcs[f]
  BY <1>2
<1> QED BY <1>3, <1>4, <1>5, <1>6, ObedientFrame

\* A turn that only counts, reads nothing, saves or notes a mask changes nothing
\* for a camera (ReadNothing, HandleMask, LoadCounter, SaveTick).
LEMMA ToldLoop ==
  ASSUME TypeOK, NEW f \in Feeders, Obedient(f), NEW c \in Clients,
         ReadNothing(c) \/ HandleMask(c) \/ LoadCounter(c) \/ SaveTick(c)
  PROVE  Obedient(f)'
<1>1. /\ f \in Clients /\ child[c] \in Child
      /\ UNCHANGED <<cs, changed, open, down, local, torn>>
  BY ChildField DEF ReadNothing, HandleMask, LoadCounter, SaveTick, Clients, client, server
<1>2. CASE ReadNothing(c) \/ SaveTick(c)
  <2> DEFINE again == [child[c] EXCEPT !.at = 1]
             saved == [child[c] EXCEPT !.save = FALSE, !.at = 1]
  <2>1. (Become(c, again) \/ Become(c, saved)) /\ UNCHANGED up
    BY <1>2 DEF ReadNothing, SaveTick
  <2>2. /\ again.pcs = child[c].pcs /\ again.feeder = child[c].feeder /\ again.at = 1
        /\ again.mask = child[c].mask /\ again.stage = child[c].stage
        /\ again.cam = child[c].cam
        /\ saved.pcs = child[c].pcs /\ saved.feeder = child[c].feeder /\ saved.at = 1
        /\ saved.mask = child[c].mask /\ saved.stage = child[c].stage
        /\ saved.cam = child[c].cam
    BY <1>1 DEF Child
  <2> HIDE DEF again, saved
  <2>3. child[c].stage = "loop"
    BY <1>2 DEF ReadNothing, SaveTick, AtTop, AtRead
  <2> QED BY <1>1, <2>1, <2>2, <2>3, ToldLocals
<1>3. CASE HandleMask(c)
  <2> DEFINE masked == [child[c] EXCEPT !.mask = TRUE, !.at = 1]
  <2>1. /\ Become(c, masked) /\ up' = [up EXCEPT ![c] = Tail(up[c])]
        /\ up[c] # <<>> /\ Head(up[c]).type = "messagemask" /\ up[c] \in Seq(UpMsg)
        /\ child[c].stage = "loop"
    BY <1>3, ChildField DEF HandleMask, ReadMsg, AtRead
  <2>2. c # f
    BY <2>1, NoMaskLemma DEF Obedient, Plain
  <2>3. up'[f] = up[f]
    BY <1>1, <2>1, <2>2 DEF TypeOK
  <2>4. masked.pcs = child[c].pcs /\ masked.feeder = child[c].feeder /\ masked.at = 1
    BY <1>1 DEF Child
  <2> HIDE DEF masked
  <2> QED BY <1>1, <2>1, <2>2, <2>3, <2>4, ToldLocals
<1>4. CASE LoadCounter(c)
  <2> DEFINE loaded == [child[c] EXCEPT !.stage = "store", !.tmp = changed[child[c].cam]]
  <2>1. Become(c, loaded) /\ UNCHANGED up
    BY <1>4 DEF LoadCounter
  <2>2. /\ loaded.pcs = child[c].pcs /\ loaded.feeder = child[c].feeder
        /\ loaded.at = child[c].at /\ loaded.mask = child[c].mask
        /\ loaded.stage # "loop" /\ loaded.cam = child[c].cam
    BY <1>1 DEF Child
  <2> HIDE DEF loaded
  <2> QED BY <1>1, <2>1, <2>2, ToldLocals
<1> QED BY <1>2, <1>3, <1>4

\* A registering camera is sent the record as it is; its child has scanned the
\* counters before it read the message (HandleRegister).
LEMMA ToldRegister ==
  ASSUME TypeOK, NEW f \in Feeders, Obedient(f), NEW c \in Clients, HandleRegister(c)
  PROVE  Obedient(f)'
<1> DEFINE slot == IF c \in Feeders THEN c ELSE 0
           r == [child[c] EXCEPT !.at = 1, !.feeder = slot]
<1>1. /\ f \in Clients /\ f \in Cams /\ child[c] \in Child
      /\ UNCHANGED <<cs, changed, open, local, torn>>
      /\ open[c] /\ child[c].stage = "loop" /\ child[c].at = MaxCams + 1
      /\ up[c] # <<>> /\ up[c] \in Seq(UpMsg) /\ up' = [up EXCEPT ![c] = Tail(up[c])]
      /\ down' = [down EXCEPT ![c] = down[c] \o RegisterReply(c)] /\ Become(c, r)
  BY ChildField DEF HandleRegister, ReadMsg, AtRead, Clients, client
<1>2. /\ r.feeder = slot /\ r.pcs = child[c].pcs /\ r.mask = child[c].mask
      /\ r.stage = "loop" /\ r.at = 1
  BY <1>1 DEF Child
<1> HIDE DEF r
<1>3. Writing(f) => Writing(f)'
  BY <1>1, WritingKept
<1>4. CASE c # f
  <2>1. child'[f] = child[f] /\ down'[f] = down[f] /\ up'[f] = up[f]
    BY <1>1, <1>4 DEF Become, TypeOK
  <2>2. Final(f)' = Final(f)
    <3>1. local'[f][f] = local[f][f]
      BY <1>1
    <3> QED BY <2>1, <3>1 DEF Final
  <2> QED BY <1>1, <1>3, <2>1, <2>2, ObedientFrame
<1>5. CASE c = f
  <2>1. child'[f] = r /\ up'[f] = Tail(up[f])
    BY <1>1, <1>5 DEF Become, TypeOK
  <2>2. Plain(f)'
    BY <1>1, <1>2, <1>5, <2>1, NoMaskLemma DEF Obedient, Plain
  <2>3. f < MaxCams + 1
    BY <1>1 DEF Cams
  <2>4. NotAhead(f)'
    <3>1. f \notin torn => child[f].pcs[f] <= changed[f]
      BY <1>1, <1>5, <2>3 DEF Obedient, NotAhead
    <3>2. child'[f].pcs[f] = child[f].pcs[f]
      BY <1>2, <1>5, <2>1
    <3> QED BY <1>1, <3>1, <3>2 DEF NotAhead
  <2>5. f \notin Consoles /\ RegisterReply(f) = <<Record(f)>>
    BY <1>1 DEF RegisterReply
  <2>6. Record(f) \in DownMsg /\ Record(f).v = cs[f].v
    BY <1>1, RecordPresent DEF Record
  <2> DEFINE e == Record(f)
  <2> HIDE DEF e
  <2>7. down[f] \in Seq(DownMsg) /\ down'[f] = down[f] \o <<e>>
    BY <1>1, <1>5, <2>5, ChildField DEF TypeOK, e
  <2>8. down'[f] # <<>> /\ down'[f][Len(down'[f])] = e
    BY <2>6, <2>7, ConcatProperties, EmptySeq DEF e
  <2>9. Final(f)' = cs[f].v
    BY <2>6, <2>8 DEF Final, e
  <2>10. Told(f)'
    BY <1>1, <2>9 DEF Told
  <2> QED BY <2>2, <2>4, <2>10 DEF Obedient
<1> QED BY <1>4, <1>5

\* A record that is written puts its writer between the copy and the counter
\* (HandleSettings).
LEMMA ToldWrite ==
  ASSUME TypeOK, NEW f \in Feeders, Obedient(f), NEW c \in Clients, HandleSettings(c)
  PROVE  Obedient(f)'
<1> DEFINE m == Head(up[c])
           r == [child[c] EXCEPT !.stage = "load", !.cam = m.cam, !.save = TRUE,
                                 !.dontsend = @ \/ m.quiet]
<1>1. /\ f \in Clients /\ f \in Cams /\ child[c] \in Child
      /\ UNCHANGED <<changed, open, down, local, torn>> /\ Become(c, r)
      /\ child[c].stage = "loop" /\ m.type = "camerasettings"
      /\ up[c] # <<>> /\ up[c] \in Seq(UpMsg) /\ up' = [up EXCEPT ![c] = Tail(up[c])]
      /\ cs' = [cs EXCEPT ![m.cam] = [v |-> m.v, w |-> cs[m.cam].w + 1]]
  BY ChildField DEF HandleSettings, CopyRecord, ReadMsg, AtRead, Clients, client
<1>2. m.cam \in Cams
  BY <1>1, HeadTailProperties DEF UpMsg, MaskMsg, RegisterMsg
<1>3. /\ r.feeder = child[c].feeder /\ r.pcs = child[c].pcs /\ r.mask = child[c].mask
      /\ r.stage = "load" /\ r.at = child[c].at /\ r.cam = m.cam
  BY <1>1 DEF Child
<1> HIDE DEF r
<1>4. NoMask(up[f]) => NoMask(up'[f])
  BY <1>1, NoMaskLemma DEF TypeOK
<1>5. CASE m.cam # f
  <2>1. cs'[f] = cs[f]
    BY <1>1, <1>2, <1>5 DEF TypeOK
  <2> QED BY <1>1, <1>3, <1>4, <2>1, ToldLocals
<1>6. CASE m.cam = f
  <2>1. child'[c] = r
    BY <1>1 DEF Become, TypeOK
  <2>2. Writing(f)'
    BY <1>3, <1>6, <2>1 DEF Writing
  <2>3. child'[f].feeder = child[f].feeder /\ child'[f].pcs = child[f].pcs
        /\ child'[f].mask = child[f].mask /\ child'[f].at = child[f].at
    BY <1>1, <1>3 DEF Become, TypeOK
  <2>4. Plain(f)' /\ NotAhead(f)'
    BY <1>1, <1>4, <2>3 DEF Obedient, Plain, NotAhead
  <2> QED BY <2>2, <2>4 DEF Obedient, Told
<1> QED BY <1>5, <1>6

\* An increment that goes over no other puts the counter past what the camera's
\* child has seen of it (StoreCounter).
LEMMA ToldStore ==
  ASSUME TypeOK, Low, NEW f \in Feeders, Obedient(f), NEW c \in Clients, StoreCounter(c)
  PROVE  Obedient(f)'
<1> DEFINE r == [child[c] EXCEPT !.stage = "loop", !.at = 1, !.cam = 1, !.tmp = 0]
           k == child[c].cam
<1>1. /\ f \in Clients /\ f \in Cams /\ child[c] \in Child /\ child[f] \in Child
      /\ UNCHANGED <<cs, open, up, down, local>> /\ Become(c, r)
      /\ changed' = [changed EXCEPT ![k] = (child[c].tmp + 1) % Wrap]
      /\ torn' = IF changed[k] # child[c].tmp THEN torn \cup {k} ELSE torn
  BY ChildField DEF StoreCounter, StoreWith, Clients, client
<1>2. /\ r.feeder = child[c].feeder /\ r.pcs = child[c].pcs /\ r.mask = child[c].mask
      /\ r.stage = "loop" /\ r.at = 1
  BY <1>1 DEF Child
<1> HIDE DEF r
<1>3. CASE k # f
  <2>1. changed'[f] = changed[f]
    BY <1>1, <1>3 DEF TypeOK
  <2> QED BY <1>1, <1>2, <1>3, <2>1, ToldLocals
<1>4. CASE k = f
  <2>1. /\ child'[f].feeder = child[f].feeder /\ child'[f].pcs = child[f].pcs
        /\ child'[f].mask = child[f].mask /\ child'[f].at \in {1, child[f].at}
    BY <1>1, <1>2 DEF Become, TypeOK
  <2>2. Plain(f)'
    BY <1>1, <2>1 DEF Obedient, Plain
  <2>3. child[f].pcs[f] \in Nat /\ changed[f] \in Nat /\ changed[f] < Wrap - 1
    BY <1>1 DEF Child, TypeOK, Low
  <2>4. child[f].at \in Nat /\ f \in Nat \ {0}
    <3>1. child[f].at \in 1..(MaxCams + 1)
      BY <1>1 DEF Child
    <3>2. f \in 1..MaxCams
      BY <1>1 DEF Cams
    <3> QED BY <3>1, <3>2
  <2>5. ASSUME f \notin torn' PROVE f \notin torn /\ changed'[f] = changed[f] + 1
    <3>1. f \notin torn /\ changed[f] = child[c].tmp
      BY <1>1, <1>4, <2>5
    <3>2. (changed[f] + 1) % Wrap = changed[f] + 1
      BY <2>3
    <3> QED BY <1>1, <1>4, <3>1, <3>2 DEF TypeOK
  <2>6. NotAhead(f)'
    <3> SUFFICES ASSUME open'[f], f \notin torn',
                        child'[f].feeder = f \/ child'[f].at > f
                 PROVE  child'[f].pcs[f] <= changed'[f]
      BY DEF NotAhead
    <3>1. child[f].feeder = f \/ child[f].at > f
      BY <2>1, <2>4
    <3>2. child[f].pcs[f] <= changed[f]
      BY <1>1, <2>5, <3>1 DEF Obedient, NotAhead
    <3> QED BY <2>1, <2>3, <2>5, <3>2
  <2>7. Told(f)'
    BY <1>1, <2>1, <2>3, <2>5 DEF Obedient, NotAhead, Told, Registered, Moved
  <2> QED BY <2>2, <2>6, <2>7 DEF Obedient
<1> QED BY <1>3, <1>4

\* Connections come and go without a registered camera missing anything (Connect,
\* Disconnect, Restart).
LEMMA ToldConnection ==
  ASSUME TypeOK, Quiet, NEW f \in Feeders, Obedient(f), NEW c \in Clients,
         Connect(c) \/ Disconnect(c) \/ Restart(c)
  PROVE  Obedient(f)'
<1>1. f \in Clients /\ f \in Cams /\ f \notin Consoles /\ UNCHANGED <<cs, changed, torn>>
  BY DEF Connect, Disconnect, Restart, Clients, server
<1>2. CASE Connect(c) \/ Disconnect(c)
  <2>1. PICK r \in {Fresh, Idle} : Become(c, r)
    BY <1>2 DEF Connect, Disconnect
  <2>2. r.stage = "loop" /\ r.at = 1 /\ r.feeder = 0 /\ ~r.mask
    <3>1. Fresh.stage = "loop" /\ Fresh.at = 1 /\ Fresh.feeder = 0 /\ ~Fresh.mask
      BY DEF Fresh
    <3>2. Idle.stage = "loop" /\ Idle.at = 1 /\ Idle.feeder = 0 /\ ~Idle.mask
      BY DEF Idle, Fresh
    <3> QED BY <2>1, <3>1, <3>2
  <2>3. child[c].stage = "loop" /\ local' = local
    BY <1>2 DEF Connect, Disconnect, Quiet, client
  <2>4. CASE c # f
    <3>1. /\ child'[f] = child[f] /\ open'[f] = open[f] /\ down'[f] = down[f]
          /\ up'[f] = up[f]
      BY <1>1, <1>2, <2>4 DEF Connect, Disconnect, Become, TypeOK
    <3>2. Writing(f) => Writing(f)'
      BY <2>1, <2>3, WritingKept
    <3>3. Final(f)' = Final(f)
      BY <2>3, <3>1 DEF Final
    <3> QED BY <1>1, <3>1, <3>2, <3>3, ObedientFrame
  <2>5. CASE c = f
    <3>1. child'[f] = r
      BY <1>1, <2>1, <2>5 DEF Become, TypeOK
    <3>2. f \in Nat \ {0}
      BY <1>1 DEF Cams
    <3>3. NotAhead(f)' /\ Told(f)'
      BY <2>2, <3>1, <3>2 DEF NotAhead, Told, Registered
    <3>4. up'[f] = <<RegisterMsg>> \/ up'[f] = <<>>
      BY <1>1, <1>2, <2>5 DEF Connect, Disconnect, TypeOK
    <3>5. NoMask(<<RegisterMsg>>) /\ NoMask(<<>>)
      BY DEF NoMask, RegisterMsg
    <3>6. Plain(f)'
      BY <2>2, <3>1, <3>4, <3>5 DEF Plain
    <3> QED BY <3>3, <3>6 DEF Obedient
  <2> QED BY <2>4, <2>5
<1>3. CASE Restart(c)
  <2>1. /\ ~open[c] /\ UNCHANGED <<child, open, up, down>>
        /\ local' = [local EXCEPT ![c] = [n \in Cams |-> 0]]
    BY <1>3 DEF Restart
  <2>2. Writing(f)' = Writing(f)
    BY <2>1 DEF Writing
  <2>3. CASE c # f
    <3>1. local'[f] = local[f]
      BY <1>1, <2>1, <2>3 DEF TypeOK
    <3>2. Final(f)' = Final(f)
      BY <2>1, <3>1 DEF Final
    <3> QED BY <1>1, <2>1, <2>2, <3>2, ObedientFrame
  <2>4. CASE c = f
    BY <1>1, <2>1, <2>4 DEF Obedient, Plain, NotAhead, Told, Registered
  <2> QED BY <2>3, <2>4
<1> QED BY <1>2, <1>3

\* What a console does reaches a camera through its child only (ConsoleRecv,
\* TimerSend, Edit, SelectCam).
LEMMA ToldConsole ==
  ASSUME TypeOK, NEW f \in Feeders, Obedient(f), NEW k \in Consoles,
         ConsoleStep(k) \/ Edit(k) \/ \E n \in Cams : SelectCam(k, n)
  PROVE  Obedient(f)'
<1>1. k # f /\ f \in Clients /\ k \in Clients
  BY DEF Clients
<1>2. UNCHANGED <<cs, changed, torn, child, open>>
  BY DEF ConsoleStep, ConsoleRecv, TimerSend, Edit, SelectCam, server
<1>3. local'[f] = local[f]
  BY <1>1 DEF ConsoleStep, ConsoleRecv, TimerSend, Edit, SelectCam, TypeOK
<1>4. down'[f] = down[f]
  BY <1>1 DEF ConsoleStep, ConsoleRecv, TimerSend, Edit, SelectCam, TypeOK
<1>5. up'[f] = up[f]
  BY <1>1 DEF ConsoleStep, ConsoleRecv, TimerSend, Edit, SelectCam, TypeOK
<1>6. Final(f)' = Final(f)
  BY <1>3, <1>4 DEF Final
<1>7. Writing(f)' = Writing(f)
  BY <1>2 DEF Writing
<1> QED BY <1>2, <1>5, <1>6, <1>7, ObedientFrame

\* A camera that takes a record comes to hold the last one on its way all the same;
\* what it sends back is a record and no mask (CamRecv, CamReinit).
LEMMA ToldCamera ==
  ASSUME TypeOK, NEW f \in Feeders, Obedient(f), NEW g \in Feeders, CamStep(g)
  PROVE  Obedient(f)'
<1>1. /\ f \in Clients /\ g \in Clients /\ f \in Cams /\ g \in Cams
      /\ UNCHANGED <<cs, changed, torn, child, open>>
      /\ up[f] \in Seq(UpMsg) /\ up[g] \in Seq(UpMsg) /\ down[g] \in Seq(DownMsg)
  BY ChildField DEF CamStep, CamRecv, CamReinit, server, Clients
<1>2. Writing(f)' = Writing(f)
  BY <1>1 DEF Writing
<1>3. CASE CamRecv(g)
  <2> DEFINE m == Head(down[g])
  <2>1. /\ down[g] # <<>> /\ down' = [down EXCEPT ![g] = Tail(down[g])]
        /\ local' = [local EXCEPT ![g] = [local[g] EXCEPT ![g] = m.v]]
        /\ up' = up \/ up' = [up EXCEPT ![g] = Append(up[g], SettingsMsg(g, m.v, FALSE))]
    BY <1>1, <1>3 DEF CamRecv, TypeOK
  <2>2. m \in DownMsg
    BY <1>1, <2>1, HeadTailProperties
  <2> HIDE DEF m
  <2>a. m.v \in Nat
    BY <2>2 DEF DownMsg
  <2>3. NoMask(up[f]) => NoMask(up'[f])
    <3>1. CASE g = f
      <4>1. up'[f] = up[f] \/ up'[f] = Append(up[f], SettingsMsg(f, m.v, FALSE))
        BY <1>1, <2>1, <3>1 DEF TypeOK
      <4>2. NoMask(up[f]) => NoMask(Append(up[f], SettingsMsg(f, m.v, FALSE)))
        BY <1>1, <2>a, NoMaskLemma
      <4> QED BY <4>1, <4>2
    <3>2. CASE g # f
      BY <1>1, <2>1, <3>2 DEF TypeOK
    <3> QED BY <3>1, <3>2
  <2>4. Final(f)' = Final(f)
    <3>1. CASE g = f
      <4> DEFINE d == down[f]
                 t == Tail(d)
      <4>1. /\ t \in Seq(DownMsg) /\ Len(t) = Len(d) - 1 /\ Len(d) \in Nat \ {0}
            /\ \A i \in 1..Len(t) : t[i] = d[i + 1]
            /\ Head(d) = d[1]
        BY <1>1, <2>1, <3>1, HeadTailProperties, EmptySeq
      <4>2. down'[f] = t /\ local'[f][f] = d[1].v
        BY <1>1, <2>1, <3>1, <4>1 DEF TypeOK, m
      <4>3. Final(f) = d[Len(d)].v
        BY <2>1, <3>1 DEF Final
      <4> HIDE DEF d, t
      <4>4. CASE t = <<>>
        <5>1. Len(d) = 1
          BY <4>1, <4>4, EmptySeq
        <5> QED BY <4>2, <4>3, <4>4, <5>1 DEF Final
      <4>5. CASE t # <<>>
        <5>1. Len(t) \in 1..Len(t) /\ Len(t) + 1 = Len(d)
          BY <4>1, <4>5, EmptySeq
        <5>2. t[Len(t)] = d[Len(d)]
          BY <4>1, <5>1
        <5> QED BY <4>2, <4>3, <4>5, <5>2 DEF Final
      <4> QED BY <4>4, <4>5
    <3>2. CASE g # f
      <4>1. down'[f] = down[f] /\ local'[f] = local[f]
        BY <1>1, <2>1, <3>2 DEF TypeOK
      <4> QED BY <4>1 DEF Final
    <3> QED BY <3>1, <3>2
  <2> QED BY <1>1, <1>2, <2>3, <2>4, ObedientFrame
<1>4. CASE CamReinit(g)
  <2>1. /\ UNCHANGED <<down, local>>
        /\ \/ up' = up
           \/ up' = [up EXCEPT ![g] = Append(up[g], SettingsMsg(g, local[g][g], FALSE))]
    BY <1>4 DEF CamReinit
  <2>2. local[g][g] \in Nat
    BY <1>1 DEF TypeOK
  <2>3. NoMask(up[f]) => NoMask(up'[f])
    <3>1. CASE g = f
      <4> DEFINE v == local[g][g]
      <4>1. up'[f] = up[f] \/ up'[f] = Append(up[f], SettingsMsg(f, v, FALSE))
        BY <1>1, <2>1, <3>1 DEF TypeOK
      <4> HIDE DEF v
      <4>2. NoMask(up[f]) => NoMask(Append(up[f], SettingsMsg(f, v, FALSE)))
        BY <1>1, <2>2, NoMaskLemma DEF v
      <4> QED BY <4>1, <4>2
    <3>2. CASE g # f
      BY <1>1, <2>1, <3>2 DEF TypeOK
    <3> QED BY <3>1, <3>2
  <2>4. Final(f)' = Final(f)
    BY <2>1 DEF Final
  <2> QED BY <1>1, <1>2, <2>3, <2>4, ObedientFrame
<1> QED BY <1>3, <1>4 DEF CamStep

\* The invariant is inductive as long as no counter goes round.
LEMMA ToldNext == TypeOK /\ Low /\ ToldInv /\ [Next]_vars => ToldInv'
<1> SUFFICES ASSUME TypeOK, Low, ToldInv, [Next]_vars PROVE ToldInv'
  OBVIOUS
<1>1. Quiet /\ Quiet'
  BY QuietKept DEF ToldInv
<1>2. ASSUME NEW f \in Feeders PROVE Obedient(f)'
  <2>0. Obedient(f)
    BY DEF ToldInv
  <2>1. ASSUME NEW c \in Clients, ChildStep(c) \/ SaveTick(c) PROVE Obedient(f)'
    BY <2>0, <2>1, ToldScan, ToldLoop, ToldRegister, ToldWrite, ToldStore DEF ChildStep
  <2>2. ASSUME NEW c \in Clients, Connect(c) \/ Disconnect(c) \/ Restart(c)
        PROVE  Obedient(f)'
    BY <1>1, <2>0, <2>2, ToldConnection
  <2>3. ASSUME NEW k \in Consoles,
               ConsoleStep(k) \/ Edit(k) \/ \E n \in Cams : SelectCam(k, n)
        PROVE  Obedient(f)'
    BY <2>0, <2>3, ToldConsole
  <2>4. ASSUME NEW g \in Feeders, CamStep(g) PROVE Obedient(f)'
    BY <2>0, <2>4, ToldCamera
  <2>5. CASE UNCHANGED vars
    <3>1. UNCHANGED <<open, child, changed, cs, torn, up, down, local>>
      BY <2>5 DEF vars, server, client
    <3>2. Final(f)' = Final(f) /\ Writing(f)' = Writing(f)
      BY <3>1 DEF Final, Writing
    <3> QED BY <2>0, <3>1, <3>2, ObedientFrame
  <2> QED
    <3>1. CASE Next
      BY <3>1, <2>1, <2>2, <2>3, <2>4 DEF Next
    <3> QED BY <3>1, <2>5
<1> QED BY <1>1, <1>2 DEF ToldInv

\* What is on its way to a camera at rest has arrived (AtRest).
LEMMA ToldCurrent == ToldInv => CameraCurrent
<1> SUFFICES ASSUME ToldInv, NEW f \in Feeders \ torn, open[f], child[f].feeder = f, AtRest(f)
             PROVE  local[f][f] = cs[f].v
  BY DEF CameraCurrent, Obeys
<1>1. Told(f) /\ Registered(f)
  BY DEF ToldInv, Obedient, Registered
<1>2. ~Writing(f) /\ ~Moved(f, f) /\ down[f] = <<>>
  BY DEF AtRest, Writing
<1>3. Final(f) = cs[f].v
  BY <1>1, <1>2 DEF Told
<1> QED BY <1>2, <1>3 DEF Final

\* A registered camera at rest obeys the server's record, for any number of
\* consoles and cameras and any interleaving of their edits, echoes and scans, until
\* a counter has counted to 65535: the loop of jc_server, its registration and the
\* echoes of the camera need no lock for it, only increments that are not torn.
THEOREM CamerasObey == Spec /\ []Low => []CameraCurrent
BY ToldInit, ToldNext, ToldCurrent, TypeCorrect, PTL DEF Spec

=============================================================================
