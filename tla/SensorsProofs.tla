--------------------------- MODULE SensorsProofs ---------------------------
(***************************************************************************)
(* Proofs about Sensors, for any number of sensors, any finite set of writers *)
(* and any clients: its types, and that a client at rest has the sensors as    *)
(* they are unless the counter misled its child.                            *)
(***************************************************************************)
EXTENDS Sensors, FiniteSetTheorems, TLAPS

-----------------------------------------------------------------------------
(* Types.                                                                   *)

\* The counter stays within its field (sensor_active_changed).
LEMMA Wraps ==
  ASSUME NEW n \in Nat, NEW m \in Nat \ {0}
  PROVE  n % m \in 0..(m - 1)
OBVIOUS

\* What a child has copied when it sends is an array (jc_msg_sens_active).
LEMMA CopiedAll ==
  ASSUME NEW q \in Seq(BOOLEAN), Len(q) = Last
  PROVE  q \in [Sens -> BOOLEAN]
BY DEF Sens

\* A step of a process that marks keeps the types (jc_sensor_mark_active).
LEMMA WriterType ==
  ASSUME SensorsAssumption, TypeOK, NEW w \in Writers,
         Writer(w) \/ \E s \in Sens, on \in BOOLEAN : Mark(w, s, on)
  PROVE  TypeOK'
<1> USE DEF TypeOK
<1>1. Nothing \in [sensor : Sens, on : BOOLEAN] /\ 0 \in 0..(Width - 1)
  BY DEF Nothing, Sens, SensorsAssumption
<1>2. ASSUME NEW s \in Sens, NEW on \in BOOLEAN, Mark(w, s, on) PROVE TypeOK'
  <2>1. changes' \in 0..MaxChanges
    BY <1>2 DEF Mark, SensorsAssumption
  <2>2. mark' \in [Writers -> [sensor : Sens, on : BOOLEAN]]
    BY <1>2 DEF Mark
  <2> QED BY <1>2, <2>1, <2>2 DEF Mark, children
<1>3. CASE Set(w)
  <2>1. sensor_active' \in [Sens -> BOOLEAN]
    BY <1>3 DEF Set
  <2>2. mark' \in [Writers -> [sensor : Sens, on : BOOLEAN]]
    BY <1>1, <1>3 DEF Set
  <2> QED BY <1>3, <2>1, <2>2 DEF Set, children, bounds
<1>4. CASE Load(w)
  BY <1>4 DEF Load, children, bounds
<1>5. CASE Store(w)
  <2>1. changed' \in 0..(Width - 1)
    <3>1. counter[w] + 1 \in Nat /\ Width \in Nat \ {0}
      BY DEF SensorsAssumption
    <3>2. (counter[w] + 1) % Width \in 0..(Width - 1)
      BY <3>1, Wraps
    <3> QED BY <1>5, <3>2 DEF Store
  <2>2. counter' \in [Writers -> 0..(Width - 1)]
    BY <1>1, <1>5 DEF Store
  <2>3. raced' \in BOOLEAN /\ hidden' \subseteq Clients
    BY <1>5 DEF Store
  <2>4. pc' \in [Writers -> {"idle", "set", "load", "store"}]
    BY <1>5 DEF Store
  <2>5. UNCHANGED <<sensor_active, mark, children, bounds>>
    BY <1>5 DEF Store
  <2> QED BY <2>1, <2>2, <2>3, <2>4, <2>5 DEF children, bounds
<1> QED BY <1>2, <1>3, <1>4, <1>5 DEF Writer

\* A step of a child or of its client keeps the types (poll_sensor_change).
LEMMA ChildType ==
  ASSUME SensorsAssumption, TypeOK, NEW c \in Clients,
         Child(c) \/ Receive(c) \/ Connect(c) \/ Disconnect(c)
  PROVE  TypeOK'
<1> USE DEF TypeOK
<1>1. AllOff \in [Sens -> BOOLEAN] /\ 0 \in 0..(Width - 1)
  BY DEF AllOff, SensorsAssumption
<1>2. CASE Poll(c)
  BY <1>2 DEF Poll, writers, bounds
<1>3. CASE CopyOne(c)
  <2>1. Len(copied[c]) + 1 \in Sens
    BY <1>3 DEF CopyOne, Sens, SensorsAssumption
  <2>2. copied' = [copied EXCEPT ![c] = Append(copied[c], sensor_active[Len(copied[c]) + 1])]
    BY <1>3 DEF CopyOne
  <2>3. copied' \in [Clients -> Seq(BOOLEAN)] /\ \A d \in Clients : Len(copied'[d]) <= Last
    BY <1>3, <2>1, <2>2 DEF CopyOne, SensorsAssumption
  <2> QED BY <1>3, <2>3 DEF CopyOne, writers, bounds
<1>4. CASE Send(c)
  <2>1. copied[c] \in [Sens -> BOOLEAN]
    BY <1>4, CopiedAll DEF Send
  <2>2. channel' \in [Clients -> Seq([Sens -> BOOLEAN])]
    BY <1>4, <2>1 DEF Send
  <2>3. copied' \in [Clients -> Seq(BOOLEAN)] /\ \A d \in Clients : Len(copied'[d]) <= Last
    BY <1>4 DEF Send, SensorsAssumption
  <2> QED BY <1>4, <2>2, <2>3 DEF Send, writers, bounds
<1>5. CASE Receive(c)
  <2>1. Head(channel[c]) \in [Sens -> BOOLEAN] /\ Tail(channel[c]) \in Seq([Sens -> BOOLEAN])
    BY <1>5 DEF Receive
  <2> QED BY <1>5, <2>1 DEF Receive, writers, bounds
<1>6. CASE Connect(c)
  <2>1. connects' \in 0..MaxConnects /\ hidden' \subseteq Clients
    BY <1>6 DEF Connect, SensorsAssumption
  <2> QED BY <1>6, <2>1 DEF Connect, writers
<1>7. CASE Disconnect(c)
  <2>1. copied' \in [Clients -> Seq(BOOLEAN)] /\ \A d \in Clients : Len(copied'[d]) <= Last
    BY <1>7 DEF Disconnect, SensorsAssumption
  <2>2. channel' \in [Clients -> Seq([Sens -> BOOLEAN])] /\ sen' \in [Clients -> [Sens -> BOOLEAN]]
    BY <1>1, <1>7 DEF Disconnect
  <2>3. sl' \in [Clients -> 0..(Width - 1)] /\ at' \in [Clients -> {"none", "loop", "copy"}]
    BY <1>1, <1>7 DEF Disconnect
  <2> QED BY <1>7, <2>1, <2>2, <2>3 DEF Disconnect, writers, bounds
<1> QED BY <1>2, <1>3, <1>4, <1>5, <1>6, <1>7 DEF Child

\* The sensors start inactive and nobody is connected (Init).
LEMMA InitType == ASSUME SensorsAssumption, Init PROVE TypeOK
<1>1. AllOff \in [Sens -> BOOLEAN] /\ 0 \in 0..(Width - 1)
  BY DEF AllOff, SensorsAssumption
<1>2. Nothing \in [sensor : Sens, on : BOOLEAN]
  BY DEF Nothing, Sens, SensorsAssumption
<1>3. changes \in 0..MaxChanges /\ connects \in 0..MaxConnects
  BY DEF Init, SensorsAssumption
<1>4. copied \in [Clients -> Seq(BOOLEAN)] /\ \A c \in Clients : Len(copied[c]) <= Last
  BY DEF Init, SensorsAssumption
<1>5. channel \in [Clients -> Seq([Sens -> BOOLEAN])] /\ sen \in [Clients -> [Sens -> BOOLEAN]]
  BY <1>1 DEF Init
<1>6. raced \in BOOLEAN /\ hidden \subseteq Clients
  BY DEF Init
<1> QED BY <1>1, <1>2, <1>3, <1>4, <1>5, <1>6 DEF Init, TypeOK

\* Every step keeps the types (Next).
LEMMA NextType ==
  ASSUME SensorsAssumption
  PROVE  TypeOK /\ [Next]_vars => TypeOK'
<1>1. TypeOK /\ Next => TypeOK'
  BY WriterType, ChildType DEF Next
<1>2. TypeOK /\ UNCHANGED vars => TypeOK'
  BY DEF TypeOK, vars, writers, children, bounds
<1> QED BY <1>1, <1>2

\* Every variable of the sensors keeps its type (struct jcamsys_sensors).
THEOREM TypeCorrect ==
  ASSUME SensorsAssumption
  PROVE  Spec => []TypeOK
BY InitType, NextType, PTL DEF Spec

-----------------------------------------------------------------------------
(* A client at rest has the sensors as they are.                             *)

\* Writers between the test of a sensor and the store of the counter.
Busy == {w \in Writers : pc[w] # "idle"}

\* A writer that has set a sensor and not yet stored the counter.
Between == \E w \in Writers : pc[w] \in {"load", "store"}

\* The counter has misled nobody so far: no writer stored over another, and it
\* has not gone all the way round.
Honest == ~raced /\ changes < Width

\* As long as that lasts it counts the marks that are done.
Counted ==
  Honest => /\ changed + Cardinality(Busy) = changes
            /\ \A c \in Clients : sl[c] <= changed

\* A sensor that is active was counted or is about to be.
Begun == Honest /\ changed = 0 /\ sensor_active # AllOff => Between

\* A child that a honest counter hides a change from connected before that change
\* was counted, and will find out.
Brief == Honest => \A c \in hidden : sl[c] = 0 /\ (changed > 0 \/ Between)

\* What the client will have once all that was sent has arrived.
Latest(c) == IF channel[c] = <<>> THEN sen[c] ELSE channel[c][Len(channel[c])]

\* What is copied of an array so far.
PrefixOf(q, f) == \A i \in 1..Len(q) : q[i] = f[i]

\* A child that saw the counter as it is, with no change uncounted, has sent the
\* sensors as they are or is copying them.
Fresh ==
  \A c \in Clients :
    (sl[c] = changed /\ ~Between /\ c \notin hidden) =>
      /\ at[c] = "loop" => Latest(c) = sensor_active
      /\ at[c] = "copy" => PrefixOf(copied[c], sensor_active)

\* Nobody has copied or sent anything without cause.
Blank ==
  \A c \in Clients :
    /\ at[c] # "copy" => copied[c] = <<>>
    /\ at[c] = "none" => sl[c] = 0 /\ channel[c] = <<>> /\ sen[c] = AllOff /\ c \notin hidden

Sound == Counted /\ Begun /\ Brief /\ Fresh /\ Blank

\* The invariant holds at the start (Init).
LEMMA InitSound == ASSUME SensorsAssumption, Init PROVE Sound
<1>1. Busy = {} /\ Cardinality(Busy) = 0
  BY FS_EmptySet DEF Init, Busy
<1>2. \A c \in Clients : sl[c] = 0 /\ at[c] = "none" /\ copied[c] = <<>> /\ channel[c] = <<>>
                         /\ sen[c] = AllOff
  BY DEF Init
<1>3. Counted
  BY <1>1, <1>2 DEF Init, Counted
<1> QED BY <1>2, <1>3 DEF Init, Sound, Begun, Brief, Fresh, Blank

\* Busy writers are finitely many.
LEMMA BusyFinite ==
  ASSUME SensorsAssumption
  PROVE  IsFiniteSet(Busy) /\ Cardinality(Busy) \in Nat
<1>1. Busy \subseteq Writers
  BY DEF Busy
<1>2. IsFiniteSet(Busy)
  BY <1>1, FS_Subset DEF SensorsAssumption
<1> QED BY <1>2, FS_CardinalityType

\* To find a sensor unlike the mark is to be busy (jc_sensor_mark_active).
LEMMA MarkSound ==
  ASSUME SensorsAssumption, TypeOK, Sound, NEW w \in Writers,
         NEW s \in Sens, NEW on \in BOOLEAN, Mark(w, s, on)
  PROVE  Sound'
<1>1. /\ pc[w] = "idle" /\ pc' = [pc EXCEPT ![w] = "set"] /\ changes' = changes + 1
      /\ UNCHANGED <<sensor_active, changed, raced, hidden>>
  BY DEF Mark
<1>2. UNCHANGED <<at, sl, copied, channel, sen>>
  BY DEF Mark, children
<1>3. Busy' = Busy \cup {w} /\ w \notin Busy
  BY <1>1 DEF Busy, TypeOK
<1>4. Cardinality(Busy') = Cardinality(Busy) + 1
  BY <1>3, BusyFinite, FS_AddElement
<1>5. Between' = Between
  BY <1>1 DEF Between, TypeOK
<1>6. Honest' => Honest
  BY <1>1 DEF Honest, TypeOK, SensorsAssumption
<1>7. Counted'
  <2> SUFFICES ASSUME Honest'
               PROVE  /\ changed' + Cardinality(Busy') = changes'
                      /\ \A c \in Clients : sl'[c] <= changed'
    BY DEF Counted
  <2>1. changed + Cardinality(Busy) = changes /\ \A c \in Clients : sl[c] <= changed
    BY <1>6 DEF Sound, Counted
  <2>2. changed \in Nat /\ changes \in Nat
    BY DEF TypeOK
  <2> QED BY <1>1, <1>2, <1>4, <2>1, <2>2, BusyFinite
<1>8. Begun' /\ Brief'
  BY <1>1, <1>2, <1>5, <1>6 DEF Sound, Begun, Brief
<1>9. Fresh' /\ Blank'
  BY <1>1, <1>2, <1>5 DEF Sound, Fresh, Blank, Latest, PrefixOf
<1> QED BY <1>7, <1>8, <1>9 DEF Sound

\* To set a sensor, and to load the counter, leave the writer busy.
LEMMA SetLoadSound ==
  ASSUME SensorsAssumption, TypeOK, Sound, NEW w \in Writers, Set(w) \/ Load(w)
  PROVE  Sound'
<1>1. /\ UNCHANGED <<changed, raced, hidden, changes, at, sl, copied, channel, sen>>
      /\ pc[w] # "idle" /\ \E l \in {"load", "store"} : pc' = [pc EXCEPT ![w] = l]
  BY DEF Set, Load, children, bounds
<1>2. Busy' = Busy
  BY <1>1 DEF Busy, TypeOK
<1>3. Between'
  BY <1>1 DEF Between, TypeOK
<1>4. Counted'
  BY <1>1, <1>2 DEF Sound, Counted, Honest
<1>5. Begun' /\ Brief'
  BY <1>1, <1>3 DEF Sound, Begun, Brief, Honest
<1>6. Fresh'
  BY <1>3 DEF Fresh
<1>7. Blank'
  BY <1>1 DEF Sound, Blank
<1> QED BY <1>4, <1>5, <1>6, <1>7 DEF Sound

\* A counter stored is one no child saw, or those that did are known.
LEMMA StoreSound ==
  ASSUME SensorsAssumption, TypeOK, Sound, NEW w \in Writers, Store(w)
  PROVE  Sound'
<1>1. /\ pc[w] = "store" /\ pc' = [pc EXCEPT ![w] = "idle"]
      /\ changed' = (counter[w] + 1) % Width
      /\ hidden' = hidden \cup {c \in Clients : at[c] # "none" /\ sl[c] = changed'}
      /\ raced' = (raced \/ counter[w] # changed)
  BY DEF Store
<1>2. UNCHANGED <<sensor_active, at, sl, copied, channel, sen, changes>>
  BY DEF Store, children, bounds
<1>3. Busy' = Busy \ {w} /\ w \in Busy
  BY <1>1 DEF Busy, TypeOK
<1>4. Cardinality(Busy') = Cardinality(Busy) - 1
  BY <1>3, BusyFinite, FS_RemoveElement
<1>5. Cardinality(Busy) >= 1
  <2>1. Busy' \subseteq Busy
    BY <1>3
  <2>2. IsFiniteSet(Busy') /\ Cardinality(Busy') \in Nat
    BY <2>1, BusyFinite, FS_Subset, FS_CardinalityType
  <2> QED BY <2>2, <1>4, BusyFinite
<1>6. ASSUME Honest'
      PROVE  Honest /\ changed' = changed + 1 /\ changed' + Cardinality(Busy') = changes'
  <2>1. Honest /\ counter[w] = changed
    BY <1>1, <1>2, <1>6 DEF Honest
  <2>2. changed + Cardinality(Busy) = changes /\ changes < Width
    BY <2>1 DEF Sound, Counted, Honest
  <2>3. changed + 1 \in 0..(Width - 1)
    BY <1>5, <2>2, BusyFinite DEF TypeOK, SensorsAssumption
  <2>4. (changed + 1) % Width = changed + 1
    BY <2>3 DEF SensorsAssumption
  <2> QED BY <1>1, <1>2, <1>4, <2>1, <2>2, <2>4, BusyFinite DEF TypeOK
<1>7. Counted'
  BY <1>2, <1>6 DEF Sound, Counted, TypeOK
<1>8. Begun'
  BY <1>6 DEF Begun, TypeOK
<1>9. Brief'
  BY <1>1, <1>2, <1>6 DEF Sound, Brief, Counted, TypeOK
<1>10. Fresh'
  BY <1>1, <1>2 DEF Fresh, Sound, Blank
<1>11. Blank'
  BY <1>1, <1>2 DEF Sound, Blank
<1> QED BY <1>7, <1>8, <1>9, <1>10, <1>11 DEF Sound

\* The last of a sequence stays the last when it is read from the front.
LEMMA LastOfTail ==
  ASSUME NEW S, NEW q \in Seq(S), q # <<>>, Tail(q) # <<>>
  PROVE  Tail(q)[Len(Tail(q))] = q[Len(q)]
OBVIOUS

\* What has nothing behind its front is its last.
LEMMA OneLeft ==
  ASSUME NEW S, NEW q \in Seq(S), q # <<>>, Tail(q) = <<>>
  PROVE  Head(q) = q[Len(q)]
<1>1. Len(Tail(q)) = Len(q) - 1
  OBVIOUS
<1>2. Len(<<>>) = 0
  OBVIOUS
<1>3. Len(q) = 1
  <2>1. Len(q) - 1 = 0
    BY <1>1, <1>2, Zenon
  <2> QED BY <2>1
<1> QED BY <1>3

\* A child that polls takes the counter and starts on the array (poll_sensor_change).
LEMMA PollSound ==
  ASSUME SensorsAssumption, TypeOK, Sound, NEW c \in Clients, Poll(c)
  PROVE  Sound'
<1>1. /\ at' = [at EXCEPT ![c] = "copy"] /\ sl' = [sl EXCEPT ![c] = changed]
      /\ hidden' = hidden \ {c} /\ at[c] = "loop"
      /\ UNCHANGED <<sensor_active, changed, raced, changes, pc, copied, channel, sen>>
  BY DEF Poll, writers, bounds
<1>2. Counted'
  BY <1>1 DEF Sound, Counted, Busy, Honest, TypeOK
<1>3. Begun' /\ Brief'
  BY <1>1 DEF Sound, Begun, Brief, Honest, Between, TypeOK
<1>4. Blank'
  BY <1>1 DEF Sound, Blank, TypeOK
<1>5. Fresh'
  <2>1. copied'[c] = <<>>
    BY <1>1 DEF Sound, Blank
  <2>2. PrefixOf(copied'[c], sensor_active') /\ at'[c] = "copy"
    BY <1>1, <2>1 DEF PrefixOf, TypeOK
  <2>3. ASSUME NEW d \in Clients, d # c, sl'[d] = changed', ~Between', d \notin hidden'
        PROVE  /\ at'[d] = "loop" => Latest(d)' = sensor_active'
               /\ at'[d] = "copy" => PrefixOf(copied'[d], sensor_active')
    BY <1>1, <2>3 DEF Sound, Fresh, Latest, Between, PrefixOf, TypeOK
  <2> QED BY <2>2, <2>3 DEF Fresh
<1> QED BY <1>2, <1>3, <1>4, <1>5 DEF Sound

\* What a child copies is the sensor as it is (jc_msg_sens_active).
LEMMA CopySound ==
  ASSUME SensorsAssumption, TypeOK, Sound, NEW c \in Clients, CopyOne(c)
  PROVE  Sound'
<1>1. /\ copied' = [copied EXCEPT ![c] = Append(copied[c], sensor_active[Len(copied[c]) + 1])]
      /\ UNCHANGED <<sensor_active, changed, raced, changes, pc, at, sl, hidden, channel, sen>>
      /\ at[c] = "copy"
  BY DEF CopyOne, writers, bounds
<1>2. Counted' /\ Begun' /\ Brief'
  BY <1>1 DEF Sound, Counted, Begun, Brief, Busy, Between, Honest
<1>3. Blank'
  BY <1>1 DEF Sound, Blank, TypeOK
<1>4. PrefixOf(copied[c], sensor_active) => PrefixOf(copied'[c], sensor_active)
  BY <1>1 DEF PrefixOf, TypeOK
<1>5. Fresh'
  <2> SUFFICES ASSUME NEW d \in Clients, sl'[d] = changed', ~Between', d \notin hidden'
               PROVE  /\ at'[d] = "loop" => Latest(d)' = sensor_active'
                      /\ at'[d] = "copy" => PrefixOf(copied'[d], sensor_active')
    BY DEF Fresh
  <2>1. CASE d = c
    BY <1>1, <1>4, <2>1 DEF Sound, Fresh, Between
  <2>2. CASE d # c
    <3>1. copied'[d] = copied[d]
      BY <1>1, <2>2 DEF TypeOK
    <3> QED BY <1>1, <3>1 DEF Sound, Fresh, Latest, Between
  <2> QED BY <2>1, <2>2
<1> QED BY <1>2, <1>3, <1>5 DEF Sound

\* What a child sends is the array, if it copied it unchanged (jc_msg_sens_active).
LEMMA SendSound ==
  ASSUME SensorsAssumption, TypeOK, Sound, NEW c \in Clients, Send(c)
  PROVE  Sound'
<1>1. /\ at' = [at EXCEPT ![c] = "loop"] /\ copied' = [copied EXCEPT ![c] = <<>>]
      /\ channel' = [channel EXCEPT ![c] = Append(channel[c], copied[c])]
      /\ UNCHANGED <<sensor_active, changed, raced, changes, pc, sl, hidden, sen>>
      /\ at[c] = "copy" /\ Len(copied[c]) = Last
  BY DEF Send, writers, bounds
<1>2. Counted' /\ Begun' /\ Brief'
  BY <1>1 DEF Sound, Counted, Begun, Brief, Busy, Between, Honest
<1>3. Blank'
  BY <1>1 DEF Sound, Blank, TypeOK
<1>4. copied[c] \in [Sens -> BOOLEAN]
  BY <1>1, CopiedAll DEF TypeOK
<1>5. PrefixOf(copied[c], sensor_active) => copied[c] = sensor_active
  BY <1>1, <1>4 DEF PrefixOf, Sens, TypeOK
<1>6. Latest(c)' = copied[c]
  <2>1. channel'[c] = Append(channel[c], copied[c]) /\ channel[c] \in Seq([Sens -> BOOLEAN])
    BY <1>1 DEF TypeOK
  <2> QED BY <1>4, <2>1 DEF Latest
<1>7. Fresh'
  <2> SUFFICES ASSUME NEW d \in Clients, sl'[d] = changed', ~Between', d \notin hidden'
               PROVE  /\ at'[d] = "loop" => Latest(d)' = sensor_active'
                      /\ at'[d] = "copy" => PrefixOf(copied'[d], sensor_active')
    BY DEF Fresh
  <2>1. CASE d = c
    BY <1>1, <1>5, <1>6, <2>1 DEF Sound, Fresh, Between, TypeOK
  <2>2. CASE d # c
    <3>1. copied'[d] = copied[d] /\ channel'[d] = channel[d] /\ at'[d] = at[d]
      BY <1>1, <2>2 DEF TypeOK
    <3> QED BY <1>1, <3>1 DEF Sound, Fresh, Latest, Between
  <2> QED BY <2>1, <2>2
<1> QED BY <1>2, <1>3, <1>7 DEF Sound

\* What the client receives was on its way to it.
LEMMA ReceiveSound ==
  ASSUME SensorsAssumption, TypeOK, Sound, NEW c \in Clients, Receive(c)
  PROVE  Sound'
<1>1. /\ sen' = [sen EXCEPT ![c] = Head(channel[c])]
      /\ channel' = [channel EXCEPT ![c] = Tail(channel[c])] /\ channel[c] # <<>>
      /\ UNCHANGED <<sensor_active, changed, raced, changes, pc, at, sl, hidden, copied>>
  BY DEF Receive, writers, bounds
<1>2. Counted' /\ Begun' /\ Brief'
  BY <1>1 DEF Sound, Counted, Begun, Brief, Busy, Between, Honest
<1>3. Blank'
  BY <1>1 DEF Sound, Blank, TypeOK
<1>4. Latest(c)' = Latest(c)
  <2>1. channel[c] \in Seq([Sens -> BOOLEAN]) /\ channel'[c] = Tail(channel[c])
        /\ sen'[c] = Head(channel[c])
    BY <1>1 DEF TypeOK
  <2>2. CASE Tail(channel[c]) = <<>>
    <3>1. Head(channel[c]) = channel[c][Len(channel[c])]
      BY <1>1, <2>1, <2>2, OneLeft
    <3> QED BY <1>1, <2>1, <2>2, <3>1 DEF Latest
  <2>3. CASE Tail(channel[c]) # <<>>
    BY <1>1, <2>1, <2>3, LastOfTail DEF Latest
  <2> QED BY <2>2, <2>3
<1>5. \A d \in Clients : Latest(d)' = Latest(d)
  <2> TAKE d \in Clients
  <2>1. d # c => channel'[d] = channel[d] /\ sen'[d] = sen[d]
    BY <1>1 DEF TypeOK
  <2> QED BY <1>4, <2>1 DEF Latest
<1>6. Fresh'
  BY <1>1, <1>5 DEF Sound, Fresh, Between, PrefixOf
<1> QED BY <1>2, <1>3, <1>6 DEF Sound

\* A child that connects knows of no change, and nor does its client (jc_server).
LEMMA ConnectSound ==
  ASSUME SensorsAssumption, TypeOK, Sound, NEW c \in Clients, Connect(c)
  PROVE  Sound'
<1>1. /\ at' = [at EXCEPT ![c] = "loop"] /\ at[c] = "none"
      /\ hidden' = IF changed = 0 /\ sensor_active # AllOff THEN hidden \cup {c} ELSE hidden
      /\ UNCHANGED <<sensor_active, changed, raced, changes, pc, sl, copied, channel, sen>>
  BY DEF Connect, writers
<1>2. Counted' /\ Begun'
  BY <1>1 DEF Sound, Counted, Begun, Busy, Between, Honest
<1>3. sl[c] = 0 /\ channel[c] = <<>> /\ sen[c] = AllOff /\ copied[c] = <<>>
  BY <1>1 DEF Sound, Blank
<1>4. Blank'
  BY <1>1, <1>3 DEF Sound, Blank, TypeOK
<1>5. Brief'
  BY <1>1, <1>3 DEF Sound, Brief, Begun, Between, Honest
<1>6. Fresh'
  <2> SUFFICES ASSUME NEW d \in Clients, sl'[d] = changed', ~Between', d \notin hidden'
               PROVE  /\ at'[d] = "loop" => Latest(d)' = sensor_active'
                      /\ at'[d] = "copy" => PrefixOf(copied'[d], sensor_active')
    BY DEF Fresh
  <2>1. CASE d = c
    BY <1>1, <1>3, <2>1 DEF Latest, TypeOK
  <2>2. CASE d # c
    BY <1>1, <2>2 DEF Sound, Fresh, Latest, Between, TypeOK
  <2> QED BY <2>1, <2>2
<1> QED BY <1>2, <1>4, <1>5, <1>6 DEF Sound

\* A client that disconnects takes all of its own with it (jc_server).
LEMMA DisconnectSound ==
  ASSUME SensorsAssumption, TypeOK, Sound, NEW c \in Clients, Disconnect(c)
  PROVE  Sound'
<1>1. /\ at' = [at EXCEPT ![c] = "none"] /\ copied' = [copied EXCEPT ![c] = <<>>]
      /\ channel' = [channel EXCEPT ![c] = <<>>] /\ sen' = [sen EXCEPT ![c] = AllOff]
      /\ sl' = [sl EXCEPT ![c] = 0] /\ hidden' = hidden \ {c}
      /\ UNCHANGED <<sensor_active, changed, raced, changes, pc>>
  BY DEF Disconnect, writers, bounds
<1>2. Counted'
  BY <1>1 DEF Sound, Counted, Busy, Honest, TypeOK
<1>3. Begun' /\ Brief'
  BY <1>1 DEF Sound, Begun, Brief, Between, Honest, TypeOK
<1>4. Blank'
  BY <1>1 DEF Sound, Blank, TypeOK
<1>5. Fresh'
  <2> SUFFICES ASSUME NEW d \in Clients, sl'[d] = changed', ~Between', d \notin hidden'
               PROVE  /\ at'[d] = "loop" => Latest(d)' = sensor_active'
                      /\ at'[d] = "copy" => PrefixOf(copied'[d], sensor_active')
    BY DEF Fresh
  <2>1. CASE d = c
    BY <1>1, <2>1 DEF TypeOK
  <2>2. CASE d # c
    BY <1>1, <2>2 DEF Sound, Fresh, Latest, Between, TypeOK
  <2> QED BY <2>1, <2>2
<1> QED BY <1>2, <1>3, <1>4, <1>5 DEF Sound

\* Every step keeps the invariant (Next).
LEMMA NextSound ==
  ASSUME SensorsAssumption, TypeOK, Sound, [Next]_vars
  PROVE  Sound'
<1>1. ASSUME NEW w \in Writers, Writer(w) \/ \E s \in Sens, on \in BOOLEAN : Mark(w, s, on)
      PROVE  Sound'
  BY <1>1, MarkSound, SetLoadSound, StoreSound DEF Writer
<1>2. ASSUME NEW c \in Clients, Child(c) \/ Receive(c) \/ Connect(c) \/ Disconnect(c)
      PROVE  Sound'
  BY <1>2, PollSound, CopySound, SendSound, ReceiveSound, ConnectSound, DisconnectSound
  DEF Child
<1>3. ASSUME UNCHANGED vars PROVE Sound'
  BY <1>3 DEF vars, writers, children, bounds, Sound, Counted, Begun, Brief, Fresh, Blank,
              Busy, Between, Honest, Latest, PrefixOf
<1> QED BY <1>1, <1>2, <1>3 DEF Next

\* The invariant says what it is for (SensorsCurrent).
LEMMA SoundIsCurrent ==
  ASSUME SensorsAssumption, TypeOK, Sound
  PROVE  SensorsCurrent
<1> SUFFICES ASSUME NEW c \in Clients, Rest(c), ~Excused(c)
             PROVE  sen[c] = sensor_active
  BY DEF SensorsCurrent
<1>1. Busy = {} /\ ~Between
  BY DEF Rest, Busy, Between
<1>2. ASSUME c \in hidden PROVE FALSE
  <2>1. Honest
    BY <1>2 DEF Excused, Honest, TypeOK, SensorsAssumption
  <2>2. sl[c] = 0 /\ changed > 0
    BY <1>1, <1>2, <2>1 DEF Sound, Brief
  <2> QED BY <2>2 DEF Rest
<1>3. Latest(c) = sensor_active
  BY <1>1, <1>2 DEF Sound, Fresh, Rest
<1> QED BY <1>3 DEF Latest, Rest

\* A client at rest has the sensors as they are, for any number of sensors, writers
\* and clients, as long as no writer stored over another and the counter did not go
\* all the way round (poll_sensor_change, jc_sensor_mark_active).
THEOREM ClientsAreCurrent ==
  ASSUME SensorsAssumption
  PROVE  Spec => []SensorsCurrent
<1>1. Init => TypeOK /\ Sound
  BY InitType, InitSound
<1>2. TypeOK /\ Sound /\ [Next]_vars => (TypeOK /\ Sound)'
  BY NextType, NextSound
<1>3. TypeOK /\ Sound => SensorsCurrent
  BY SoundIsCurrent
<1> QED BY <1>1, <1>2, <1>3, PTL DEF Spec

=============================================================================
