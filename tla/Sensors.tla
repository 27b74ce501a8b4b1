------------------------------ MODULE Sensors ------------------------------
(***************************************************************************)
(* The sensors of one type in shared memory, the processes that mark them     *)
(* active and inactive, and the clients' children that tell their clients.    *)
(* Sensors of type camera have many writers, the camera's child and every     *)
(* child that times cameras out; those of type temperature one, jc_sensor.    *)
(*                                                                          *)
(* A child learns of a change from a counter that writers increment without   *)
(* a lock; then it copies the whole array, one sensor after the other, and    *)
(* sends it.  Clients ignore types from JC_MAX_SENSTYPE-1 on; the types that   *)
(* anyone marks, camera and temperature, lie below it.                       *)
(***************************************************************************)
EXTENDS Integers, Sequences, FiniteSets

CONSTANTS
  Last,        \* JC_MAX_SENSORS: the sensors of this type are 1..Last
  Writers,     \* the processes that mark them
  Clients,     \* clients, each with the child that serves it
  Width,       \* values of sensor_active_changed: 2^16
  MaxChanges,  \* bound: times a sensor is marked
  MaxConnects  \* bound: times the clients connect

SensorsAssumption ==
  /\ IsFiniteSet(Writers)
  /\ Last \in Nat \ {0} /\ Width \in Nat \ {0}
  /\ MaxChanges \in Nat /\ MaxConnects \in Nat

VARIABLES
  sensor_active,  \* senss.sensor_active of this type
  changed,        \* senss.sensor_active_changed of this type
  pc,             \* where each writer is
  mark,           \* the sensor and value it marks
  counter,         \* changed, as it loaded it
  at,             \* where each child is
  sl,             \* the counter as the child last saw it
  copied,         \* what the child has copied of the array
  channel,        \* messages to the client
  sen,            \* the array as the client has it
  hidden,         \* ghost: children that a counter stored has the value they last saw
  raced,          \* ghost: a counter was stored over one that another had stored since
  changes, connects

writers == <<pc, mark, counter>>
children == <<at, sl, copied, channel, sen>>
bounds == <<changes, connects>>
vars == <<sensor_active, changed, writers, children, hidden, raced, bounds>>

Sens == 1..Last
Nothing == [sensor |-> 1, on |-> FALSE]
AllOff == [s \in Sens |-> FALSE]

Init ==
  /\ sensor_active = AllOff /\ changed = 0
  /\ pc = [w \in Writers |-> "idle"]
  /\ mark = [w \in Writers |-> Nothing]
  /\ counter = [w \in Writers |-> 0]
  /\ at = [c \in Clients |-> "none"]
  /\ sl = [c \in Clients |-> 0]
  /\ copied = [c \in Clients |-> <<>>]
  /\ channel = [c \in Clients |-> <<>>]
  /\ sen = [c \in Clients |-> AllOff]
  /\ hidden = {} /\ raced = FALSE
  /\ changes = 0 /\ connects = 0

-----------------------------------------------------------------------------
(* jc_sensor_mark_active and jc_sensor_mark_inactive.                        *)

\* No effect if it is marked so already; whoever passes this test goes on.
Mark(w, s, on) ==
  /\ pc[w] = "idle" /\ sensor_active[s] # on /\ changes < MaxChanges
  /\ pc' = [pc EXCEPT ![w] = "set"]
  /\ mark' = [mark EXCEPT ![w] = [sensor |-> s, on |-> on]]
  /\ changes' = changes + 1
  /\ UNCHANGED <<sensor_active, changed, counter, children, hidden, raced, connects>>

Set(w) ==
  /\ pc[w] = "set"
  /\ pc' = [pc EXCEPT ![w] = "load"]
  /\ sensor_active' = [sensor_active EXCEPT ![mark[w].sensor] = mark[w].on]
  /\ mark' = [mark EXCEPT ![w] = Nothing]
  /\ UNCHANGED <<changed, counter, children, hidden, raced, bounds>>

Load(w) ==
  /\ pc[w] = "load"
  /\ pc' = [pc EXCEPT ![w] = "store"]
  /\ counter' = [counter EXCEPT ![w] = changed]
  /\ UNCHANGED <<sensor_active, changed, mark, children, hidden, raced, bounds>>

\* Mutant: the counter is wider than its field.
StoreWide(w) ==
  /\ pc[w] = "store"
  /\ pc' = [pc EXCEPT ![w] = "idle"]
  /\ changed' = counter[w] + 1
  /\ hidden' = hidden \cup {c \in Clients : at[c] # "none" /\ sl[c] = changed'}
  /\ raced' = (raced \/ counter[w] # changed)
  /\ counter' = [counter EXCEPT ![w] = 0]
  /\ UNCHANGED <<sensor_active, mark, children, bounds>>

Store(w) ==
  /\ pc[w] = "store"
  /\ pc' = [pc EXCEPT ![w] = "idle"]
  /\ changed' = (counter[w] + 1) % Width
  /\ hidden' = hidden \cup {c \in Clients : at[c] # "none" /\ sl[c] = changed'}
  /\ raced' = (raced \/ counter[w] # changed)
  /\ counter' = [counter EXCEPT ![w] = 0]
  /\ UNCHANGED <<sensor_active, mark, children, bounds>>

-----------------------------------------------------------------------------
(* The child of a client, and the client.                                   *)

\* Mutant: the child starts from the counter as it is.
ConnectCurrent(c) ==
  /\ at[c] = "none" /\ connects < MaxConnects
  /\ at' = [at EXCEPT ![c] = "loop"]
  /\ sl' = [sl EXCEPT ![c] = changed]
  /\ connects' = connects + 1
  /\ UNCHANGED <<sensor_active, changed, writers, copied, channel, sen, hidden, raced, changes>>

\* The child starts from a blank copy, as does the client.
Connect(c) ==
  /\ at[c] = "none" /\ connects < MaxConnects
  /\ at' = [at EXCEPT ![c] = "loop"]
  /\ hidden' = IF changed = 0 /\ sensor_active # AllOff THEN hidden \cup {c} ELSE hidden
  /\ connects' = connects + 1
  /\ UNCHANGED <<sensor_active, changed, writers, sl, copied, channel, sen, raced, changes>>

Disconnect(c) ==
  /\ at[c] # "none"
  /\ at' = [at EXCEPT ![c] = "none"]
  /\ copied' = [copied EXCEPT ![c] = <<>>]
  /\ channel' = [channel EXCEPT ![c] = <<>>]
  /\ sen' = [sen EXCEPT ![c] = AllOff]
  /\ sl' = [sl EXCEPT ![c] = 0] /\ hidden' = hidden \ {c}
  /\ UNCHANGED <<sensor_active, changed, writers, raced, bounds>>

\* poll_sensor_change: the counter first, then the array.
Poll(c) ==
  /\ at[c] = "loop" /\ sl[c] # changed
  /\ at' = [at EXCEPT ![c] = "copy"]
  /\ sl' = [sl EXCEPT ![c] = changed]
  /\ hidden' = hidden \ {c}
  /\ UNCHANGED <<sensor_active, changed, writers, copied, channel, sen, raced, bounds>>

\* jc_msg_sens_active copies one sensor after the other; the client takes the
\* array as one.
CopyOne(c) ==
  /\ at[c] = "copy" /\ Len(copied[c]) < Last
  /\ copied' = [copied EXCEPT ![c] = Append(@, sensor_active[Len(@) + 1])]
  /\ UNCHANGED <<sensor_active, changed, writers, at, sl, channel, sen, hidden, raced, bounds>>

\* Mutant: the counter is noted after the array was copied.
SendThenNote(c) ==
  /\ at[c] = "copy" /\ Len(copied[c]) = Last
  /\ at' = [at EXCEPT ![c] = "loop"] /\ sl' = [sl EXCEPT ![c] = changed]
  /\ channel' = [channel EXCEPT ![c] = Append(@, copied[c])]
  /\ copied' = [copied EXCEPT ![c] = <<>>]
  /\ UNCHANGED <<sensor_active, changed, writers, sen, hidden, raced, bounds>>

Send(c) ==
  /\ at[c] = "copy" /\ Len(copied[c]) = Last
  /\ at' = [at EXCEPT ![c] = "loop"]
  /\ channel' = [channel EXCEPT ![c] = Append(@, copied[c])]
  /\ copied' = [copied EXCEPT ![c] = <<>>]
  /\ UNCHANGED <<sensor_active, changed, writers, sl, sen, hidden, raced, bounds>>

Receive(c) ==
  /\ channel[c] # <<>>
  /\ sen' = [sen EXCEPT ![c] = Head(channel[c])]
  /\ channel' = [channel EXCEPT ![c] = Tail(@)]
  /\ UNCHANGED <<sensor_active, changed, writers, at, sl, copied, hidden, raced, bounds>>

-----------------------------------------------------------------------------
Writer(w) == Set(w) \/ Load(w) \/ Store(w)
Child(c) == Poll(c) \/ CopyOne(c) \/ Send(c)

Next ==
  \/ \E w \in Writers : Writer(w) \/ \E s \in Sens, on \in BOOLEAN : Mark(w, s, on)
  \/ \E c \in Clients : Child(c) \/ Receive(c) \/ Connect(c) \/ Disconnect(c)

Fairness ==
  /\ \A w \in Writers : WF_vars(Writer(w))
  /\ \A c \in Clients : WF_vars(Child(c)) /\ WF_vars(Receive(c))

Spec == Init /\ [][Next]_vars
FairSpec == Spec /\ Fairness

-----------------------------------------------------------------------------
TypeOK ==
  /\ sensor_active \in [Sens -> BOOLEAN] /\ changed \in 0..(Width - 1)
  /\ pc \in [Writers -> {"idle", "set", "load", "store"}]
  /\ mark \in [Writers -> [sensor : Sens, on : BOOLEAN]]
  /\ counter \in [Writers -> 0..(Width - 1)]
  /\ at \in [Clients -> {"none", "loop", "copy"}] /\ sl \in [Clients -> 0..(Width - 1)]
  /\ copied \in [Clients -> Seq(BOOLEAN)] /\ \A c \in Clients : Len(copied[c]) <= Last
  /\ channel \in [Clients -> Seq([Sens -> BOOLEAN])]
  /\ sen \in [Clients -> [Sens -> BOOLEAN]]
  /\ hidden \subseteq Clients /\ raced \in BOOLEAN
  /\ changes \in 0..MaxChanges /\ connects \in 0..MaxConnects

Rest(c) ==
  /\ \A w \in Writers : pc[w] = "idle"
  /\ at[c] = "loop" /\ sl[c] = changed /\ channel[c] = <<>>

\* The counter came back to the value the child last saw: two writers stored over one
\* another, or it went all the way round.
Excused(c) == c \in hidden /\ (raced \/ changes >= Width)

\* With no writer at work and nothing on the way, a client has the sensors as they are
\* (poll_sensor_change, jc_sensor_mark_active), the counter's accidents apart.
SensorsCurrent == \A c \in Clients : Rest(c) => sen[c] = sensor_active \/ Excused(c)

\* A client that stays connected is told in the end (poll_sensor_change, jc_server).
SensorsEventuallyTold ==
  \A c \in Clients : <>[](at[c] = "none" \/ sen[c] = sensor_active \/ Excused(c))
=============================================================================
