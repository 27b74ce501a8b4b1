------------------------------- MODULE Server -------------------------------
(***************************************************************************)
(* The processes of the server together: main and its children (Lifecycle),  *)
(* the service that exchanges keys, and the children that mark and tell of     *)
(* sensors.  They share nothing but the flag to quit, which the key exchange   *)
(* sees raised at any moment (closing).                                      *)
(***************************************************************************)
EXTENDS Lifecycle, Sequences

CONSTANTS Exchanges, MaxEdits, Last, Writers, Clients, Width, MaxChanges, MaxConnects

VARIABLES
  turn, kx, enable, port, late, active, exch, closing, edits,
  sensor_active, changed, pc, mark, counter, at, sl, copied, channel, sen,
  hidden, raced, changes, connects

KX == INSTANCE KeyExchange WITH quit <- closing
Sn == INSTANCE Sensors

ASSUME ServerAssumption == KX!KeyExchangeAssumption /\ Sn!SensorsAssumption

keys == <<turn, kx, enable, port, late, active, exch, closing, edits>>
sensors == <<sensor_active, changed, pc, mark, counter, at, sl, copied, channel, sen,
             hidden, raced, changes, connects>>
serverVars == <<vars, keys, sensors>>

ServerInit == Init /\ KX!Init /\ Sn!Init

ProcessStep == Next /\ UNCHANGED <<keys, sensors>>
KeyStep == KX!Next /\ UNCHANGED <<vars, sensors>>
SensorStep == Sn!Next /\ UNCHANGED <<vars, keys>>

ServerNext == ProcessStep \/ KeyStep \/ SensorStep
ServerSpec == ServerInit /\ [][ServerNext]_serverVars

-----------------------------------------------------------------------------
PartsTypeOK == KX!TypeOK /\ Sn!TypeOK

\* While the second port is open, the state the server sends its clients says so
\* (kx_active), but while the process of the exchange is about to write either.
OpenIsShown == KX!OpenIsShown

\* The window, or its process, ends once consoles send no more records (jc_keyexchange).
EventuallyShut == KX!EventuallyShut

\* A client at rest has the sensors as they are, the counter's accidents apart
\* (poll_sensor_change).
SensorsCurrent == Sn!SensorsCurrent

\* And while it stays it is told in the end.
SensorsEventuallyTold == Sn!SensorsEventuallyTold

=============================================================================
