---------------------------- MODULE KeyExchange ----------------------------
(***************************************************************************)
(* The key exchange service: a process that opens a second port while the    *)
(* setting enable_keyexchange is on, forks a child for each connection to it, *)
(* and turns the setting off again when the time of the window is up.        *)
(*                                                                          *)
(* The setting is a field of the record jcsm->se, which consoles write as a   *)
(* whole, so any record a console sends carries some value of it, the one the *)
(* user just chose or an older one.                                          *)
(***************************************************************************)
EXTENDS Integers

CONSTANTS
  Exchanges,  \* the connections made to the second port
  MaxEdits    \* bound: records the consoles send

KeyExchangeAssumption == MaxEdits \in Nat

On == 1
Off == 0
Unset == 100  \* what kx holds before the first turn

VARIABLES
  turn,      \* where the process is in its loop; "off" if started with nokx,
             \* "failed" when it could not have its port
  kx,      \* its copy of the setting
  enable,  \* jcsm->se.enable_keyexchange
  port,    \* fd_serversock is open
  late,    \* starttime is longer ago than kx_timeoutms
  active,  \* jcsm->ss.kx_active
  exch,    \* where each connection is
  quit,    \* jcsm->quit
  edits

window == <<port, late, active>>
vars == <<turn, kx, enable, window, exch, quit, edits>>

\* starttime is 0 at first, which is long ago.  The file of settings may hold
\* either value: what a console sends is saved.
Init ==
  /\ turn \in {"loop", "off"}
  /\ kx = Unset
  /\ enable \in {On, Off}
  /\ port = FALSE /\ late = TRUE /\ active = FALSE
  /\ exch = [x \in Exchanges |-> "none"]
  /\ quit = FALSE
  /\ edits = 0

-----------------------------------------------------------------------------
(* One turn of the loop.  The setting is read again at each of its steps.     *)

Dropped == [x \in Exchanges |-> IF exch[x] = "queued" THEN "gone" ELSE exch[x]]

Top ==
  /\ turn = "loop" /\ ~quit
  /\ turn' = IF kx # enable THEN "changed" ELSE "serve"
  /\ UNCHANGED <<kx, enable, window, exch, quit, edits>>

End ==
  /\ turn = "loop" /\ quit
  /\ turn' = "ended" /\ port' = FALSE /\ exch' = Dropped
  /\ UNCHANGED <<kx, enable, late, active, quit, edits>>

\* The window is closed here when the setting has been turned off.
Suspend ==
  /\ turn = "changed"
  /\ turn' = "copy"
  /\ IF enable = On THEN UNCHANGED <<port, exch>> ELSE port' = FALSE /\ exch' = Dropped
  /\ UNCHANGED <<kx, enable, late, active, quit, edits>>

Copy ==
  /\ turn = "copy"
  /\ turn' = "serve" /\ kx' = enable
  /\ UNCHANGED <<enable, window, exch, quit, edits>>

Skip ==
  /\ turn = "serve" /\ enable # On
  /\ turn' = "loop"
  /\ UNCHANGED <<kx, enable, window, exch, quit, edits>>

Listen ==
  /\ turn = "serve" /\ enable = On /\ ~port
  /\ turn' = "announce" /\ port' = TRUE
  /\ UNCHANGED <<kx, enable, late, active, exch, quit, edits>>

\* Mutant: the state of the server is not updated.
AnnounceNothing ==
  /\ turn = "announce"
  /\ turn' = "clock" /\ late' = FALSE
  /\ UNCHANGED <<kx, enable, port, active, exch, quit, edits>>

Announce ==
  /\ turn = "announce"
  /\ turn' = "clock"
  /\ active' = TRUE /\ late' = FALSE
  /\ UNCHANGED <<kx, enable, port, exch, quit, edits>>

\* There is no socket to be had.
ListenFails ==
  /\ turn = "serve" /\ enable = On /\ ~port
  /\ turn' = "clock" /\ active' = FALSE
  /\ UNCHANGED <<kx, enable, port, late, exch, quit, edits>>

\* The port is taken: create_listening_tcp_socket ends the process.
BindFails ==
  /\ turn = "serve" /\ enable = On /\ ~port
  /\ turn' = "failed"
  /\ UNCHANGED <<kx, enable, window, exch, quit, edits>>

\* One connection a turn, if there is one.
Accept ==
  /\ turn = "serve" /\ enable = On /\ port
  /\ turn' = "clock"
  /\ IF \E x \in Exchanges : exch[x] = "queued"
     THEN \E x \in Exchanges : exch[x] = "queued" /\ exch' = [exch EXCEPT ![x] = "forked"]
     ELSE UNCHANGED exch
  /\ UNCHANGED <<kx, enable, window, quit, edits>>

Clock ==
  /\ turn = "clock"
  /\ turn' = IF late THEN "expire" ELSE "loop"
  /\ UNCHANGED <<kx, enable, window, exch, quit, edits>>

\* The time is up.
Hide ==
  /\ turn = "expire"
  /\ turn' = "close" /\ active' = FALSE
  /\ UNCHANGED <<kx, enable, port, late, exch, quit, edits>>

Close ==
  /\ turn = "close"
  /\ turn' = "reset"
  /\ port' = FALSE /\ exch' = Dropped
  /\ UNCHANGED <<kx, enable, late, active, quit, edits>>

\* Mutant: the setting stays on, and the next turn opens another window.
ResetNothing ==
  /\ turn = "reset"
  /\ turn' = "loop" /\ active' = FALSE
  /\ UNCHANGED <<kx, enable, port, late, exch, quit, edits>>

\* Whatever a console has written since the clock was read is overwritten.
Reset ==
  /\ turn = "reset"
  /\ turn' = "loop" /\ active' = FALSE /\ enable' = Off
  /\ UNCHANGED <<kx, port, late, exch, quit, edits>>

Turn ==
  \/ Top \/ End \/ Suspend \/ Copy \/ Skip
  \/ Listen \/ Announce \/ ListenFails \/ BindFails
  \/ Accept \/ Clock \/ Hide \/ Close \/ Reset

-----------------------------------------------------------------------------
(* The child of an exchange.                                                *)

\* It looks at the setting once more before it reads.
Check(x) ==
  /\ exch[x] = "forked"
  /\ exch' = [exch EXCEPT ![x] = IF enable = On THEN "reading" ELSE "gone"]
  /\ UNCHANGED <<turn, kx, enable, window, quit, edits>>

\* "?K" gets the key, anything else nothing; the read has no time-out.
Answer(x) ==
  /\ exch[x] = "reading"
  /\ \E r \in {"given", "gone"} : exch' = [exch EXCEPT ![x] = r]
  /\ UNCHANGED <<turn, kx, enable, window, quit, edits>>

-----------------------------------------------------------------------------
(* Everyone else.                                                           *)

Arrive(x) ==
  /\ port /\ exch[x] = "none"
  /\ exch' = [exch EXCEPT ![x] = "queued"]
  /\ UNCHANGED <<turn, kx, enable, window, quit, edits>>

\* JC_MSG_SERVERSETTINGS, for this field of it.
Settings(v) ==
  /\ edits < MaxEdits
  /\ enable' = v /\ edits' = edits + 1
  /\ UNCHANGED <<turn, kx, window, exch, quit>>

Pass ==
  /\ ~late
  /\ late' = TRUE
  /\ UNCHANGED <<turn, kx, enable, port, active, exch, quit, edits>>

Quit ==
  /\ ~quit
  /\ quit' = TRUE
  /\ UNCHANGED <<turn, kx, enable, window, exch, edits>>

Next ==
  \/ Turn \/ Pass \/ Quit
  \/ \E v \in {On, Off} : Settings(v)
  \/ \E x \in Exchanges : Arrive(x) \/ Check(x) \/ Answer(x)

Fairness ==
  /\ WF_vars(Turn) /\ WF_vars(Pass)
  /\ \A x \in Exchanges : WF_vars(Check(x))

Spec == Init /\ [][Next]_vars
FairSpec == Spec /\ Fairness

-----------------------------------------------------------------------------
TypeOK ==
  /\ turn \in {"loop", "changed", "copy", "serve", "announce", "clock", "expire", "close",
              "reset", "ended", "failed", "off"}
  /\ kx \in {On, Off, Unset} /\ enable \in {On, Off}
  /\ port \in BOOLEAN /\ late \in BOOLEAN /\ active \in BOOLEAN
  /\ exch \in [Exchanges -> {"none", "queued", "forked", "reading", "given", "gone"}]
  /\ quit \in BOOLEAN /\ edits \in 0..MaxEdits

\* While the second port is open, the state the server sends its clients says so
\* (kx_active), but for the moments between listen and that note and between the note's
\* removal and close.  The other way round it does not: a console that turns the setting
\* off leaves kx_active on.
OpenIsShown == port => active \/ turn \in {"announce", "close"}

\* Once consoles send no more records, the window of jc_keyexchange ends.  Either the
\* process has, which closes the port: with the server, or because the port was taken,
\* which leaves the setting on.  Or the setting is off, and the port is closed unless the
\* process had noted the setting as off before (a change back and forth that falls
\* between two of its looks).
EventuallyShut ==
  <>[](\/ turn \in {"ended", "failed", "off"} /\ ~port
       \/ enable = Off /\ (port => kx = Off))

=============================================================================
