----------------------------- MODULE Lifecycle -----------------------------
(***************************************************************************)
(* The processes of the server: main, which accepts connections, counts and  *)
(* forks; the child of each connection, from the list of barred addresses    *)
(* through authentication to serving; the services; and their deaths, which  *)
(* main learns of by signal.                                                *)
(*                                                                          *)
(* The list (ipbar.c) lies in memory that all children share without a lock. *)
(***************************************************************************)
EXTENDS Integers, FiniteSets

CONSTANTS
  Conns,     \* the connections made, and the children that serve them
  Services,  \* archiver, sensor, key exchange, http: forked before any of them
  Http,      \* those of them that wait in accept: http, when it is enabled
  Addrs,     \* the addresses connections come from
  None,      \* no address: the ip of a free entry
  TableLen,  \* IPBAR_TABLE_LEN
  MaxFails   \* se.ipbar_max_fails

ASSUME LifecycleAssumption ==
  /\ None \notin Addrs
  /\ Conns \cap Services = {} /\ Http \subseteq Services
  /\ IsFiniteSet(Conns)
  /\ TableLen \in Nat \ {0} /\ MaxFails \in Nat \ {0}

VARIABLES
  main,      \* "accept", "count" (in num_active_processes++), "fork", "ended"
  count,     \* num_active_processes
  loaded,    \* what main has loaded of it to add one
  client,    \* the connection main has accepted
  signal,    \* SIGCHLD is pending: it does not queue
  proc,      \* where each process is
  addr,      \* the address of each connection
  index,     \* the entry a child has found
  seen,      \* its count, as the child loaded it to add one
  table,     \* iplist
  quit,      \* jcsm->quit
  failed     \* ghost: the addresses that failed to authenticate

parent == <<main, count, loaded, client, signal>>
ipbar == <<index, seen, table, failed>>
vars == <<parent, proc, addr, ipbar, quit>>

Procs == Conns \cup Services
Entries == 1..TableLen
Beyond == 0     \* ipbar_find_olest returns a time: no entry of the table
Free == [ip |-> None, fails |-> 0]

\* A connection is in the backlog, then a child: reading the list, authenticating,
\* adding a failure (four steps) or clearing its entry (three), serving.
Working == {"bar", "auth", "fail", "mark", "tally", "add", "good", "clear", "wipe", "serve"}
Serving == {"service", "listen"}
Where == Working \cup Serving \cup {"none", "backlog", "zombie", "gone"}

Init ==
  /\ main = "accept" /\ count = 1 /\ loaded = 0 /\ client = None /\ signal = FALSE
  /\ proc = [p \in Procs |-> IF p \in Http THEN "listen"
                           ELSE IF p \in Services THEN "service" ELSE "none"]
  /\ addr = [k \in Conns |-> None]
  /\ index = [k \in Conns |-> Beyond] /\ seen = [k \in Conns |-> 0]
  /\ table = [i \in Entries |-> Free]
  /\ quit = FALSE
  /\ failed = {}

-----------------------------------------------------------------------------
(* main.                                                                    *)

\* A client connects: the listening socket takes it until main has ended.
\* Which of the unused names it has does not matter.
Unused == {k \in Conns : proc[k] = "none"}
Arrive(a) ==
  /\ Unused # {} /\ main # "ended"
  /\ LET k == CHOOSE u \in Unused : TRUE IN
     /\ proc' = [proc EXCEPT ![k] = "backlog"]
     /\ addr' = [addr EXCEPT ![k] = a]
  /\ UNCHANGED <<parent, ipbar, quit>>

\* Mutant: the connection is not counted.
AcceptUncounted(k) ==
  /\ main = "accept" /\ proc[k] = "backlog"
  /\ main' = "fork" /\ client' = k /\ loaded' = count
  /\ UNCHANGED <<count, signal, proc, addr, ipbar, quit>>

Accept(k) ==
  /\ main = "accept" /\ proc[k] = "backlog"
  /\ main' = "count" /\ client' = k /\ loaded' = count
  /\ UNCHANGED <<count, signal, proc, addr, ipbar, quit>>

CountUp ==
  /\ main = "count"
  /\ main' = "fork" /\ count' = loaded + 1
  /\ UNCHANGED <<loaded, client, signal, proc, addr, ipbar, quit>>

\* The end of main closes the listening socket with whoever waits there.
Closed(p) == IF proc[p] = "backlog" THEN "gone" ELSE proc[p]

\* Only now does main look whether it is to go on.
Fork ==
  /\ main = "fork"
  /\ main' = IF quit THEN "ended" ELSE "accept"
  /\ proc' = [p \in Procs |-> IF p = client THEN "bar"
                             ELSE IF quit THEN Closed(p) ELSE proc[p]]
  /\ client' = None /\ loaded' = 0
  /\ UNCHANGED <<count, signal, addr, ipbar, quit>>

\* accept fails and main exits; its children go on.
AcceptFails ==
  /\ main = "accept"
  /\ main' = "ended" /\ proc' = [p \in Procs |-> Closed(p)]
  /\ UNCHANGED <<count, loaded, client, signal, addr, ipbar, quit>>

\* child_died: one wait for one signal, wherever main is.
ChildDied(p) ==
  /\ signal /\ main # "ended" /\ proc[p] = "zombie"
  /\ signal' = FALSE
  /\ proc' = [proc EXCEPT ![p] = "gone"]
  /\ count' = count - 1
  /\ UNCHANGED <<main, loaded, client, addr, ipbar, quit>>

-----------------------------------------------------------------------------
(* The end of a process.                                                    *)

Exit(p) ==
  /\ proc' = [proc EXCEPT ![p] = IF main = "ended" THEN "gone" ELSE "zombie"]
  /\ signal' = (signal \/ main # "ended")
  /\ addr' = [k \in Conns |-> IF k = p THEN None ELSE addr[k]]
  /\ UNCHANGED <<main, count, loaded, client>>

\* The child of a connection goes on.
Goes(k, from, to) ==
  /\ proc[k] = from /\ proc' = [proc EXCEPT ![k] = to]
  /\ UNCHANGED <<parent, addr>>

-----------------------------------------------------------------------------
(* The child of a connection.                                               *)

EntryOf(a) == {i \in Entries : table[i].ip = a}
First(S) == CHOOSE i \in S : \A j \in S : i <= j

\* Mutant: a full table gives the entry after its last.
FindIpPast(a) ==
  IF EntryOf(a) # {} THEN First(EntryOf(a))
  ELSE IF EntryOf(None) # {} THEN First(EntryOf(None)) ELSE TableLen + 1

\* ipbar_find_ip: the entry of an address, or the first free one, or none.
FindIp(a) ==
  IF EntryOf(a) # {} THEN First(EntryOf(a))
  ELSE IF EntryOf(None) # {} THEN First(EntryOf(None)) ELSE Beyond

\* Mutant: the entry an address has or would be given.
FailsAnyEntry(a) == IF FindIp(a) \in Entries THEN table[FindIp(a)].fails ELSE -1

\* ipbar_failed_connections.
Fails(a) == IF EntryOf(a) # {} THEN table[First(EntryOf(a))].fails ELSE -1
Barred(a) == Fails(a) >= MaxFails

CheckBar(k) ==
  /\ proc[k] = "bar"
  /\ IF Barred(addr[k]) THEN Exit(k) ELSE Goes(k, "bar", "auth")
  /\ UNCHANGED <<ipbar, quit>>

\* The passphrase is wrong, or does not come within three seconds.
AuthFails(k) ==
  /\ Goes(k, "auth", "fail")
  /\ failed' = failed \cup {addr[k]}
  /\ UNCHANGED <<index, seen, table, quit>>

AuthGood(k) ==
  /\ Goes(k, "auth", "good")
  /\ UNCHANGED <<ipbar, quit>>

\* ipbar_find_ip; a child with no entry writes outside of memory and dies.
Find(k, from, to) ==
  /\ proc[k] = from
  /\ index' = [index EXCEPT ![k] = FindIp(addr[k])]
  /\ IF index'[k] = Beyond THEN Exit(k) ELSE Goes(k, from, to)
  /\ UNCHANGED <<seen, table, quit, failed>>

Mark(k) ==
  /\ Goes(k, "mark", "tally")
  /\ table' = [table EXCEPT ![index[k]].ip = addr[k]]
  /\ UNCHANGED <<index, seen, quit, failed>>

Tally(k) ==
  /\ Goes(k, "tally", "add")
  /\ seen' = [seen EXCEPT ![k] = table[index[k]].fails]
  /\ UNCHANGED <<index, table, quit, failed>>

Add(k) ==
  /\ proc[k] = "add"
  /\ table' = [table EXCEPT ![index[k]].fails = seen[k] + 1]
  /\ index' = [index EXCEPT ![k] = Beyond] /\ seen' = [seen EXCEPT ![k] = 0]
  /\ Exit(k)
  /\ UNCHANGED <<quit, failed>>

Clear(k) ==
  /\ Goes(k, "clear", "wipe")
  /\ table' = [table EXCEPT ![index[k]].ip = None]
  /\ UNCHANGED <<index, seen, quit, failed>>

Wipe(k) ==
  /\ Goes(k, "wipe", "serve")
  /\ table' = [table EXCEPT ![index[k]].fails = 0]
  /\ index' = [index EXCEPT ![k] = Beyond]
  /\ UNCHANGED <<seen, quit, failed>>

\* The client leaves, or jc_server sees that the server is to quit.
Leave(k) ==
  /\ proc[k] = "serve"
  /\ Exit(k)
  /\ UNCHANGED <<ipbar, quit>>

\* Mutant: only services look at the flag.
QuitSeenByServices(p) ==
  /\ quit /\ proc[p] = "service"
  /\ Exit(p)
  /\ table' = IF p \in Http THEN [i \in Entries |-> Free] ELSE table
  /\ UNCHANGED <<index, seen, failed, quit>>

\* jc_httpd returns where the others exit, into main: http clears the list on its way
\* to the end of main.
QuitSeen(p) ==
  /\ quit /\ proc[p] \in {"serve", "service"}
  /\ Exit(p)
  /\ table' = IF p \in Http THEN [i \in Entries |-> Free] ELSE table
  /\ UNCHANGED <<index, seen, failed, quit>>

\* A service ends by itself, as the key exchange does when its port is taken.
ServiceDies(s) ==
  /\ proc[s] = "service"
  /\ Exit(s)
  /\ UNCHANGED <<ipbar, quit>>

\* http listens when it finds its setting turned on, which it does once more each time
\* the setting is turned off and on.  The child it forks for a request sleeps and looks
\* at the flag as http does, and is not modelled.
Relisten(s) ==
  /\ ~quit /\ proc[s] = "service"
  /\ proc' = [proc EXCEPT ![s] = "listen"]
  /\ UNCHANGED <<parent, addr, ipbar, quit>>

\* http looks at quit again once it has had a request.
Request(s) ==
  /\ proc[s] = "listen"
  /\ proc' = [proc EXCEPT ![s] = "service"]
  /\ UNCHANGED <<parent, addr, ipbar, quit>>

\* The picture of a camera could not be archived, and exit_on_archive_error is set.
ArchiveError(k) ==
  /\ proc[k] = "serve" /\ ~quit
  /\ quit' = TRUE
  /\ UNCHANGED <<parent, proc, addr, ipbar>>

Child(k) ==
  \/ CheckBar(k) \/ AuthFails(k) \/ AuthGood(k)
  \/ Find(k, "fail", "mark") \/ Mark(k) \/ Tally(k) \/ Add(k)
  \/ Find(k, "good", "clear") \/ Clear(k) \/ Wipe(k)
  \/ QuitSeen(k)

-----------------------------------------------------------------------------
Main == (\E k \in Conns : Accept(k)) \/ CountUp \/ Fork
Signals == \E p \in Procs : ChildDied(p)

Next ==
  \/ \E a \in Addrs : Arrive(a)
  \/ Main \/ AcceptFails \/ Signals
  \/ \E k \in Conns : Child(k) \/ Leave(k) \/ ArchiveError(k)
  \/ \E s \in Services : QuitSeen(s) \/ ServiceDies(s)
  \/ \E s \in Http : Relisten(s) \/ Request(s)

Fairness ==
  /\ WF_vars(Main) /\ WF_vars(Signals)
  /\ \A k \in Conns : WF_vars(Child(k))
  /\ \A s \in Services : WF_vars(QuitSeen(s))

Spec == Init /\ [][Next]_vars
FairSpec == Spec /\ Fairness

-----------------------------------------------------------------------------
TypeOK ==
  /\ main \in {"accept", "count", "fork", "ended"}
  /\ count \in Int /\ loaded \in Int
  /\ client \in Conns \cup {None} /\ signal \in BOOLEAN
  /\ proc \in [Procs -> Where]
  /\ addr \in [Conns -> Addrs \cup {None}]
  /\ index \in [Conns -> Entries \cup {Beyond}] /\ seen \in [Conns -> Nat]
  /\ table \in [Entries -> [ip : Addrs \cup {None}, fails : Nat]]
  /\ quit \in BOOLEAN
  /\ failed \subseteq Addrs

Living == {k \in Conns : proc[k] \in Working}

\* While every service lives, main's count is never below itself and the children
\* it has: a limit on it would hold (num_active_processes, JC_MAX_CHILDREN).
CountsEveryChild ==
  (\A s \in Services : proc[s] \in Serving) => Cardinality(Living) + 1 <= count

\* Only an address that failed to authenticate is ever barred, whatever two children
\* do to one entry (ipbar_add_fail, ipbar_clear_entry).
OnlyFailedBarred == \A a \in Addrs : Barred(a) => a \in failed

\* The server that is to quit is left by all its children, and main is gone or waits
\* in accept for one more connection, as http may (main, jc_server, jc_httpd).
ShutsDown ==
  <>[](quit => /\ \A p \in Procs : proc[p] \notin Working \cup {"service", "backlog"}
               /\ main \in {"accept", "ended"})

=============================================================================
