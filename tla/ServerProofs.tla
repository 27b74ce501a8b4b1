---------------------------- MODULE ServerProofs ----------------------------
(***************************************************************************)
(* Proofs about the server.  First its processes (Lifecycle), for any finite   *)
(* set of connections, any addresses, services, table and limit: their types,  *)
(* that only an address that failed to authenticate is barred, and that main   *)
(* counts every child it has.  Then the key exchange (KeyExchange), for any    *)
(* exchanges and any number of settings.  Last the three parts together: what *)
(* holds of the key exchange and of the sensors holds in the server.          *)
(***************************************************************************)
EXTENDS Server, FiniteSetTheorems, WellFoundedInduction, TLAPS

USE LifecycleAssumption

-----------------------------------------------------------------------------
(* The list of addresses.                                                   *)

\* A set of entries that is not empty has a first one (the loops of ipbar.c).
LEMMA FirstOfSome ==
  ASSUME NEW S \in SUBSET Entries, S # {}
  PROVE  First(S) \in S
<1> DEFINE R == OpToRel(<, Nat)
<1>1. IsWellFoundedOn(R, Nat)
  BY NatLessThanWellFounded
<1>2. \A y, x \in Nat : y < x => <<y, x>> \in R
  BY DEF OpToRel
<1>3. S \in SUBSET Nat
  BY DEF Entries
<1> HIDE DEF R
<1>4. PICK x \in S : \A y \in S : ~(<<y, x>> \in R)
  BY <1>1, <1>3, WFMin, Zenon
<1>5. \A y \in S : x <= y
  <2> TAKE y \in S
  <2>1. y \in Nat /\ x \in Nat
    BY <1>3
  <2>2. ~(y < x)
    BY <1>2, <1>4, <2>1
  <2> QED BY <2>1, <2>2
<1> QED BY <1>4, <1>5 DEF First

\* The entry found for an address is its own or a free one, unless there is none
\* (ipbar_find_ip).
LEMMA Found ==
  ASSUME NEW a
  PROVE  FindIp(a) \in Entries \cup {Beyond}
<1>1. EntryOf(a) \in SUBSET Entries /\ EntryOf(None) \in SUBSET Entries
  BY DEF EntryOf
<1>2. EntryOf(a) # {} => First(EntryOf(a)) \in Entries
  BY <1>1, FirstOfSome
<1>3. EntryOf(None) # {} => First(EntryOf(None)) \in Entries
  BY <1>1, FirstOfSome
<1> QED BY <1>2, <1>3 DEF FindIp

\* An address that is barred is in the list (ipbar_failed_connections, main).
LEMMA BarredListed ==
  ASSUME NEW a, Barred(a)
  PROVE  \E i \in Entries : table[i].ip = a
<1>1. Fails(a) >= MaxFails
  BY DEF Barred
<1>2. EntryOf(a) # {}
  BY <1>1 DEF Fails
<1> QED BY <1>2 DEF EntryOf

-----------------------------------------------------------------------------
(* Types, and who is to blame.                                               *)

\* A child that is to write has an entry.
Held ==
  \A k \in Conns : proc[k] \in {"mark", "tally", "add", "clear", "wipe"} => index[k] \in Entries

\* A connection has an address as long as it lasts.
Addressed ==
  \A k \in Conns : proc[k] \in Working \cup {"backlog"} => addr[k] \in Addrs

\* What main has accepted is still to be forked.
Waits == main \in {"count", "fork"} => client \in Conns /\ proc[client] = "backlog"

\* The list holds addresses that failed, as do the children on their way to it.
Listed ==
  /\ \A k \in Conns : proc[k] \in {"fail", "mark", "tally", "add"} => addr[k] \in failed
  /\ \A i \in Entries : table[i].ip \in failed \cup {None}

Sound == TypeOK /\ Held /\ Addressed /\ Waits /\ Listed

\* The server starts with an empty list and no connections (Init).
LEMMA InitSound == Init => Sound
<1> SUFFICES ASSUME Init PROVE Sound
  OBVIOUS
<1>1. proc \in [Procs -> Where]
  BY DEF Init, Procs, Where, Serving
<1>2. table \in [Entries -> [ip : Addrs \cup {None}, fails : Nat]]
  BY DEF Init, Free
<1>3. TypeOK
  <2>1. signal \in BOOLEAN /\ quit \in BOOLEAN
    BY DEF Init
  <2>2. main \in {"accept", "count", "fork", "ended"} /\ count \in Int /\ loaded \in Int
        /\ client \in Conns \cup {None} /\ failed \subseteq Addrs
    BY DEF Init
  <2>3. /\ addr \in [Conns -> Addrs \cup {None}]
        /\ index \in [Conns -> Entries \cup {Beyond}] /\ seen \in [Conns -> Nat]
    BY DEF Init
  <2> QED BY <1>1, <1>2, <2>1, <2>2, <2>3 DEF TypeOK
<1>4. \A k \in Conns : proc[k] = "none"
  BY DEF Init, Procs
<1>5. Held /\ Addressed /\ Waits /\ Listed
  BY <1>4 DEF Init, Held, Addressed, Waits, Listed, Working, Free
<1> QED BY <1>3, <1>5 DEF Sound

\* A step that leaves the list alone and only accepts, counts, forks, closes or reaps.
LEMMA MainSound ==
  ASSUME Sound,
         \/ \E a \in Addrs : Arrive(a)
         \/ Main \/ AcceptFails \/ Signals
  PROVE  Sound'
<1> USE DEF Sound
<1>1. ASSUME NEW a \in Addrs, Arrive(a) PROVE Sound'
  <2> DEFINE k == CHOOSE u \in Unused : TRUE
  <2>1. k \in Conns /\ proc[k] = "none"
    BY <1>1 DEF Arrive, Unused
  <2>2. /\ proc' = [proc EXCEPT ![k] = "backlog"] /\ addr' = [addr EXCEPT ![k] = a]
        /\ UNCHANGED <<parent, ipbar, quit>>
    BY <1>1 DEF Arrive
  <2> HIDE DEF k
  <2>3. TypeOK'
    BY <1>1, <2>1, <2>2 DEF TypeOK, Procs, Where, parent, ipbar
  <2>4. Held' /\ Addressed' /\ Waits'
    BY <1>1, <2>1, <2>2 DEF TypeOK, Held, Addressed, Waits, Procs, Working, parent, ipbar
  <2>5. Listed'
    BY <1>1, <2>1, <2>2 DEF TypeOK, Listed, Procs, parent, ipbar
  <2> QED BY <2>3, <2>4, <2>5
<1>2. ASSUME NEW k \in Conns, Accept(k) PROVE Sound'
  BY <1>2 DEF Accept, ipbar, TypeOK, Held, Addressed, Waits, Listed
<1>3. ASSUME CountUp PROVE Sound'
  BY <1>3 DEF CountUp, ipbar, TypeOK, Held, Addressed, Waits, Listed
<1>4. ASSUME Fork PROVE Sound'
  <2>1. client \in Conns /\ proc[client] = "backlog"
    BY <1>4 DEF Fork, Waits
  <2>2. /\ main' \in {"accept", "ended"} /\ client' = None /\ loaded' = 0
        /\ UNCHANGED <<count, signal, addr, ipbar, quit>>
    BY <1>4 DEF Fork
  <2>3. \A p \in Procs : proc'[p] = proc[p] \/ proc'[p] = "gone" \/ (p = client /\ proc'[p] = "bar")
    <3> TAKE p \in Procs
    <3>1. proc'[p] = IF p = client THEN "bar" ELSE IF quit THEN Closed(p) ELSE proc[p]
      BY <1>4 DEF Fork
    <3>2. Closed(p) = proc[p] \/ Closed(p) = "gone"
      BY DEF Closed
    <3> QED BY <3>1, <3>2
  <2>4. proc' \in [Procs -> Where]
    BY <1>4 DEF Fork, Closed, TypeOK, Where, Working
  <2>5. TypeOK'
    BY <2>2, <2>4 DEF TypeOK, ipbar
  <2>6. Held' /\ Addressed' /\ Waits' /\ Listed'
    BY <2>1, <2>2, <2>3 DEF Held, Addressed, Waits, Listed, Procs, Working, ipbar
  <2> QED BY <2>5, <2>6
<1>5. ASSUME AcceptFails PROVE Sound'
  <2>1. \A p \in Procs : proc'[p] = proc[p] \/ proc'[p] = "gone"
    BY <1>5 DEF AcceptFails, Closed
  <2>2. proc' \in [Procs -> Where]
    BY <1>5 DEF AcceptFails, Closed, TypeOK, Where
  <2>3. TypeOK'
    BY <1>5, <2>2 DEF AcceptFails, TypeOK, ipbar
  <2>4. Held' /\ Addressed' /\ Waits' /\ Listed'
    BY <1>5, <2>1 DEF AcceptFails, Held, Addressed, Waits, Listed, Procs, Working, ipbar
  <2> QED BY <2>3, <2>4
<1>6. ASSUME NEW p \in Procs, ChildDied(p) PROVE Sound'
  <2>1. TypeOK'
    <3>1. proc' \in [Procs -> Where] /\ count' \in Int
      BY <1>6 DEF ChildDied, TypeOK, Where
    <3>2. signal' \in BOOLEAN
      BY <1>6 DEF ChildDied
    <3>3. UNCHANGED <<main, loaded, client, addr, ipbar, quit>>
      BY <1>6 DEF ChildDied
    <3> QED BY <3>1, <3>2, <3>3 DEF TypeOK, ipbar
  <2>2. Held' /\ Addressed' /\ Waits' /\ Listed'
    BY <1>6 DEF ChildDied, TypeOK, Held, Addressed, Waits, Listed, Procs, Working, ipbar
  <2> QED BY <2>1, <2>2
<1> QED BY <1>1, <1>2, <1>3, <1>4, <1>5, <1>6 DEF Main, Signals

\* The end of a process leaves the others and their addresses alone.
LEMMA ExitEffect ==
  ASSUME Sound, NEW p \in Procs, proc[p] # "backlog", Exit(p)
  PROVE  /\ proc' \in [Procs -> Where] /\ addr' \in [Conns -> Addrs \cup {None}]
         /\ main' = main /\ count' = count /\ loaded' = loaded /\ client' = client
         /\ signal' \in BOOLEAN
         /\ proc'[p] \in {"gone", "zombie"}
         /\ \A q \in Procs \ {p} : proc'[q] = proc[q]
         /\ \A k \in Conns \ {p} : addr'[k] = addr[k]
         /\ Addressed' /\ Waits'
<1>1. /\ proc' \in [Procs -> Where] /\ addr' \in [Conns -> Addrs \cup {None}]
      /\ main' = main /\ count' = count /\ loaded' = loaded /\ client' = client
      /\ signal' \in BOOLEAN
      /\ proc'[p] \in {"gone", "zombie"}
      /\ \A q \in Procs \ {p} : proc'[q] = proc[q]
      /\ \A k \in Conns \ {p} : addr'[k] = addr[k]
  BY DEF Exit, Sound, TypeOK, Where
<1>2. Addressed' /\ Waits'
  BY <1>1 DEF Sound, Addressed, Waits, Procs, Working
<1> QED BY <1>1, <1>2

\* A child that goes on leaves the others alone.
LEMMA GoesEffect ==
  ASSUME Sound, NEW k \in Conns, NEW from \in Working, NEW to \in Working, Goes(k, from, to)
  PROVE  /\ proc' \in [Procs -> Where] /\ UNCHANGED <<parent, addr>>
         /\ proc[k] = from /\ proc'[k] = to /\ addr[k] \in Addrs
         /\ \A q \in Procs \ {k} : proc'[q] = proc[q]
         /\ Addressed' /\ Waits'
<1>1. /\ proc' \in [Procs -> Where] /\ UNCHANGED <<parent, addr>>
      /\ proc[k] = from /\ proc'[k] = to
      /\ \A q \in Procs \ {k} : proc'[q] = proc[q]
  BY DEF Goes, Sound, TypeOK, Where, Procs
<1>2. Addressed' /\ Waits'
  BY <1>1 DEF Sound, Addressed, Waits, Procs, Working, parent
<1> QED BY <1>1, <1>2 DEF Sound, Addressed

\* A process that leaves changes nothing of the list, or clears it (Exit).
LEMMA Ended ==
  ASSUME Sound, NEW p \in Procs, proc[p] # "backlog", Exit(p),
         UNCHANGED <<index, seen, failed, quit>>,
         table' = table \/ table' = [i \in Entries |-> Free]
  PROVE  Sound'
<1> USE DEF Sound
<1>1. /\ proc' \in [Procs -> Where] /\ addr' \in [Conns -> Addrs \cup {None}]
      /\ main' = main /\ count' = count /\ loaded' = loaded /\ client' = client
      /\ signal' \in BOOLEAN
      /\ proc'[p] \in {"gone", "zombie"}
      /\ \A q \in Procs \ {p} : proc'[q] = proc[q]
      /\ \A k \in Conns \ {p} : addr'[k] = addr[k]
      /\ Addressed' /\ Waits'
  BY ExitEffect
<1>2. /\ table' \in [Entries -> [ip : Addrs \cup {None}, fails : Nat]]
      /\ \A i \in Entries : table'[i].ip \in {table[i].ip, None}
  BY DEF TypeOK, Free
<1>3. TypeOK'
  BY <1>1, <1>2 DEF TypeOK
<1>4. Held' /\ Listed'
  BY <1>1, <1>2 DEF Held, Listed, Procs
<1> QED BY <1>1, <1>3, <1>4

\* Nor does a child that goes on without one (Goes).
LEMMA Moved ==
  ASSUME Sound, NEW k \in Conns, NEW from \in {"bar", "auth", "serve"},
         NEW to \in {"auth", "good", "serve"}, Goes(k, from, to), UNCHANGED <<ipbar, quit>>
  PROVE  Sound'
<1> USE DEF Sound
<1>1. from \in Working /\ to \in Working
  BY DEF Working
<1>2. /\ proc' \in [Procs -> Where] /\ UNCHANGED <<parent, addr>>
      /\ proc'[k] = to
      /\ \A q \in Procs \ {k} : proc'[q] = proc[q]
      /\ Addressed' /\ Waits'
  BY <1>1, GoesEffect
<1>3. TypeOK'
  BY <1>2 DEF TypeOK, parent, ipbar
<1>4. Held' /\ Listed'
  BY <1>2 DEF Held, Listed, parent, ipbar, Procs
<1> QED BY <1>2, <1>3, <1>4

\* A child reads the list and authenticates (CheckBar, AuthFails,
\* AuthGood).
LEMMA AuthSound ==
  ASSUME Sound, NEW k \in Conns,
         CheckBar(k) \/ AuthFails(k) \/ AuthGood(k)
  PROVE  Sound'
<1> USE DEF Sound
<1>0. k \in Procs
  BY DEF Procs
<1>1. CASE CheckBar(k) /\ Exit(k)
  <2>1. proc[k] = "bar" /\ UNCHANGED <<ipbar, quit>>
    BY <1>1 DEF CheckBar
  <2> QED BY <1>0, <1>1, <2>1, Ended DEF ipbar
<1>2. CASE CheckBar(k) /\ Goes(k, "bar", "auth")
  <2>1. UNCHANGED <<ipbar, quit>>
    BY <1>2 DEF CheckBar
  <2> QED BY <1>2, <2>1, Moved
<1>3. CASE AuthGood(k)
  <2>1. Goes(k, "auth", "good") /\ UNCHANGED <<ipbar, quit>>
    BY <1>3 DEF AuthGood
  <2> QED BY <2>1, Moved
<1>4. CASE AuthFails(k)
  <2>1. /\ Goes(k, "auth", "fail") /\ failed' = failed \cup {addr[k]}
        /\ UNCHANGED <<index, seen, table, quit>>
    BY <1>4 DEF AuthFails
  <2>2. "auth" \in Working /\ "fail" \in Working
    BY DEF Working
  <2>3. /\ proc' \in [Procs -> Where] /\ UNCHANGED <<parent, addr>>
        /\ proc'[k] = "fail" /\ addr[k] \in Addrs
        /\ \A q \in Procs \ {k} : proc'[q] = proc[q]
        /\ Addressed' /\ Waits'
    BY <2>1, <2>2, GoesEffect
  <2>4. TypeOK'
    BY <2>1, <2>3 DEF TypeOK, parent
  <2>5. Held' /\ Listed'
    BY <2>1, <2>3 DEF TypeOK, Held, Listed, Procs
  <2> QED BY <2>3, <2>4, <2>5
<1> QED BY <1>1, <1>2, <1>3, <1>4 DEF CheckBar

\* A child looks up its entry, for a failure or to clear it (Find).
LEMMA FindSound ==
  ASSUME Sound, NEW k \in Conns, NEW from, NEW to, Find(k, from, to),
         (from = "fail" /\ to = "mark") \/ (from = "good" /\ to = "clear")
  PROVE  Sound'
<1> USE DEF Sound
<1>0. k \in Procs /\ from \in Working /\ to \in Working
  BY DEF Procs, Working
<1>1. /\ proc[k] = from /\ index' = [index EXCEPT ![k] = FindIp(addr[k])]
      /\ UNCHANGED <<seen, table, quit, failed>>
  BY DEF Find
<1>2. index' \in [Conns -> Entries \cup {Beyond}]
      /\ \A j \in Conns \ {k} : index'[j] = index[j]
  <2>1. FindIp(addr[k]) \in Entries \cup {Beyond}
    BY Found
  <2> QED BY <1>1, <2>1 DEF TypeOK
<1>3. CASE index'[k] = Beyond
  <2>1. Exit(k)
    BY <1>3 DEF Find
  <2>2. /\ proc' \in [Procs -> Where] /\ addr' \in [Conns -> Addrs \cup {None}]
        /\ main' = main /\ count' = count /\ loaded' = loaded /\ client' = client
        /\ signal' \in BOOLEAN
        /\ proc'[k] \in {"gone", "zombie"}
        /\ \A q \in Procs \ {k} : proc'[q] = proc[q]
        /\ \A j \in Conns \ {k} : addr'[j] = addr[j]
        /\ Addressed' /\ Waits'
    BY <1>0, <1>1, <2>1, ExitEffect
  <2>3. TypeOK'
    BY <1>1, <1>2, <2>2 DEF TypeOK
  <2>4. Held' /\ Listed'
    BY <1>1, <1>2, <2>2 DEF Held, Listed, Procs
  <2> QED BY <2>2, <2>3, <2>4
<1>4. CASE index'[k] # Beyond
  <2>1. Goes(k, from, to)
    BY <1>4 DEF Find
  <2>2. /\ proc' \in [Procs -> Where] /\ UNCHANGED <<parent, addr>>
        /\ proc'[k] = to
        /\ \A q \in Procs \ {k} : proc'[q] = proc[q]
        /\ Addressed' /\ Waits'
    BY <1>0, <2>1, GoesEffect
  <2>3. TypeOK'
    BY <1>1, <1>2, <2>2 DEF TypeOK, parent
  <2>4. Held'
    BY <1>2, <1>4, <2>2 DEF Held, Procs
  <2>5. Listed'
    BY <1>1, <2>2 DEF Listed, Procs
  <2> QED BY <2>2, <2>3, <2>4, <2>5
<1> QED BY <1>3, <1>4

\* A child writes the entry it has found (Mark, Tally, Add, Clear, Wipe).
LEMMA WriteSound ==
  ASSUME Sound, NEW k \in Conns, Mark(k) \/ Tally(k) \/ Add(k) \/ Clear(k) \/ Wipe(k)
  PROVE  Sound'
<1> USE DEF Sound
<1> DEFINE Entry == [ip : Addrs \cup {None}, fails : Nat]
<1>0. k \in Procs
  BY DEF Procs
<1>1. table \in [Entries -> Entry] /\ index \in [Conns -> Entries \cup {Beyond}]
      /\ seen \in [Conns -> Nat]
  BY DEF TypeOK
<1>2. CASE Mark(k)
  <2>1. /\ Goes(k, "mark", "tally") /\ table' = [table EXCEPT ![index[k]].ip = addr[k]]
        /\ UNCHANGED <<index, seen, quit, failed>>
    BY <1>2 DEF Mark
  <2>2. "mark" \in Working /\ "tally" \in Working
    BY DEF Working
  <2>3. /\ proc' \in [Procs -> Where] /\ UNCHANGED <<parent, addr>>
        /\ proc[k] = "mark" /\ proc'[k] = "tally" /\ addr[k] \in Addrs
        /\ \A q \in Procs \ {k} : proc'[q] = proc[q]
        /\ Addressed' /\ Waits'
    BY <2>1, <2>2, GoesEffect
  <2>4. index[k] \in Entries /\ addr[k] \in failed
    BY <2>3 DEF Held, Listed
  <2>5. table' \in [Entries -> Entry]
    BY <1>1, <2>1, <2>3
  <2>6. \A i \in Entries : table'[i].ip \in {table[i].ip, addr[k]}
    BY <1>1, <2>1, <2>4
  <2>7. TypeOK'
    BY <2>1, <2>3, <2>5 DEF TypeOK, parent
  <2>8. Held' /\ Listed'
    BY <2>1, <2>3, <2>4, <2>6 DEF Held, Listed, Procs
  <2> QED BY <2>3, <2>7, <2>8
<1>3. CASE Tally(k)
  <2>1. /\ Goes(k, "tally", "add") /\ seen' = [seen EXCEPT ![k] = table[index[k]].fails]
        /\ UNCHANGED <<index, table, quit, failed>>
    BY <1>3 DEF Tally
  <2>2. "tally" \in Working /\ "add" \in Working
    BY DEF Working
  <2>3. /\ proc' \in [Procs -> Where] /\ UNCHANGED <<parent, addr>>
        /\ proc[k] = "tally" /\ proc'[k] = "add" /\ addr[k] \in Addrs
        /\ \A q \in Procs \ {k} : proc'[q] = proc[q]
        /\ Addressed' /\ Waits'
    BY <2>1, <2>2, GoesEffect
  <2>4. index[k] \in Entries
    BY <2>3 DEF Held
  <2>5. seen' \in [Conns -> Nat]
    BY <1>1, <2>1, <2>4
  <2>7. TypeOK'
    BY <2>1, <2>3, <2>5 DEF TypeOK, parent
  <2>8. Held' /\ Listed'
    BY <2>1, <2>3 DEF Held, Listed, Procs
  <2> QED BY <2>3, <2>7, <2>8
<1>4. CASE Add(k)
  <2>1. /\ proc[k] = "add" /\ table' = [table EXCEPT ![index[k]].fails = seen[k] + 1]
        /\ index' = [index EXCEPT ![k] = Beyond] /\ seen' = [seen EXCEPT ![k] = 0]
        /\ Exit(k)
        /\ UNCHANGED <<quit, failed>>
    BY <1>4 DEF Add
  <2>2. /\ proc' \in [Procs -> Where] /\ addr' \in [Conns -> Addrs \cup {None}]
        /\ main' = main /\ count' = count /\ loaded' = loaded /\ client' = client
        /\ signal' \in BOOLEAN
        /\ proc'[k] \in {"gone", "zombie"}
        /\ \A q \in Procs \ {k} : proc'[q] = proc[q]
        /\ \A j \in Conns \ {k} : addr'[j] = addr[j]
        /\ Addressed' /\ Waits'
    BY <1>0, <2>1, ExitEffect
  <2>3. index' \in [Conns -> Entries \cup {Beyond}] /\ seen' \in [Conns -> Nat]
    BY <1>1, <2>1
  <2>4. table' \in [Entries -> Entry]
    <3>1. seen[k] + 1 \in Nat
      BY <1>1
    <3> QED BY <1>1, <2>1, <3>1
  <2>5. /\ \A i \in Entries : table'[i].ip = table[i].ip
        /\ \A j \in Conns \ {k} : index'[j] = index[j]
    BY <1>1, <2>1
  <2>6. TypeOK'
    BY <2>1, <2>2, <2>3, <2>4 DEF TypeOK
  <2>7. Held' /\ Listed'
    BY <2>1, <2>2, <2>5 DEF Held, Listed, Procs
  <2> QED BY <2>2, <2>6, <2>7
<1>5. CASE Clear(k)
  <2>1. /\ Goes(k, "clear", "wipe") /\ table' = [table EXCEPT ![index[k]].ip = None]
        /\ UNCHANGED <<index, seen, quit, failed>>
    BY <1>5 DEF Clear
  <2>2. "clear" \in Working /\ "wipe" \in Working
    BY DEF Working
  <2>3. /\ proc' \in [Procs -> Where] /\ UNCHANGED <<parent, addr>>
        /\ proc[k] = "clear" /\ proc'[k] = "wipe" /\ addr[k] \in Addrs
        /\ \A q \in Procs \ {k} : proc'[q] = proc[q]
        /\ Addressed' /\ Waits'
    BY <2>1, <2>2, GoesEffect
  <2>5. table' \in [Entries -> Entry]
    BY <1>1, <2>1
  <2>6. \A i \in Entries : table'[i].ip \in {table[i].ip, None}
    BY <1>1, <2>1
  <2>7. TypeOK'
    BY <2>1, <2>3, <2>5 DEF TypeOK, parent
  <2>8. Held' /\ Listed'
    BY <2>1, <2>3, <2>6 DEF Held, Listed, Procs
  <2> QED BY <2>3, <2>7, <2>8
<1>6. CASE Wipe(k)
  <2>1. /\ Goes(k, "wipe", "serve") /\ table' = [table EXCEPT ![index[k]].fails = 0]
        /\ index' = [index EXCEPT ![k] = Beyond]
        /\ UNCHANGED <<seen, quit, failed>>
    BY <1>6 DEF Wipe
  <2>2. "wipe" \in Working /\ "serve" \in Working
    BY DEF Working
  <2>3. /\ proc' \in [Procs -> Where] /\ UNCHANGED <<parent, addr>>
        /\ proc[k] = "wipe" /\ proc'[k] = "serve" /\ addr[k] \in Addrs
        /\ \A q \in Procs \ {k} : proc'[q] = proc[q]
        /\ Addressed' /\ Waits'
    BY <2>1, <2>2, GoesEffect
  <2>5. table' \in [Entries -> Entry] /\ index' \in [Conns -> Entries \cup {Beyond}]
    BY <1>1, <2>1
  <2>6. /\ \A i \in Entries : table'[i].ip = table[i].ip
        /\ \A j \in Conns \ {k} : index'[j] = index[j]
    BY <1>1, <2>1
  <2>7. TypeOK'
    BY <2>1, <2>3, <2>5 DEF TypeOK, parent
  <2>8. Held' /\ Listed'
    BY <2>1, <2>3, <2>6 DEF Held, Listed, Procs
  <2> QED BY <2>3, <2>7, <2>8
<1> QED BY <1>2, <1>3, <1>4, <1>5, <1>6

\* Processes that leave, http that listens or has had a request, and an archive that
\* fails (Leave, QuitSeen, ServiceDies, Relisten, Request, ArchiveError).
LEMMA LeaveSound ==
  ASSUME Sound,
         \/ \E p \in Procs : QuitSeen(p)
         \/ \E k \in Conns : Leave(k) \/ ArchiveError(k)
         \/ \E s \in Services : ServiceDies(s) \/ Relisten(s) \/ Request(s)
  PROVE  Sound'
<1> USE DEF Sound
<1>1. ASSUME NEW p \in Procs, QuitSeen(p) PROVE Sound'
  <2>1. /\ proc[p] # "backlog" /\ Exit(p) /\ UNCHANGED <<index, seen, failed, quit>>
        /\ table' = table \/ table' = [i \in Entries |-> Free]
    BY <1>1 DEF QuitSeen
  <2> QED BY <2>1, Ended
<1>2. ASSUME NEW k \in Conns, Leave(k) PROVE Sound'
  <2>1. proc[k] # "backlog" /\ Exit(k) /\ UNCHANGED <<ipbar, quit>> /\ k \in Procs
    BY <1>2 DEF Leave, Procs
  <2> QED BY <2>1, Ended DEF ipbar
<1>3. ASSUME NEW k \in Conns, ArchiveError(k) PROVE Sound'
  <2>1. quit' \in BOOLEAN /\ UNCHANGED <<parent, proc, addr, ipbar>>
    BY <1>3 DEF ArchiveError
  <2> QED BY <2>1 DEF TypeOK, Held, Addressed, Waits, Listed, parent, ipbar
<1>4. ASSUME NEW s \in Services, Relisten(s) \/ Request(s) PROVE Sound'
  <2>1. /\ \E w \in Serving : proc' = [proc EXCEPT ![s] = w]
        /\ UNCHANGED <<parent, addr, ipbar, quit>>
    BY <1>4 DEF Relisten, Request, Serving
  <2>2. proc' \in [Procs -> Where] /\ \A k \in Conns : proc'[k] = proc[k]
    BY <2>1 DEF TypeOK, Where, Serving, Procs, LifecycleAssumption
  <2>3. TypeOK'
    BY <2>1, <2>2 DEF TypeOK, parent, ipbar
  <2>4. Held' /\ Addressed' /\ Waits' /\ Listed'
    BY <2>1, <2>2 DEF Held, Addressed, Waits, Listed, parent, ipbar
  <2> QED BY <2>3, <2>4
<1>5. ASSUME NEW s \in Services, ServiceDies(s) PROVE Sound'
  <2>1. proc[s] # "backlog" /\ Exit(s) /\ UNCHANGED <<ipbar, quit>> /\ s \in Procs
    BY <1>5 DEF ServiceDies, Procs
  <2> QED BY <2>1, Ended DEF ipbar
<1> QED BY <1>1, <1>2, <1>3, <1>4, <1>5

\* Every step of the server (Next), and none.
LEMMA NextSound == Sound /\ [Next]_vars => Sound'
<1> SUFFICES ASSUME Sound, [Next]_vars PROVE Sound'
  OBVIOUS
<1>1. CASE Next
  <2>1. ASSUME NEW k \in Conns, Child(k) PROVE Sound'
    <3>1. k \in Procs
      BY DEF Procs
    <3>2. CASE CheckBar(k) \/ AuthFails(k) \/ AuthGood(k)
      BY <3>2, AuthSound
    <3>3. CASE Find(k, "fail", "mark") \/ Find(k, "good", "clear")
      BY <3>3, FindSound
    <3>4. CASE Mark(k) \/ Tally(k) \/ Add(k) \/ Clear(k) \/ Wipe(k)
      BY <3>4, WriteSound
    <3>5. CASE QuitSeen(k)
      BY <3>1, <3>5, LeaveSound
    <3> QED BY <2>1, <3>2, <3>3, <3>4, <3>5 DEF Child
  <2>2. ASSUME NEW s \in Services, QuitSeen(s) PROVE Sound'
    <3>1. s \in Procs
      BY DEF Procs
    <3> QED BY <2>2, <3>1, LeaveSound
  <2>3. ASSUME NEW s \in Http, Relisten(s) \/ Request(s) PROVE Sound'
    BY <2>3, LeaveSound DEF LifecycleAssumption
  <2> QED BY <1>1, <2>1, <2>2, <2>3, MainSound, LeaveSound DEF Next
<1>2. CASE UNCHANGED vars
  BY <1>2 DEF vars, parent, ipbar, Sound, TypeOK, Held, Addressed, Waits, Listed
<1> QED BY <1>1, <1>2

\* Sound is an invariant.
LEMMA AlwaysSound == Spec => []Sound
BY InitSound, NextSound, PTL DEF Spec

\* Every variable of the server's processes keeps its type.
THEOREM TypeCorrect == Spec => []TypeOK
<1>1. Sound => TypeOK
  BY DEF Sound
<1> QED BY <1>1, AlwaysSound, PTL

\* Only an address that failed to authenticate is ever barred, whatever the children do
\* to one entry at once (ipbar_add_fail, ipbar_clear_entry).
THEOREM OnlyFailedAreBarred == Spec => []OnlyFailedBarred
<1>1. Sound => OnlyFailedBarred
  <2> SUFFICES ASSUME Sound, NEW a \in Addrs, Barred(a) PROVE a \in failed
    BY DEF OnlyFailedBarred
  <2>1. PICK i \in Entries : table[i].ip = a
    BY BarredListed
  <2> QED BY <2>1 DEF Sound, Listed, LifecycleAssumption
<1> QED BY <1>1, AlwaysSound, PTL

-----------------------------------------------------------------------------
(* The count.                                                               *)

\* The children main has yet to reap.
Kids == {k \in Conns : proc[k] \in Working \cup {"zombie"}}

Manned == \A s \in Services : proc[s] \in Serving

\* What main has counted: itself, and the child it is about to fork.
Self == IF main = "fork" THEN 2 ELSE 1

\* Every child not reaped is counted, and stays so if main stores what it has loaded
\* of the count.  The reaping of a service takes one off that was never counted, so
\* the services must live.
Counted ==
  Manned => /\ Cardinality(Kids) + Self <= count
            /\ main = "count" => Cardinality(Kids) + 1 <= loaded

\* The child of a connection is no service.
Apart == \A k \in Conns : proc[k] \notin Serving

\* A step that only ends and forks children keeps them apart.
LEMMA StayApart ==
  ASSUME Apart,
         \A k \in Conns : proc'[k] = proc[k] \/ proc'[k] \in Working \cup {"backlog", "zombie", "gone"}
  PROVE  Apart'
BY DEF Apart, Serving, Working

\* There are finitely many children.
LEMMA KidsFinite == IsFiniteSet(Kids) /\ Cardinality(Kids) \in Nat
<1>1. Kids \in SUBSET Conns
  BY DEF Kids
<1> QED BY <1>1, FS_Subset, FS_CardinalityType DEF LifecycleAssumption

\* The same of the state after a step.
LEMMA KidsFiniteNext == IsFiniteSet(Kids') /\ Cardinality(Kids') \in Nat
<1>1. Kids' \in SUBSET Conns
  BY DEF Kids
<1> QED BY <1>1, FS_Subset, FS_CardinalityType DEF LifecycleAssumption

\* A step of others that makes no child keeps the count good.
LEMMA NoNewKid ==
  ASSUME TypeOK, Counted, Manned' => Manned, Kids' \subseteq Kids,
         count' = count, loaded' = loaded, main' = main
  PROVE  Counted'
<1>1. Cardinality(Kids') <= Cardinality(Kids)
  BY KidsFinite, FS_Subset
<1> QED BY <1>1, KidsFinite, KidsFiniteNext DEF Counted, Self, TypeOK

\* The server starts with main alone (Init).
LEMMA InitCounted == Init => Counted /\ Apart
<1> SUFFICES ASSUME Init PROVE Counted /\ Apart
  OBVIOUS
<1>1. \A k \in Conns : proc[k] = "none"
  BY DEF Init, Procs, LifecycleAssumption
<1>2. Kids = {}
  BY <1>1 DEF Kids, Working
<1> QED BY <1>1, <1>2, FS_EmptySet DEF Counted, Self, Init, Apart, Serving

\* main accepts, counts, forks, and is told of deaths (Accept, CountUp, Fork,
\* AcceptFails, ChildDied).
LEMMA MainCounted ==
  ASSUME Sound, Counted, Apart, Main \/ AcceptFails \/ Signals
  PROVE  Counted' /\ Apart'
<1> USE DEF Sound
<1>0. /\ Cardinality(Kids) \in Nat /\ Cardinality(Kids') \in Nat
      /\ count \in Int /\ loaded \in Int
  BY KidsFinite, KidsFiniteNext DEF TypeOK
<1>1. ASSUME NEW k \in Conns, Accept(k) PROVE Counted' /\ Apart'
  <2>1. main = "accept" /\ main' = "count" /\ loaded' = count /\ count' = count /\ proc' = proc
    BY <1>1 DEF Accept
  <2>2. Kids' = Kids /\ Manned' = Manned
    BY <2>1 DEF Kids, Manned
  <2> QED BY <1>0, <2>1, <2>2 DEF Counted, Self, Apart
<1>2. ASSUME CountUp PROVE Counted' /\ Apart'
  <2>1. main = "count" /\ main' = "fork" /\ count' = loaded + 1 /\ proc' = proc
    BY <1>2 DEF CountUp
  <2>2. Kids' = Kids /\ Manned' = Manned
    BY <2>1 DEF Kids, Manned
  <2> QED BY <1>0, <2>1, <2>2 DEF Counted, Self, Apart
<1>3. ASSUME Fork PROVE Counted' /\ Apart'
  <2>1. main = "fork" /\ main' \in {"accept", "ended"} /\ count' = count
    BY <1>3 DEF Fork
  <2>2. client \in Conns
    BY <2>1 DEF Waits
  <2>3. \A p \in Procs : \/ proc'[p] = proc[p] \/ proc'[p] = "gone"
                         \/ (p = client /\ proc'[p] = "bar")
    <3> TAKE p \in Procs
    <3>1. proc'[p] = IF p = client THEN "bar" ELSE IF quit THEN Closed(p) ELSE proc[p]
      BY <1>3 DEF Fork
    <3>2. Closed(p) = proc[p] \/ Closed(p) = "gone"
      BY DEF Closed
    <3> QED BY <3>1, <3>2
  <2>4. Kids' \subseteq Kids \cup {client}
    BY <2>3 DEF Kids, Procs, Working
  <2>5. /\ IsFiniteSet(Kids \cup {client}) /\ Cardinality(Kids \cup {client}) \in Nat
        /\ Cardinality(Kids \cup {client}) <= Cardinality(Kids) + 1
    <3>1. /\ IsFiniteSet(Kids \cup {client})
          /\ Cardinality(Kids \cup {client}) =
               IF client \in Kids THEN Cardinality(Kids) ELSE Cardinality(Kids) + 1
      BY KidsFinite, FS_AddElement
    <3> QED BY <1>0, <3>1
  <2>6. Cardinality(Kids') <= Cardinality(Kids \cup {client})
    BY <2>4, <2>5, FS_Subset
  <2>7. Manned' => Manned
    BY <2>2, <2>3 DEF Manned, Serving, Procs, LifecycleAssumption
  <2>8. ~Manned' \/ (Cardinality(Kids') + 1 <= count' /\ Self' = 1)
    BY <1>0, <2>1, <2>5, <2>6, <2>7 DEF Counted, Self
  <2>9. Apart'
    BY <2>3, StayApart DEF Procs, Working
  <2> QED BY <2>1, <2>8, <2>9 DEF Counted
<1>4. ASSUME AcceptFails PROVE Counted' /\ Apart'
  <2>1. main = "accept" /\ main' = "ended" /\ count' = count
    BY <1>4 DEF AcceptFails
  <2>2. \A p \in Procs : proc'[p] = proc[p] \/ proc'[p] = "gone"
    BY <1>4 DEF AcceptFails, Closed
  <2>3. Kids' \subseteq Kids
    BY <2>2 DEF Kids, Procs, Working
  <2>4. Cardinality(Kids') <= Cardinality(Kids)
    BY <2>3, KidsFinite, FS_Subset
  <2>5. Manned' => Manned
    BY <2>2 DEF Manned, Serving, Procs
  <2>6. Apart'
    BY <2>2, StayApart DEF Procs
  <2> QED BY <1>0, <2>1, <2>4, <2>5, <2>6 DEF Counted, Self
<1>5. ASSUME NEW p \in Procs, ChildDied(p) PROVE Counted' /\ Apart'
  <2>1. /\ proc[p] = "zombie" /\ proc' = [proc EXCEPT ![p] = "gone"] /\ count' = count - 1
        /\ main' = main /\ loaded' = loaded
    BY <1>5 DEF ChildDied
  <2>2. proc'[p] = "gone" /\ \A q \in Procs \ {p} : proc'[q] = proc[q]
    BY <2>1 DEF TypeOK
  <2>3. Apart'
    BY <2>2, StayApart DEF Procs
  <2>4. CASE p \in Conns
    <3>1. Kids' = Kids \ {p} /\ p \in Kids
      BY <2>1, <2>2, <2>4 DEF Kids, Procs, Working
    <3>2. Cardinality(Kids') = Cardinality(Kids) - 1
      BY <3>1, KidsFinite, FS_RemoveElement
    <3>3. Manned' => Manned
      BY <2>2, <2>4 DEF Manned, Procs, LifecycleAssumption
    <3> QED BY <1>0, <2>1, <2>3, <3>2, <3>3 DEF Counted, Self
  <2>5. CASE p \in Services
    <3>1. ~Manned'
      BY <2>2, <2>5 DEF Manned, Serving
    <3> QED BY <2>3, <3>1 DEF Counted
  <2> QED BY <2>4, <2>5 DEF Procs
<1> QED BY <1>1, <1>2, <1>3, <1>4, <1>5 DEF Main, Signals

\* A process that leaves becomes no child (Exit); one that goes on was one (Goes).
LEMMA ExitCounted ==
  ASSUME Sound, Counted, Apart, NEW p \in Procs, proc[p] \in Working \cup Serving, Exit(p)
  PROVE  Counted' /\ Apart'
<1>0. proc[p] # "backlog"
  BY DEF Working, Serving
<1>1. /\ main' = main /\ count' = count /\ loaded' = loaded
      /\ proc'[p] \in {"gone", "zombie"}
      /\ \A q \in Procs \ {p} : proc'[q] = proc[q]
  BY <1>0, ExitEffect
<1>2. Manned' => Manned
  BY <1>1 DEF Manned, Serving, Procs
<1>3. Kids' \subseteq Kids
  BY <1>1 DEF Kids, Procs, Apart
<1>4. Apart'
  BY <1>1, StayApart DEF Procs
<1> QED BY <1>1, <1>2, <1>3, <1>4, NoNewKid DEF Sound

\* A child that goes from one working place to another leaves count and children as they are.
LEMMA GoesCounted ==
  ASSUME Sound, Counted, Apart, NEW k \in Conns, NEW from \in Working, NEW to \in Working, Goes(k, from, to)
  PROVE  Counted' /\ Apart'
<1>1. /\ UNCHANGED <<parent, addr>> /\ proc[k] = from /\ proc'[k] = to
      /\ \A q \in Procs \ {k} : proc'[q] = proc[q]
  BY GoesEffect
<1>2. Manned' => Manned
  BY <1>1 DEF Manned, Procs, LifecycleAssumption
<1>3. Kids' \subseteq Kids
  BY <1>1 DEF Kids, Procs
<1>4. Apart'
  BY <1>1, StayApart DEF Procs
<1> QED BY <1>1, <1>2, <1>3, <1>4, NoNewKid DEF Sound, parent

\* Every step keeps the count good (Next), and none.
LEMMA NextCounted == Sound /\ Counted /\ Apart /\ [Next]_vars => Counted' /\ Apart'
<1> SUFFICES ASSUME Sound, Counted, Apart, [Next]_vars PROVE Counted' /\ Apart'
  OBVIOUS
<1>1. ASSUME NEW a \in Addrs, Arrive(a) PROVE Counted' /\ Apart'
  <2> DEFINE k == CHOOSE u \in Unused : TRUE
  <2>1. k \in Conns /\ proc[k] = "none"
    BY <1>1 DEF Arrive, Unused
  <2>2. proc' = [proc EXCEPT ![k] = "backlog"] /\ UNCHANGED parent
    BY <1>1 DEF Arrive
  <2> HIDE DEF k
  <2>3. \A q \in Procs : q # k => proc'[q] = proc[q]
    BY <2>2 DEF Sound, TypeOK
  <2>4. proc'[k] = "backlog"
    BY <2>1, <2>2 DEF Sound, TypeOK, Procs
  <2>5. Manned' => Manned
    BY <2>1, <2>3 DEF Manned, Procs, LifecycleAssumption
  <2>6. Kids' \subseteq Kids
    BY <2>3, <2>4 DEF Kids, Procs, Working
  <2>7. Apart'
    BY <2>3, <2>4, StayApart DEF Procs
  <2> QED BY <2>2, <2>5, <2>6, <2>7, NoNewKid DEF Sound, parent
<1>2. CASE Main \/ AcceptFails \/ Signals
  BY <1>2, MainCounted
<1>3. ASSUME NEW k \in Conns, NEW from \in Working, NEW to \in Working,
             Exit(k) \/ Goes(k, from, to), proc[k] = from
      PROVE  Counted' /\ Apart'
  <2>1. k \in Procs
    BY DEF Procs
  <2> QED BY <1>3, <2>1, ExitCounted, GoesCounted
<1>4. ASSUME NEW k \in Conns, Child(k) \/ Leave(k) PROVE Counted' /\ Apart'
  <2>1. \E from, to \in Working : proc[k] = from /\ (Exit(k) \/ Goes(k, from, to))
    <3>1. CASE CheckBar(k) \/ AuthFails(k) \/ AuthGood(k)
      BY <3>1 DEF CheckBar, AuthFails, AuthGood, Goes, Working
    <3>2. CASE Find(k, "fail", "mark") \/ Find(k, "good", "clear")
      BY <3>2 DEF Find, Working
    <3>3. CASE Mark(k) \/ Tally(k) \/ Add(k)
      BY <3>3 DEF Mark, Tally, Add, Goes, Working
    <3>4. CASE Clear(k) \/ Wipe(k)
      BY <3>4 DEF Clear, Wipe, Goes, Working
    <3>5. CASE Leave(k)
      BY <3>5 DEF Leave, Working
    <3>6. CASE QuitSeen(k)
      BY <3>6 DEF QuitSeen, Working, Apart, Serving
    <3> QED BY <1>4, <3>1, <3>2, <3>3, <3>4, <3>5, <3>6 DEF Child
  <2> QED BY <1>3, <2>1
<1>5. ASSUME NEW s \in Services, QuitSeen(s) \/ ServiceDies(s) PROVE Counted' /\ Apart'
  <2>1. s \in Procs /\ Exit(s)
    BY <1>5 DEF QuitSeen, ServiceDies, Procs
  <2>2. proc[s] \in Working \cup Serving
    BY <1>5 DEF QuitSeen, ServiceDies, Working, Serving
  <2> QED BY <2>1, <2>2, ExitCounted
<1>6. ASSUME NEW s \in Http, Relisten(s) \/ Request(s) PROVE Counted' /\ Apart'
  <2>0. s \in Services
    BY DEF LifecycleAssumption
  <2>1. /\ proc[s] \in Serving /\ UNCHANGED parent
        /\ \E w \in Serving : proc' = [proc EXCEPT ![s] = w]
    BY <1>6 DEF Relisten, Request, Serving
  <2>2. \A k \in Conns : proc'[k] = proc[k]
    BY <2>0, <2>1 DEF Sound, TypeOK, Procs, LifecycleAssumption
  <2>3. Kids' = Kids /\ Apart'
    BY <2>2 DEF Kids, Apart
  <2>4. Manned' => Manned
    BY <2>1 DEF Manned, Sound, TypeOK, Procs
  <2> QED BY <2>1, <2>3, <2>4, NoNewKid DEF Sound, parent
<1>7. CASE UNCHANGED <<parent, proc>>
  <2>1. Kids' = Kids /\ Manned' = Manned /\ Apart'
    BY <1>7 DEF Kids, Manned, Apart
  <2> QED BY <1>7, <2>1, NoNewKid DEF Sound, parent
<1>8. CASE Next
  <2>1. ASSUME NEW k \in Conns, ArchiveError(k) PROVE UNCHANGED <<parent, proc>>
    BY <2>1 DEF ArchiveError
  <2> QED BY <1>1, <1>2, <1>4, <1>5, <1>6, <1>7, <1>8, <2>1 DEF Next
<1> QED BY <1>7, <1>8 DEF vars

\* While every service lives, main counts itself and every child it has, through merged
\* signals, deaths before the next fork and an increment that a death interrupts
\* (num_active_processes).
THEOREM EveryChildIsCounted == Spec => []CountsEveryChild
<1>1. Sound /\ Counted => CountsEveryChild
  <2> SUFFICES ASSUME Sound, Counted, Manned PROVE Cardinality(Living) + 1 <= count
    BY DEF CountsEveryChild, Manned
  <2>1. Living \subseteq Kids
    BY DEF Living, Kids
  <2>2. Cardinality(Living) <= Cardinality(Kids) /\ Cardinality(Living) \in Nat
    BY <2>1, KidsFinite, FS_Subset, FS_CardinalityType
  <2> QED BY <2>2, KidsFinite DEF Counted, Self, Sound, TypeOK
<1>2. Spec => [](Counted /\ Apart)
  BY InitCounted, NextCounted, AlwaysSound, PTL DEF Spec
<1> QED BY <1>1, <1>2, AlwaysSound, PTL

-----------------------------------------------------------------------------
(* The key exchange, as it is in the server.                                 *)

HIDE LifecycleAssumption

Places == {"none", "queued", "forked", "reading", "given", "gone"}

\* Closing the port drops the connections that wait there (Dropped).
LEMMA DroppedType == ASSUME exch \in [Exchanges -> Places] PROVE KX!Dropped \in [Exchanges -> Places]
BY DEF KX!Dropped, Places

\* A turn of the service keeps the types (Turn).
LEMMA TurnType ==
  ASSUME KX!TypeOK, KX!Turn
  PROVE  KX!TypeOK'
<1> USE DEF KX!On, KX!Off, KX!Unset
<1>1. exch \in [Exchanges -> Places] /\ KX!Dropped \in [Exchanges -> Places]
  BY DroppedType DEF KX!TypeOK, Places
<1>2. CASE KX!Top \/ KX!Copy \/ KX!Skip \/ KX!Clock
  BY <1>2 DEF KX!TypeOK, KX!Top, KX!Copy, KX!Skip, KX!Clock, KX!window
<1>3. CASE KX!Listen \/ KX!Announce \/ KX!ListenFails \/ KX!BindFails
  <2>1. port' \in BOOLEAN /\ late' \in BOOLEAN /\ active' \in BOOLEAN
    BY <1>3, Zenon DEF KX!TypeOK, KX!Listen, KX!Announce, KX!ListenFails, KX!BindFails, KX!window
  <2>2. turn' \in {"announce", "clock", "failed"} /\ UNCHANGED <<kx, enable, exch, closing, edits>>
    BY <1>3 DEF KX!Listen, KX!Announce, KX!ListenFails, KX!BindFails
  <2> QED BY <2>1, <2>2 DEF KX!TypeOK
<1>4. CASE KX!End \/ KX!Hide \/ KX!Close \/ KX!Reset
  <2>1. port' \in BOOLEAN /\ late' \in BOOLEAN /\ active' \in BOOLEAN
    BY <1>4, Zenon DEF KX!TypeOK, KX!End, KX!Hide, KX!Close, KX!Reset
  <2>2. exch' \in [Exchanges -> Places]
    BY <1>1, <1>4 DEF KX!End, KX!Hide, KX!Close, KX!Reset
  <2>3. /\ turn' \in {"ended", "close", "reset", "loop"} /\ enable' \in {enable, KX!Off}
        /\ UNCHANGED <<kx, closing, edits>>
    BY <1>4 DEF KX!End, KX!Hide, KX!Close, KX!Reset
  <2> QED BY <2>1, <2>2, <2>3 DEF KX!TypeOK, Places
<1>5. CASE KX!Suspend
  <2>1. port' \in BOOLEAN
    BY <1>5 DEF KX!Suspend, KX!TypeOK
  <2>2. exch' \in [Exchanges -> Places]
    BY <1>1, <1>5 DEF KX!Suspend
  <2> QED BY <1>5, <2>1, <2>2 DEF KX!Suspend, KX!TypeOK, Places
<1>6. CASE KX!Accept
  <2>1. exch' \in [Exchanges -> Places]
    BY <1>1, <1>6 DEF KX!Accept, Places
  <2> QED BY <1>6, <2>1 DEF KX!Accept, KX!TypeOK, Places, KX!window
<1> QED BY <1>2, <1>3, <1>4, <1>5, <1>6 DEF KX!Turn

\* Every step of the key exchange keeps its types (Next of KeyExchange).
LEMMA KeysType ==
  ASSUME KX!TypeOK, [KX!Next]_(KX!vars)
  PROVE  KX!TypeOK'
<1> USE DEF KX!On, KX!Off, KX!Unset
<1>1. CASE KX!Turn
  BY <1>1, TurnType
<1>2. ASSUME NEW x \in Exchanges, KX!Arrive(x) \/ KX!Check(x) \/ KX!Answer(x) PROVE KX!TypeOK'
  <2>1. exch' \in [Exchanges -> Places]
    BY <1>2 DEF KX!TypeOK, KX!Arrive, KX!Check, KX!Answer, Places
  <2>2. UNCHANGED <<turn, kx, enable, port, late, active, closing, edits>>
    BY <1>2 DEF KX!Arrive, KX!Check, KX!Answer, KX!window
  <2> QED BY <2>1, <2>2 DEF KX!TypeOK, Places
<1>3. ASSUME NEW v \in {KX!On, KX!Off}, KX!Settings(v) PROVE KX!TypeOK'
  <2>1. edits' \in 0..MaxEdits /\ enable' = v
    BY <1>3, ServerAssumption DEF KX!TypeOK, KX!Settings, KX!KeyExchangeAssumption
  <2>2. UNCHANGED <<turn, kx, port, late, active, exch, closing>>
    BY <1>3 DEF KX!Settings, KX!window
  <2> QED BY <2>1, <2>2 DEF KX!TypeOK
<1>4. CASE KX!Pass
  BY <1>4 DEF KX!TypeOK, KX!Pass
<1>6. CASE KX!Quit
  BY <1>6 DEF KX!TypeOK, KX!Quit, KX!window
<1>5. CASE UNCHANGED KX!vars
  BY <1>5 DEF KX!TypeOK, KX!vars, KX!window
<1> QED BY <1>1, <1>2, <1>3, <1>4, <1>5, <1>6 DEF KX!Next

\* The key exchange starts with its types (Init of KeyExchange).
LEMMA KeysInit == ASSUME KX!Init PROVE KX!TypeOK
<1> USE DEF KX!On, KX!Off, KX!Unset
<1>1. port \in BOOLEAN /\ late \in BOOLEAN /\ active \in BOOLEAN /\ closing \in BOOLEAN
  BY DEF KX!Init
<1>2. exch \in [Exchanges -> Places] /\ edits \in 0..MaxEdits
  BY ServerAssumption DEF KX!Init, Places, KX!KeyExchangeAssumption
<1> QED BY <1>1, <1>2 DEF KX!Init, KX!TypeOK, Places

\* The note is removed once more after close (jc_keyexchange), when nothing is open.
Shown == KX!OpenIsShown /\ (turn = "reset" => ~port)

\* No step opens the port but the one before it is shown, and none stops showing it but
\* the one before it is closed (kx_active).
LEMMA KeysShown ==
  ASSUME Shown, [KX!Next]_(KX!vars)
  PROVE  Shown'
<1> USE DEF Shown, KX!OpenIsShown, KX!window
<1>1. CASE KX!Turn
  <2>1. CASE KX!Top \/ KX!Copy \/ KX!Skip \/ KX!Accept \/ KX!Clock
    <3>1. UNCHANGED <<port, active>> /\ turn \notin {"announce", "close"}
      BY <2>1 DEF KX!Top, KX!Copy, KX!Skip, KX!Accept, KX!Clock
    <3> QED BY <2>1, <3>1 DEF KX!Top, KX!Copy, KX!Skip, KX!Accept, KX!Clock
  <2>2. CASE KX!Announce \/ KX!Hide
    BY <2>2 DEF KX!Announce, KX!Hide
  <2>3. CASE KX!Listen \/ KX!ListenFails \/ KX!BindFails
    BY <2>3 DEF KX!Listen, KX!ListenFails, KX!BindFails
  <2>4. CASE KX!End \/ KX!Close
    BY <2>4 DEF KX!End, KX!Close
  <2>5. CASE KX!Suspend
    BY <2>5 DEF KX!Suspend
  <2>6. CASE KX!Reset
    BY <2>6 DEF KX!Reset
  <2> QED BY <1>1, <2>1, <2>2, <2>3, <2>4, <2>5, <2>6 DEF KX!Turn
<1>2. CASE UNCHANGED <<turn, port, active>>
  BY <1>2
<1>3. ASSUME NEW x \in Exchanges, KX!Arrive(x) \/ KX!Check(x) \/ KX!Answer(x)
      PROVE  UNCHANGED <<turn, port, active>>
  BY <1>3 DEF KX!Arrive, KX!Check, KX!Answer
<1>4. ASSUME NEW v, KX!Settings(v) PROVE UNCHANGED <<turn, port, active>>
  BY <1>4 DEF KX!Settings
<1>5. KX!Pass \/ KX!Quit \/ UNCHANGED KX!vars => UNCHANGED <<turn, port, active>>
  BY DEF KX!Pass, KX!Quit, KX!vars
<1> QED BY <1>1, <1>2, <1>3, <1>4, <1>5 DEF KX!Next

-----------------------------------------------------------------------------
(* The three parts together.  Server and the proofs instantiate Sensors under  *)
(* two names; the first lemma says that both are one.                         *)

SnP == INSTANCE SensorsProofs

\* The sensors of Server are the ones their proofs are about.
LEMMA SameSensors ==
  /\ Sn!Init = SnP!Init /\ Sn!Next = SnP!Next /\ Sn!vars = SnP!vars
  /\ Sn!TypeOK = SnP!TypeOK /\ Sn!SensorsCurrent = SnP!SensorsCurrent
  /\ Sn!SensorsAssumption = SnP!SensorsAssumption
<1> USE DEF Sn!writers, SnP!writers, Sn!children, SnP!children, Sn!bounds, SnP!bounds,
            Sn!Sens, SnP!Sens, Sn!AllOff, SnP!AllOff, Sn!Nothing, SnP!Nothing
<1>1. Sn!Init = SnP!Init /\ Sn!vars = SnP!vars
  BY DEF Sn!Init, SnP!Init, Sn!vars, SnP!vars
<1>2. ASSUME NEW w PROVE Sn!Writer(w) = SnP!Writer(w)
  BY DEF Sn!Writer, SnP!Writer, Sn!Set, SnP!Set, Sn!Load, SnP!Load, Sn!Store, SnP!Store
<1>3. ASSUME NEW c PROVE Sn!Child(c) = SnP!Child(c)
  BY DEF Sn!Child, SnP!Child, Sn!Poll, SnP!Poll, Sn!CopyOne, SnP!CopyOne, Sn!Send, SnP!Send
<1>4. Sn!Next = SnP!Next
  BY <1>2, <1>3 DEF Sn!Next, SnP!Next, Sn!Mark, SnP!Mark, Sn!Receive, SnP!Receive,
     Sn!Connect, SnP!Connect, Sn!Disconnect, SnP!Disconnect
<1>5. Sn!SensorsAssumption = SnP!SensorsAssumption
  BY DEF Sn!SensorsAssumption, SnP!SensorsAssumption, Sn!IsFiniteSet, SnP!IsFiniteSet
<1>6. Sn!TypeOK = SnP!TypeOK
  BY Zenon DEF Sn!TypeOK, SnP!TypeOK
<1>7. Sn!SensorsCurrent = SnP!SensorsCurrent
  BY DEF Sn!SensorsCurrent, SnP!SensorsCurrent, Sn!Rest, SnP!Rest, Sn!Excused, SnP!Excused
<1> QED BY <1>1, <1>4, <1>5, <1>6, <1>7

\* A behaviour of the server makes steps of its key exchange (KeyStep) and is one of
\* its sensors (SensorStep): the other steps leave their variables alone.
LEMMA ServerHasParts == ServerSpec => KX!Init /\ [][KX!Next]_(KX!vars) /\ SnP!Spec
<1>1. ServerInit => KX!Init /\ SnP!Init
  BY SameSensors DEF ServerInit
<1>2. UNCHANGED keys => UNCHANGED KX!vars
  BY DEF keys, KX!vars, KX!window
<1>3. UNCHANGED sensors => UNCHANGED Sn!vars
  BY DEF sensors, Sn!vars, Sn!writers, Sn!children, Sn!bounds
<1>4. [ServerNext]_serverVars => [KX!Next]_(KX!vars) /\ [Sn!Next]_(Sn!vars)
  BY <1>2, <1>3 DEF ServerNext, ProcessStep, KeyStep, SensorStep, serverVars
<1>5. [ServerNext]_serverVars => [KX!Next]_(KX!vars) /\ [SnP!Next]_(SnP!vars)
  <2>1. Sn!vars' = SnP!vars'
    BY DEF Sn!vars, SnP!vars,
       Sn!writers, SnP!writers, Sn!children, SnP!children, Sn!bounds, SnP!bounds
  <2> QED BY <1>4, <2>1, SameSensors
<1> QED BY <1>1, <1>5, PTL DEF ServerSpec, SnP!Spec

\* The variables of the key exchange and of the sensors keep their types in the
\* whole server.
THEOREM PartsCorrect == ServerSpec => []PartsTypeOK
<1>1. SnP!SensorsAssumption
  BY ServerAssumption, SameSensors
<1>2. KX!Init => KX!TypeOK
  BY KeysInit
<1>3. KX!TypeOK /\ [KX!Next]_(KX!vars) => KX!TypeOK'
  BY KeysType
<1>4. SnP!Spec => []SnP!TypeOK
  BY <1>1, SnP!TypeCorrect
<1>5. KX!TypeOK /\ SnP!TypeOK => PartsTypeOK
  BY SameSensors DEF PartsTypeOK
<1> QED BY <1>2, <1>3, <1>4, <1>5, ServerHasParts, PTL

\* In the whole server, the second port is open only while the state it sends says so
\* or its process is between listen and that note or between its removal and close, for
\* any number of exchanges and whatever consoles write (kx_active).
THEOREM OpenWindowIsShown == ServerSpec => []OpenIsShown
<1>1. KX!Init => Shown
  BY DEF KX!Init, Shown, KX!OpenIsShown
<1>2. Shown /\ [KX!Next]_(KX!vars) => Shown'
  BY KeysShown
<1>3. Shown => OpenIsShown
  BY DEF Shown, OpenIsShown
<1> QED BY <1>1, <1>2, <1>3, ServerHasParts, PTL

\* In the whole server, a client at rest has the sensors as they are unless the
\* counter misled its child (poll_sensor_change).
THEOREM ClientsAreCurrent == ServerSpec => []SensorsCurrent
<1>1. SnP!SensorsAssumption
  BY ServerAssumption, SameSensors
<1>2. SnP!Spec => []SnP!SensorsCurrent
  BY <1>1, SnP!ClientsAreCurrent
<1>3. SnP!SensorsCurrent => SensorsCurrent
  BY SameSensors DEF SensorsCurrent
<1> QED BY <1>2, <1>3, ServerHasParts, PTL

=============================================================================
