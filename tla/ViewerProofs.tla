---------------------------- MODULE ViewerProofs ----------------------------
(***************************************************************************)
(* Proofs about Viewer, for any cameras, any room in the two directions and   *)
(* any number of events.                                                     *)
(*                                                                         *)
(* Five invariants, each resting on those before it: Sound, the types and    *)
(* what lies in the two directions; Copying, that the child copies the one    *)
(* answer it is about to write; Decoding, what the slave was given;       *)
(* Conversing, that viewer and child agree about the answer that is expected; *)
(* Queueing, how much is on its way to the child when requests are made one   *)
(* at a time.  The last two speak of a connection on which nothing slipped    *)
(* (Steady): what slipped is made good by the retry alone.                   *)
(***************************************************************************)
EXTENDS Viewer, SequenceTheorems, FiniteSetTheorems, TLAPS

-----------------------------------------------------------------------------
(* Sequences, and what the writers do with them.                             *)

\* A sequence behind another.
LEMMA Joined ==
  ASSUME NEW S, NEW q \in Seq(S), NEW r \in Seq(S)
  PROVE  /\ q \o r \in Seq(S) /\ Len(q \o r) = Len(q) + Len(r)
         /\ \A i \in 1..Len(q) : (q \o r)[i] = q[i]
         /\ \A i \in 1..Len(r) : (q \o r)[Len(q) + i] = r[i]
OBVIOUS

\* What a read leaves.
LEMMA Beheaded ==
  ASSUME NEW S, NEW q \in Seq(S), q # <<>>
  PROVE  /\ Len(q) \in Nat \ {0} /\ Head(q) = q[1] /\ Head(q) \in S
         /\ Tail(q) \in Seq(S) /\ Len(Tail(q)) = Len(q) - 1
         /\ \A i \in 1..(Len(q) - 1) : Tail(q)[i] = q[i + 1]
OBVIOUS

\* Reading the first of two sequences is reading both.
LEMMA BeheadedJoin ==
  ASSUME NEW S, NEW q \in Seq(S), NEW r \in Seq(S), q # <<>>
  PROVE  /\ q \o r # <<>> /\ Head(q \o r) = Head(q) /\ (q \o r)[1] = Head(q)
         /\ Tail(q) \o r = Tail(q \o r)
<1>1. /\ q \o r \in Seq(S) /\ Len(q \o r) = Len(q) + Len(r)
      /\ \A i \in 1..Len(q) : (q \o r)[i] = q[i]
      /\ \A i \in 1..Len(r) : (q \o r)[Len(q) + i] = r[i]
  BY Joined
<1>2. /\ Len(q) \in Nat \ {0} /\ Head(q) = q[1] /\ Tail(q) \in Seq(S) /\ Len(Tail(q)) = Len(q) - 1
      /\ \A i \in 1..(Len(q) - 1) : Tail(q)[i] = q[i + 1]
  BY Beheaded
<1>3. q \o r # <<>> /\ Head(q \o r) = Head(q) /\ (q \o r)[1] = Head(q)
  BY <1>1, <1>2
<1> DEFINE a == Tail(q) \o r
           b == Tail(q \o r)
<1>4. /\ b \in Seq(S) /\ Len(b) = Len(q \o r) - 1
      /\ \A i \in 1..(Len(q \o r) - 1) : b[i] = (q \o r)[i + 1]
  BY <1>1, <1>3, Beheaded
<1>5. /\ a \in Seq(S) /\ Len(a) = Len(Tail(q)) + Len(r)
      /\ \A i \in 1..Len(Tail(q)) : a[i] = Tail(q)[i]
      /\ \A i \in 1..Len(r) : a[Len(Tail(q)) + i] = r[i]
  BY <1>2, Joined
<1> HIDE DEF a, b
<1>6. Len(a) = Len(b) /\ Len(r) \in Nat
  BY <1>1, <1>2, <1>4, <1>5
<1>7. ASSUME NEW i \in 1..Len(a) PROVE a[i] = b[i]
  <2>1. CASE i <= Len(q) - 1
    BY <1>1, <1>2, <1>4, <1>5, <1>6, <2>1
  <2>2. CASE i > Len(q) - 1
    <3>1. i - (Len(q) - 1) \in 1..Len(r)
      BY <1>2, <1>5, <1>6, <2>2
    <3>2. a[i] = r[i - (Len(q) - 1)]
      BY <1>2, <1>5, <3>1
    <3>3. b[i] = (q \o r)[i + 1]
      BY <1>4, <1>6
    <3>4. (q \o r)[Len(q) + (i - (Len(q) - 1))] = r[i - (Len(q) - 1)]
      BY <1>1, <3>1
    <3>5. Len(q) + (i - (Len(q) - 1)) = i + 1
      BY <1>2
    <3> QED BY <3>2, <3>3, <3>4, <3>5
  <2> QED BY <1>2, <2>1, <2>2
<1>8. a = b
  BY <1>4, <1>5, <1>6, <1>7, SeqEqual
<1> QED BY <1>3, <1>8 DEF a, b

\* A writer loses nothing: what went and what it stays with are what was there and
\* what it writes (jc_sockwrite).
LEMMA Written ==
  ASSUME NEW S, NEW q \in Seq(S), NEW ms \in Seq(S), NEW room \in Nat, Len(q) <= room
  PROVE  /\ Sent(q, room, ms) \in Seq(S) /\ Len(Sent(q, room, ms)) <= room
         /\ Unsent(q, room, ms) \in Seq(S) /\ Len(Unsent(q, room, ms)) <= Len(ms)
         /\ Sent(q, room, ms) \o Unsent(q, room, ms) = q \o ms
<1> DEFINE k == Fits(q, room, ms)
<1>1. k \in 0..Len(ms) /\ Len(q) + k <= room
  BY DEF Fits
<1> HIDE DEF k
<1> DEFINE a == SubSeq(ms, 1, k)
           b == SubSeq(ms, k + 1, Len(ms))
<1>2. a \in Seq(S) /\ Len(a) = k
  <2>1. \A i \in 1..k : ms[i] \in S
    BY <1>1
  <2> QED BY <1>1, <2>1, SubSeqProperties
<1>3. b \in Seq(S) /\ Len(b) = Len(ms) - k
  <2>1. \A i \in (k + 1)..Len(ms) : ms[i] \in S
    BY <1>1
  <2> QED BY <1>1, <2>1, SubSeqProperties
<1>4. a \o b = ms
  <2>1. /\ 1 \in 1..(Len(ms) + 1) /\ k \in (1 - 1)..Len(ms)
        /\ Len(ms) \in k..Len(ms)
    BY <1>1
  <2>2. a \o b = SubSeq(ms, 1, Len(ms))
    BY <2>1, ConcatAdjacentSubSeq
  <2> QED BY <2>2, SubSeqFull
<1> HIDE DEF a, b
<1>5. (q \o a) \o b = q \o ms
  <2>1. a \in Seq(S) /\ b \in Seq(S)
    BY <1>2, <1>3
  <2>2. (q \o a) \o b = q \o (a \o b)
    BY <2>1, ConcatAssociative
  <2> QED BY <1>4, <2>2
<1>6. q \o a \in Seq(S) /\ Len(q \o a) <= room
  BY <1>1, <1>2, Joined
<1>7. Sent(q, room, ms) = q \o a /\ Unsent(q, room, ms) = b
  BY DEF Sent, Unsent, k, a, b
<1>8. Len(b) <= Len(ms)
  BY <1>1, <1>3
<1> QED BY <1>3, <1>5, <1>6, <1>7, <1>8

\* What goes to the child: the requests in it name a camera.
Upward == {m \in Message : m.kind = "request" => m.cam \in Cams}

\* A message that is of the past is a message still.
LEMMA RetiredMessage ==
  ASSUME NEW m \in Message
  PROVE  /\ [m EXCEPT !.latest = FALSE] \in Message
         /\ m \in Upward => [m EXCEPT !.latest = FALSE] \in Upward
         /\ LET r == [m EXCEPT !.latest = FALSE] IN
              /\ r.kind = m.kind /\ r.cam = m.cam /\ r.ver = m.ver /\ r.good = m.good
              /\ r.latest = FALSE
BY DEF Message, Upward

\* Retiring changes nothing else (sent_reqid).
LEMMA RetiredType ==
  ASSUME NEW q \in Seq(Message)
  PROVE  /\ Retired(q) \in Seq(Message) /\ Len(Retired(q)) = Len(q)
         /\ q \in Seq(Upward) => Retired(q) \in Seq(Upward)
         /\ \A i \in 1..Len(q) :
              /\ Retired(q)[i].kind = q[i].kind /\ Retired(q)[i].cam = q[i].cam
              /\ Retired(q)[i].ver = q[i].ver /\ Retired(q)[i].good = q[i].good
              /\ Retired(q)[i].latest = FALSE
<1> DEFINE r(i) == [q[i] EXCEPT !.latest = FALSE]
<1>1. Len(q) \in Nat /\ DOMAIN q = 1..Len(q) /\ \A i \in 1..Len(q) : q[i] \in Message
  BY LenProperties
<1>2. \A i \in 1..Len(q) : r(i) \in Message
  BY <1>1, RetiredMessage
<1>3. q \in Seq(Upward) => \A i \in 1..Len(q) : r(i) \in Upward
  <2> SUFFICES ASSUME q \in Seq(Upward), NEW i \in 1..Len(q) PROVE r(i) \in Upward
    OBVIOUS
  <2>1. q[i] \in Upward /\ q[i] \in Message
    BY <1>1
  <2> QED BY <2>1, RetiredMessage
<1>4. \A i \in 1..Len(q) :
        /\ r(i).kind = q[i].kind /\ r(i).cam = q[i].cam
        /\ r(i).ver = q[i].ver /\ r(i).good = q[i].good /\ r(i).latest = FALSE
  BY <1>1, RetiredMessage
<1>5. Retired(q) = [i \in 1..Len(q) |-> r(i)]
  BY <1>1 DEF Retired
<1> HIDE DEF r
<1>6. Retired(q) \in Seq(Message) /\ Len(Retired(q)) = Len(q)
  BY <1>1, <1>2, <1>5
<1>7. q \in Seq(Upward) => Retired(q) \in Seq(Upward)
  BY <1>1, <1>3, <1>5
<1>8. \A i \in 1..Len(q) : Retired(q)[i] = r(i)
  BY <1>5
<1> QED BY <1>4, <1>6, <1>7, <1>8

\* Retiring two sequences is retiring both.
LEMMA RetiredJoin ==
  ASSUME NEW q \in Seq(Message), NEW r \in Seq(Message)
  PROVE  Retired(q) \o Retired(r) = Retired(q \o r)
<1> DEFINE a == Retired(q) \o Retired(r)
           b == Retired(q \o r)
<1>1. /\ Len(q) \in Nat /\ Len(r) \in Nat
      /\ Retired(q) \in Seq(Message) /\ Len(Retired(q)) = Len(q)
      /\ Retired(r) \in Seq(Message) /\ Len(Retired(r)) = Len(r)
  BY RetiredType, LenProperties
<1>2. /\ q \o r \in Seq(Message) /\ Len(q \o r) = Len(q) + Len(r)
      /\ \A i \in 1..Len(q) : (q \o r)[i] = q[i]
      /\ \A i \in 1..Len(r) : (q \o r)[Len(q) + i] = r[i]
  BY Joined
<1>3. b \in Seq(Message) /\ Len(b) = Len(q) + Len(r)
  BY <1>2, RetiredType
<1>4. /\ a \in Seq(Message) /\ Len(a) = Len(q) + Len(r)
      /\ \A i \in 1..Len(q) : a[i] = Retired(q)[i]
      /\ \A i \in 1..Len(r) : a[Len(q) + i] = Retired(r)[i]
  <2> DEFINE x == Retired(q)
             y == Retired(r)
  <2> HIDE DEF x, y
  <2>1. x \in Seq(Message) /\ Len(x) = Len(q) /\ y \in Seq(Message) /\ Len(y) = Len(r)
    BY <1>1 DEF x, y
  <2>4. x \in Seq(Message) /\ y \in Seq(Message)
    BY <2>1
  <2>2. /\ x \o y \in Seq(Message) /\ Len(x \o y) = Len(x) + Len(y)
        /\ \A i \in 1..Len(x) : (x \o y)[i] = x[i]
        /\ \A i \in 1..Len(y) : (x \o y)[Len(x) + i] = y[i]
    BY ONLY <2>4, Joined
  <2>3. a = x \o y
    BY DEF x, y
  <2> QED BY <2>1, <2>2, <2>3 DEF x, y
<1>5. DOMAIN q = 1..Len(q) /\ DOMAIN r = 1..Len(r) /\ DOMAIN (q \o r) = 1..(Len(q) + Len(r))
  BY <1>2, LenProperties
<1>6. ASSUME NEW i \in 1..(Len(q) + Len(r)) PROVE a[i] = b[i]
  <2>1. b[i] = [(q \o r)[i] EXCEPT !.latest = FALSE]
    BY <1>5 DEF Retired
  <2>2. CASE i <= Len(q)
    <3>1. a[i] = Retired(q)[i] /\ (q \o r)[i] = q[i] /\ i \in DOMAIN q
      BY <1>1, <1>2, <1>4, <1>5, <2>2
    <3>2. Retired(q)[i] = [q[i] EXCEPT !.latest = FALSE]
      BY <3>1 DEF Retired
    <3> QED BY <2>1, <3>1, <3>2
  <2>3. CASE i > Len(q)
    <3> DEFINE j == i - Len(q)
    <3>1. j \in 1..Len(r) /\ Len(q) + j = i
      BY <1>1, <2>3
    <3> HIDE DEF j
    <3>2. a[i] = Retired(r)[j] /\ (q \o r)[i] = r[j] /\ j \in DOMAIN r
      BY <1>2, <1>4, <1>5, <3>1
    <3>3. Retired(r)[j] = [r[j] EXCEPT !.latest = FALSE]
      BY <3>2 DEF Retired
    <3> QED BY <2>1, <3>2, <3>3
  <2> QED BY <1>1, <2>2, <2>3
<1> HIDE DEF a, b
<1>7. a = b
  BY <1>3, <1>4, <1>6, SeqEqual
<1> QED BY <1>7 DEF a, b

-----------------------------------------------------------------------------
(* Types.  Beside TypeOK: what goes to the child names a camera where it asks  *)
(* for one, and the versions count no more than the events.                  *)

Sound ==
  /\ TypeOK
  /\ up \in Seq(Upward) /\ out \in Seq(Upward)
  /\ \A c \in Cams : ver[c] <= events

\* What lies in the two directions.
LEMMA Lying ==
  ASSUME Sound
  PROVE  /\ up \in Seq(Message) /\ up \in Seq(Upward) /\ Len(up) \in 0..RoomUp
         /\ out \in Seq(Message) /\ out \in Seq(Upward) /\ Len(out) \in Nat /\ Len(out) <= 2
         /\ down \in Seq(Message) /\ Len(down) \in 0..RoomDown
         /\ reply \in Seq(Message) /\ Len(reply) \in Nat /\ Len(reply) <= 2
         /\ RoomUp \in Nat /\ RoomDown \in Nat
         /\ selected \in Cams /\ Upward \subseteq Message
<1>1. Len(up) <= RoomUp /\ Len(out) <= 2 /\ Len(down) <= RoomDown /\ Len(reply) <= 2
  BY DEF Sound, TypeOK
<1>2. RoomUp \in Nat /\ RoomDown \in Nat
  BY ViewerAssumption
<1>3. Upward \subseteq Message
  BY DEF Upward
<1>4. /\ up \in Seq(Message) /\ out \in Seq(Message)
      /\ down \in Seq(Message) /\ reply \in Seq(Message) /\ selected \in Cams
  BY DEF Sound, TypeOK
<1>5. up \in Seq(Upward) /\ out \in Seq(Upward)
  BY DEF Sound
<1>6. Len(up) \in Nat /\ Len(out) \in Nat /\ Len(down) \in Nat /\ Len(reply) \in Nat
  BY <1>4
<1>7. Len(up) \in 0..RoomUp /\ Len(down) \in 0..RoomDown
  BY ONLY <1>1, <1>2, <1>6
<1> QED BY ONLY <1>1, <1>2, <1>3, <1>4, <1>5, <1>6, <1>7, Zenon

\* What the two ends write are messages (Msg).
LEMMA Written1 ==
  ASSUME NEW k \in {"mask", "request", "frame", "image"}, NEW c \in Cams \cup {None}, NEW n \in Ver,
         NEW b \in BOOLEAN
  PROVE  /\ Msg(k, c, n, b) \in Message /\ <<Msg(k, c, n, b)>> \in Seq(Message)
         /\ c \in Cams => Msg(k, c, n, b) \in Upward /\ <<Msg(k, c, n, b)>> \in Seq(Upward)
         /\ 0 \in Ver
<1>1. Msg(k, c, n, b) \in Message
  BY DEF Msg, Message
<1>2. c \in Cams => Msg(k, c, n, b) \in Upward
  BY <1>1 DEF Upward, Msg
<1>3. 0 \in Ver
  BY ViewerAssumption DEF Ver
<1> QED BY <1>1, <1>2, <1>3

\* What the child writes (ChildWrites).
LEMMA ChildWriting ==
  ASSUME Sound, NEW ms \in Seq(Message), Len(ms) <= 2, ChildWrites(ms)
  PROVE  /\ down' \in Seq(Message) /\ Len(down') <= RoomDown
         /\ reply' \in Seq(Message) /\ Len(reply') <= 2
         /\ down' \o reply' = down \o ms
<1>1. down \in Seq(Message) /\ RoomDown \in Nat /\ Len(down) <= RoomDown
  BY Lying
<1> DEFINE a == Sent(down, RoomDown, ms)
           b == Unsent(down, RoomDown, ms)
<1>2. down' = a /\ reply' = b
  BY DEF ChildWrites
<1>3. /\ a \in Seq(Message) /\ Len(a) <= RoomDown
      /\ b \in Seq(Message) /\ Len(b) <= Len(ms)
      /\ a \o b = down \o ms
  BY <1>1, Written
<1> HIDE DEF a, b
<1>4. Len(ms) \in Nat /\ Len(b) \in Nat
  BY <1>3
<1> QED BY <1>2, <1>3, <1>4

\* What the viewer writes, with a request and without (Writes).
LEMMA ViewerWriting ==
  ASSUME Sound, NEW ms \in Seq(Upward), Len(ms) <= 2, NEW new \in BOOLEAN, Writes(ms, new),
         NEW q \in Seq(Upward), q = (IF new THEN Retired(up) ELSE up)
  PROVE  /\ up' \in Seq(Upward) /\ Len(up') <= RoomUp
         /\ out' \in Seq(Upward) /\ Len(out') <= 2
         /\ link = "live" => up' \o out' = q \o ms
<1>1. Len(q) <= RoomUp /\ RoomUp \in Nat
  <2>1. Len(Retired(up)) = Len(up)
    BY Lying, RetiredType
  <2> QED BY <2>1, Lying
<1> DEFINE a == Sent(q, RoomUp, ms)
           b == Unsent(q, RoomUp, ms)
<1>2. IF link = "live" THEN up' = a /\ out' = b ELSE up' = q /\ out' = ms
  BY Zenon DEF Writes
<1>3. /\ a \in Seq(Upward) /\ Len(a) <= RoomUp
      /\ b \in Seq(Upward) /\ Len(b) <= Len(ms)
      /\ a \o b = q \o ms
  BY <1>1, Written
<1> HIDE DEF a, b
<1>4. Len(ms) \in Nat /\ Len(b) \in Nat
  BY <1>3
<1>7. Len(b) <= 2
  BY <1>3, <1>4
<1>5. CASE link = "live"
  BY <1>2, <1>3, <1>5, <1>7, Zenon
<1>6. CASE link # "live"
  BY <1>1, <1>2, <1>6
<1> QED BY <1>5, <1>6

\* The last of n requests is the one that counts (sent_reqid).
Requests(n, wrapped) == [i \in 1..n |-> Msg("request", selected, 0, i = n /\ ~wrapped)]

LEMMA RequestsType ==
  ASSUME Sound, NEW n \in 0..2, NEW wrapped \in BOOLEAN
  PROVE  /\ Requests(n, wrapped) \in Seq(Upward) /\ Len(Requests(n, wrapped)) = n
         /\ n = 0 => Requests(n, wrapped) = <<>>
<1>1. \A i \in 1..n : Msg("request", selected, 0, i = n /\ ~wrapped) \in Upward
  <2>1. selected \in Cams /\ 0 \in Ver
    BY Lying, ViewerAssumption DEF Ver
  <2>2. \A b \in BOOLEAN : Msg("request", selected, 0, b) \in Upward
    BY <2>1, Written1
  <2>3. \A i \in 1..n : (i = n /\ ~wrapped) \in BOOLEAN
    OBVIOUS
  <2> QED BY <2>2, <2>3, Zenon
<1>2. Requests(n, wrapped) \in Seq(Upward) /\ Len(Requests(n, wrapped)) = n
  BY <1>1 DEF Requests
<1>3. n = 0 => Requests(n, wrapped) = <<>>
  BY <1>2
<1> QED BY <1>2, <1>3

\* What the end of a turn does to the two directions (do_image_request).
LEMMA Asking ==
  ASSUME Sound, NEW n \in 0..2, NEW rest \in Seq(Message), Len(rest) <= RoomDown, Ask(n, rest)
  PROVE  /\ up' \in Seq(Upward) /\ Len(up') <= RoomUp /\ out' \in Seq(Upward) /\ Len(out') <= 2
         /\ down' \in Seq(Message) /\ Len(down') <= RoomDown
         /\ reply' \in Seq(Message) /\ Len(reply') <= 2
         /\ slipped' \in BOOLEAN /\ events' \in events..MaxEvents
         /\ (slipped => slipped')
         /\ link = "live" /\ ~slipped' =>
              up' \o out' = (IF n > 0 THEN Retired(up) ELSE up) \o Requests(n, FALSE)
         /\ down' \o reply' = (IF n > 0 THEN Retired(rest \o reply) ELSE rest \o reply)
<1>1. PICK wrapped \in {FALSE, n > 0 /\ events < MaxEvents} :
        /\ Writes(Requests(n, wrapped), n > 0)
        /\ events' = IF wrapped THEN events + 1 ELSE events
        /\ slipped' = (slipped \/ wrapped)
  BY DEF Ask, Requests
<1>2. /\ wrapped \in BOOLEAN /\ (wrapped => n > 0 /\ events < MaxEvents)
      /\ (n > 0) \in BOOLEAN
  <2>1. wrapped = FALSE \/ wrapped = (n > 0 /\ events < MaxEvents)
    OBVIOUS
  <2>2. (n > 0) \in BOOLEAN /\ (n > 0 /\ events < MaxEvents) \in BOOLEAN
    OBVIOUS
  <2> QED BY ONLY <2>1, <2>2, Zenon
<1>3. slipped \in BOOLEAN /\ events \in 0..MaxEvents /\ MaxEvents \in Nat
  BY ViewerAssumption DEF Sound, TypeOK
<1>4. slipped' \in BOOLEAN /\ (slipped => slipped') /\ (~slipped' => wrapped = FALSE)
  BY <1>1, <1>2, <1>3, Zenon
<1>5. events' \in events..MaxEvents
  BY <1>1, <1>2, <1>3
<1> DEFINE q == IF n > 0 THEN Retired(up) ELSE up
           ms == Requests(n, wrapped)
<1>6. q \in Seq(Upward) /\ q = (IF n > 0 THEN Retired(up) ELSE up)
  <2>1. up \in Seq(Upward) /\ Retired(up) \in Seq(Upward)
    BY Lying, RetiredType
  <2> QED BY ONLY <2>1, Zenon
<1>7. ms \in Seq(Upward) /\ Len(ms) <= 2
  <2>1. ms \in Seq(Upward) /\ Len(ms) = n
    BY <1>2, RequestsType, Zenon
  <2>2. n <= 2
    OBVIOUS
  <2> QED BY ONLY <2>1, <2>2
<1>8. Writes(ms, n > 0)
  BY <1>1
<1> HIDE DEF q, ms
<1>9. /\ up' \in Seq(Upward) /\ Len(up') <= RoomUp /\ out' \in Seq(Upward) /\ Len(out') <= 2
      /\ link = "live" => up' \o out' = q \o ms
  BY <1>2, <1>6, <1>7, <1>8, ViewerWriting
<1>10. link = "live" /\ ~slipped' =>
         up' \o out' = (IF n > 0 THEN Retired(up) ELSE up) \o Requests(n, FALSE)
  BY <1>4, <1>9, Zenon DEF q, ms
<1>11. /\ reply' = IF n > 0 THEN Retired(reply) ELSE reply
       /\ down' = IF n > 0 THEN Retired(rest) ELSE rest
  BY DEF Ask
<1>12. /\ reply \in Seq(Message) /\ Len(reply) <= 2
       /\ Retired(reply) \in Seq(Message) /\ Len(Retired(reply)) = Len(reply)
       /\ Retired(rest) \in Seq(Message) /\ Len(Retired(rest)) = Len(rest)
  BY Lying, RetiredType
<1>13. /\ down' \in Seq(Message) /\ Len(down') <= RoomDown
       /\ reply' \in Seq(Message) /\ Len(reply') <= 2
  BY <1>11, <1>12
<1>14. down' \o reply' = (IF n > 0 THEN Retired(rest \o reply) ELSE rest \o reply)
  <2>1. Retired(rest) \o Retired(reply) = Retired(rest \o reply)
    BY <1>12, RetiredJoin
  <2> QED BY <1>11, <2>1, Zenon
<1> QED BY ONLY <1>4, <1>5, <1>9, <1>10, <1>13, <1>14

\* The types, in parts: what lies in the directions, what is counted, and the rest of
\* either end.
Streams ==
  /\ up \in Seq(Upward) /\ Len(up) <= RoomUp /\ out \in Seq(Upward) /\ Len(out) <= 2
  /\ down \in Seq(Message) /\ Len(down) <= RoomDown
  /\ reply \in Seq(Message) /\ Len(reply) <= 2

Counts ==
  /\ ver \in [Cams -> Ver] /\ events \in 0..MaxEvents /\ \A c \in Cams : ver[c] <= events

ServerPart ==
  /\ mask \in Cams \cup {None} /\ moved \subseteq Cams /\ scanned \in BOOLEAN
  /\ storing \subseteq Cams /\ copy \in {"no", "clean", "torn"}
  /\ link \in {"none", "live", "dead"} /\ running \in BOOLEAN /\ asleep \in Nat
  /\ slipped \in BOOLEAN /\ forced \in BOOLEAN

ViewerPart ==
  /\ mid \in {"no", "part", "skew"}
  /\ selected \in Cams /\ completed \in BOOLEAN /\ old \in BOOLEAN /\ waiting \in BOOLEAN
  /\ work \in Picture /\ shown \in Picture
  /\ donow \in BOOLEAN /\ slave \in {"idle", "busy", "dead"}

counts == <<ver, events>>
serverVars == <<storing, mask, moved, scanned, copy, link, running, asleep, slipped, forced>>
viewerVars == <<mid, selected, completed, old, waiting, work, shown, donow, slave>>
streams == <<up, out, down, reply>>

LEMMA SoundParts == Sound <=> Streams /\ Counts /\ ServerPart /\ ViewerPart
<1>1. Sound => Streams /\ Counts /\ ServerPart /\ ViewerPart
  BY DEF Sound, TypeOK, Streams, Counts, ServerPart, ViewerPart
<1>2. ASSUME Streams PROVE up \in Seq(Message) /\ out \in Seq(Message)
  <2>1. Upward \subseteq Message
    BY DEF Upward
  <2> QED BY <1>2, <2>1, SeqMonotonic DEF Streams
<1>3. Streams /\ Counts /\ ServerPart /\ ViewerPart => Sound
  BY <1>2 DEF Sound, TypeOK, Streams, Counts, ServerPart, ViewerPart
<1> QED BY <1>1, <1>3

LEMMA SoundAgain == Streams' /\ Counts' /\ ServerPart' /\ ViewerPart' => Sound'
BY SoundParts, PTL

LEMMA StreamsKept == Streams /\ UNCHANGED streams => Streams'
BY DEF Streams, streams

LEMMA CountsKept == Counts /\ UNCHANGED counts => Counts'
BY DEF Counts, counts

\* What else happens is counted (Event, Ask).
LEMMA CountsOn == Counts /\ UNCHANGED ver /\ events' \in events..MaxEvents => Counts'
<1> SUFFICES ASSUME Counts, UNCHANGED ver, events' \in events..MaxEvents PROVE Counts'
  OBVIOUS
<1>1. /\ events \in Nat /\ MaxEvents \in Nat /\ events' \in 0..MaxEvents /\ events <= events'
  BY ViewerAssumption DEF Counts
<1>2. \A c \in Cams : ver[c] \in Nat /\ ver[c] <= events
  BY DEF Counts, Ver
<1>3. \A c \in Cams : ver'[c] <= events'
  BY <1>1, <1>2
<1> QED BY <1>1, <1>3 DEF Counts

LEMMA EventCounted == Counts /\ Event /\ UNCHANGED ver => Counts'
<1>1. Counts /\ Event => events' \in events..MaxEvents
  BY ViewerAssumption DEF Counts, Event
<1> QED BY <1>1, CountsOn

LEMMA ServerKept == ServerPart /\ UNCHANGED serverVars => ServerPart'
BY DEF ServerPart, serverVars

LEMMA ViewerKept == ViewerPart /\ UNCHANGED viewerVars => ViewerPart'
BY DEF ViewerPart, viewerVars

\* Nothing has gone anywhere at the start (Init).
LEMMA SoundStart == Init => Sound
<1> SUFFICES ASSUME Init PROVE Sound
  OBVIOUS
<1>1. Streams
  <2>1. RoomUp \in Nat /\ RoomDown \in Nat
    BY ViewerAssumption
  <2> QED BY <2>1 DEF Init, Streams
<1>0. 0 \in Ver /\ MaxEvents \in Nat
  BY ViewerAssumption DEF Ver
<1>2. Counts
  <2>1. ver = [c \in Cams |-> 0] /\ events = 0
    BY DEF Init
  <2>2. ver \in [Cams -> Ver]
    BY <1>0, <2>1
  <2>3. \A c \in Cams : ver[c] <= events
    BY <2>1
  <2> QED BY <1>0, <2>1, <2>2, <2>3 DEF Counts
<1>4. ServerPart
  BY DEF Init, ServerPart
<1>3. ViewerPart
  <2>1. Blank \in Picture
    BY <1>0 DEF Blank, Picture
  <2> QED BY <2>1, ViewerAssumption DEF Init, ViewerPart
<1> QED BY <1>1, <1>2, <1>3, <1>4, SoundParts

\* Storing a picture, and frame numbers that are not what they were (Store, Clobber).
LEMMA StoreSound ==
  ASSUME Sound, NEW c \in Cams, Store(c) \/ StoreEnd(c) \/ Clobber(c)
  PROVE  Sound'
<1> USE SoundParts, SoundAgain
<1>1. Streams' /\ ViewerPart'
  <2>1. UNCHANGED streams /\ UNCHANGED viewerVars
    BY DEF Store, StoreEnd, Clobber, streams, viewerVars, child, conn, view, decoder, marks
  <2> QED BY <2>1, StreamsKept, ViewerKept
<1>2. CASE Store(c)
  <2>1. /\ ver \in [Cams -> Ver] /\ events \in Nat /\ events < MaxEvents /\ \A d \in Cams : ver[d] <= events
        /\ MaxEvents \in Nat
    BY <1>2, ViewerAssumption DEF Counts, Store, Event
  <2>2. events' = events + 1 /\ ver' = [ver EXCEPT ![c] = @ + 1]
    BY <1>2 DEF Store, Event
  <2>3. \A d \in Cams : ver'[d] \in Ver /\ ver'[d] <= events'
    BY <2>1, <2>2 DEF Ver
  <2>4. events' \in 0..MaxEvents
    BY <2>1, <2>2
  <2>5. ver' \in [Cams -> Ver]
    <3>1. ver' = [d \in Cams |-> ver'[d]]
      BY <2>1, <2>2
    <3> QED BY ONLY <2>3, <3>1, Zenon
  <2>6. Counts'
    BY <2>3, <2>4, <2>5 DEF Counts
  <2>7. moved' \subseteq Cams /\ storing' \subseteq Cams /\ copy' \in {copy, "torn"}
    BY <1>2 DEF Store, ServerPart
  <2>8. UNCHANGED <<mask, scanned, link, running, asleep, slipped, forced>>
    BY <1>2 DEF Store, child, conn, marks
  <2>9. ServerPart'
    BY <2>7, <2>8 DEF ServerPart
  <2> QED BY <1>1, <2>6, <2>9
<1>3. CASE StoreEnd(c)
  <2>1. Counts'
    BY <1>3, CountsKept DEF StoreEnd, counts
  <2>2. storing' \subseteq Cams
    BY <1>3 DEF StoreEnd, ServerPart
  <2>3. UNCHANGED <<mask, moved, scanned, copy, link, running, asleep, slipped, forced>>
    BY <1>3 DEF StoreEnd, child, conn, marks
  <2>4. ServerPart'
    BY <2>2, <2>3 DEF ServerPart
  <2> QED BY <1>1, <2>1, <2>4
<1>4. CASE Clobber(c)
  <2>1. Counts'
    BY <1>4, EventCounted DEF Clobber
  <2>2. moved' \subseteq Cams
    BY <1>4 DEF Clobber, ServerPart
  <2>3. slipped' \in BOOLEAN
    BY <1>4 DEF Clobber
  <2>4. UNCHANGED <<storing, mask, scanned, copy, link, running, asleep, forced>>
    BY <1>4 DEF Clobber, conn
  <2>5. ServerPart'
    BY <2>2, <2>3, <2>4 DEF ServerPart
  <2> QED BY <1>1, <2>1, <2>5
<1> QED BY <1>2, <1>3, <1>4

\* While it copies, the child has one answer to write (Serve, CopyEnd).
Copying == copy # "no" => Len(reply) = 1

\* What it writes is that answer, a mixture or not (CopyEnd).
LEMMA Copied ==
  ASSUME Sound, Copying, CopyEnd
  PROVE  /\ Len(reply) = 1
         /\ \E m \in Message : /\ ChildWrites(<<m>>)
                               /\ m.kind = reply[1].kind /\ m.cam = reply[1].cam
                               /\ m.ver = reply[1].ver /\ m.good = reply[1].good
                               /\ m.latest = reply[1].latest
<1> DEFINE b == copy = "torn"
           h == reply[1]
           m == [h EXCEPT !.torn = b]
<1>1. b \in BOOLEAN
  BY Zenon
<1>2. Len(reply) = 1
  BY DEF Copying, CopyEnd
<1>3. h \in Message /\ Head(reply) = h
  <2>1. reply \in Seq(Message)
    BY Lying
  <2>2. reply[1] \in Message /\ Head(reply) = reply[1]
    BY ONLY <1>2, <2>1
  <2> QED BY <2>2
<1>4. ChildWrites(<<m>>)
  <2>1. ChildWrites(<<[Head(reply) EXCEPT !.torn = (copy = "torn")]>>)
    BY Zenon DEF CopyEnd
  <2> QED BY <1>3, <2>1, Zenon
<1> HIDE DEF b, h
<1>5. /\ m \in Message /\ m.kind = h.kind /\ m.cam = h.cam /\ m.ver = h.ver
      /\ m.good = h.good /\ m.latest = h.latest
  BY <1>1, <1>3 DEF Message
<1> HIDE DEF m
<1> QED BY <1>2, <1>4, <1>5, Zenon DEF h

\* A turn of the child (Scan, Serve, CopyEnd, ChildFlush).
LEMMA ChildSound == ASSUME Sound, Copying, ChildStep PROVE Sound'
<1> USE SoundParts, SoundAgain
<1>1. ViewerPart' /\ Counts'
  <2>1. UNCHANGED viewerVars /\ UNCHANGED counts
    BY DEF ChildStep, Scan, Serve, CopyEnd, ChildFlush, viewerVars, conn, view, decoder, counts
  <2> QED BY <2>1, ViewerKept, CountsKept
<1>2. CASE Scan
  <2> DEFINE ms == IF mask \in moved THEN <<Msg("frame", mask, 0, FALSE)>> ELSE <<>>
  <2>1. ms \in Seq(Message) /\ Len(ms) <= 2
    <3>1. CASE mask \in moved
      <4>1. <<Msg("frame", mask, 0, FALSE)>> \in Seq(Message)
        <5>1. mask \in Cams \cup {None} /\ 0 \in Ver
          BY ViewerAssumption DEF ServerPart, Ver
        <5> QED BY <5>1, Written1
      <4>2. Len(<<Msg("frame", mask, 0, FALSE)>>) = 1
        OBVIOUS
      <4>3. ms = <<Msg("frame", mask, 0, FALSE)>>
        BY <3>1, Zenon
      <4> HIDE DEF ms
      <4>4. ms \in Seq(Message) /\ Len(ms) = 1
        BY ONLY <4>1, <4>2, <4>3, Zenon
      <4> QED BY ONLY <4>4
    <3>2. CASE mask \notin moved
      BY <3>2
    <3> QED BY <3>1, <3>2
  <2>2. ChildWrites(ms)
    BY <1>2 DEF Scan
  <2> HIDE DEF ms
  <2>3. /\ down' \in Seq(Message) /\ Len(down') <= RoomDown
        /\ reply' \in Seq(Message) /\ Len(reply') <= 2
    BY <2>1, <2>2, ChildWriting
  <2>4. UNCHANGED <<up, out>>
    BY <1>2 DEF Scan, view
  <2>5. Streams'
    BY <2>3, <2>4 DEF Streams
  <2>6. ServerPart'
    BY <1>2 DEF Scan, ServerPart, conn, marks
  <2> QED BY <1>1, <2>5, <2>6
<1>3. CASE Serve /\ up = <<>>
  <2>1. UNCHANGED streams
    BY <1>3 DEF Serve, streams, view
  <2>2. ServerPart'
    BY <1>3 DEF Serve, ServerPart, conn, marks
  <2> QED BY <1>1, <2>1, <2>2, StreamsKept
<1>4. CASE Serve /\ up # <<>>
  <2> DEFINE m == Head(up)
  <2>1. up \in Seq(Upward) /\ Len(up) \in 0..RoomUp /\ RoomUp \in Nat
    BY Lying
  <2>2. /\ m \in Upward /\ Tail(up) \in Seq(Upward) /\ Len(Tail(up)) = Len(up) - 1
    BY <1>4, <2>1, Beheaded
  <2>3. /\ up' = IF m.kind = "debris" THEN <<>> ELSE Tail(up)
        /\ mask' = IF m.kind = "mask" THEN m.cam ELSE mask
        /\ scanned' = FALSE /\ down' = down /\ reply = <<>>
        /\ IF m.kind # "request" THEN UNCHANGED <<reply, copy>>
           ELSE reply' = Answer(m) /\ copy' \in {"torn", "clean"}
    BY <1>4 DEF Serve
  <2> HIDE DEF m
  <2>4. reply' \in Seq(Message) /\ Len(reply') <= 2
    <3>1. CASE m.kind = "request"
      <4>1. m.cam \in Cams /\ m.latest \in BOOLEAN
        BY <2>2, <3>1 DEF Upward, Message
      <4>2. ver[m.cam] \in Ver
        BY <4>1 DEF Counts
      <4>3. Answer(m) \in Seq(Message)
        BY <4>1, <4>2, Written1 DEF Answer
      <4>4. Len(Answer(m)) <= 2
        BY DEF Answer
      <4> QED BY <2>3, <3>1, <4>3, <4>4, Zenon
    <3>2. CASE m.kind # "request"
      BY <2>3, <3>2, Lying
    <3> QED BY <3>1, <3>2
  <2>5. down' \in Seq(Message) /\ Len(down') <= RoomDown
    BY <2>3, Lying
  <2>6. up' \in Seq(Upward) /\ Len(up') <= RoomUp
    BY <2>1, <2>2, <2>3
  <2>7. out' = out
    BY <1>4 DEF Serve, view
  <2>8. Streams'
    BY <2>4, <2>5, <2>6, <2>7 DEF Streams
  <2>9. mask' \in Cams \cup {None}
    BY <2>2, <2>3 DEF Upward, Message, ServerPart
  <2>10. copy' \in {"no", "clean", "torn"}
    BY <2>3 DEF ServerPart
  <2>11. scanned' \in BOOLEAN /\ UNCHANGED <<storing, moved, link, running, asleep, slipped, forced>>
    BY <1>4, <2>3 DEF Serve, conn, marks
  <2>12. ServerPart'
    BY <2>9, <2>10, <2>11 DEF ServerPart
  <2> QED BY <1>1, <2>8, <2>12
<1>5. CASE ChildFlush
  <2>1. reply \in Seq(Message) /\ Len(reply) <= 2 /\ ChildWrites(reply)
    BY <1>5 DEF ChildFlush, Streams
  <2>2. /\ down' \in Seq(Message) /\ Len(down') <= RoomDown
        /\ reply' \in Seq(Message) /\ Len(reply') <= 2
    BY <2>1, ChildWriting
  <2>3. UNCHANGED <<up, out>> /\ UNCHANGED serverVars
    BY <1>5 DEF ChildFlush, view, conn, marks, serverVars
  <2>4. Streams'
    BY <2>2, <2>3 DEF Streams
  <2> QED BY <1>1, <2>3, <2>4, ServerKept
<1>6. CASE CopyEnd
  <2>1. PICK m \in Message : ChildWrites(<<m>>)
    BY <1>6, Copied, Zenon
  <2>2. copy' = "no"
    BY <1>6 DEF CopyEnd
  <2>3. <<m>> \in Seq(Message) /\ Len(<<m>>) <= 2
    OBVIOUS
  <2>4. /\ down' \in Seq(Message) /\ Len(down') <= RoomDown
        /\ reply' \in Seq(Message) /\ Len(reply') <= 2
    BY <2>1, <2>3, ChildWriting
  <2>5. UNCHANGED <<up, out>>
        /\ UNCHANGED <<storing, mask, moved, scanned, link, running, asleep, slipped, forced>>
    BY <1>6 DEF CopyEnd, view, conn, marks
  <2>6. Streams'
    BY <2>4, <2>5 DEF Streams
  <2>7. ServerPart'
    BY <2>2, <2>5 DEF ServerPart
  <2> QED BY <1>1, <2>6, <2>7
<1> QED BY <1>2, <1>3, <1>4, <1>5, <1>6 DEF ChildStep

\* What the end of a turn does: with a reason to ask, or a second without a picture,
\* all that is on its way is of the past and one or two requests follow it (jc_events).
LEMMA Turning ==
  ASSUME Sound, NEW ask \in BOOLEAN, NEW done \in BOOLEAN,
         NEW rest \in Seq(Message), Len(rest) <= RoomDown, EndTurn(ask, done, rest)
  PROVE  /\ Streams' /\ events' \in events..MaxEvents
         /\ slipped' \in BOOLEAN /\ forced' \in BOOLEAN /\ completed' \in BOOLEAN
         /\ (slipped => slipped') /\ (forced => forced')
         /\ completed' = (done /\ ~ask /\ ~old)
         /\ (old /\ Outstanding => forced')
         /\ ask \/ old => down' \o reply' = Retired(rest \o reply)
         /\ ~(ask \/ old) => down' \o reply' = rest \o reply
         /\ link = "live" /\ ~slipped' /\ (ask \/ old) =>
              \E n \in {1, 2} : /\ up' \o out' = Retired(up) \o Requests(n, FALSE)
                                /\ n = 2 => forced'
         /\ link = "live" /\ ~slipped' /\ ~(ask \/ old) => up' \o out' = up
<1> DEFINE n == (IF ask THEN 1 ELSE 0) + (IF old THEN 1 ELSE 0)
<1>1. /\ Ask(n, rest) /\ completed' = (done /\ n = 0)
      /\ forced' = (forced \/ n = 2 \/ (old /\ Outstanding))
  BY DEF EndTurn
<1>2. old \in BOOLEAN /\ forced \in BOOLEAN
  BY SoundParts DEF ViewerPart, ServerPart
<1>3. n \in {0, 1, 2} /\ (n > 0 <=> ask \/ old) /\ (n = 0 <=> ~ask /\ ~old)
  BY <1>2
<1> HIDE DEF n
<1>4. /\ up' \in Seq(Upward) /\ Len(up') <= RoomUp /\ out' \in Seq(Upward) /\ Len(out') <= 2
      /\ down' \in Seq(Message) /\ Len(down') <= RoomDown
      /\ reply' \in Seq(Message) /\ Len(reply') <= 2
      /\ slipped' \in BOOLEAN /\ events' \in events..MaxEvents
      /\ (slipped => slipped')
      /\ link = "live" /\ ~slipped' =>
           up' \o out' = (IF n > 0 THEN Retired(up) ELSE up) \o Requests(n, FALSE)
      /\ down' \o reply' = (IF n > 0 THEN Retired(rest \o reply) ELSE rest \o reply)
  <2>1. n \in 0..2
    BY <1>3
  <2> QED BY <1>1, <2>1, Asking
<1>5. Streams'
  BY ONLY <1>4 DEF Streams
<1>6. forced' \in BOOLEAN /\ completed' \in BOOLEAN /\ (forced => forced')
      /\ completed' = (done /\ ~ask /\ ~old) /\ (n = 2 => forced') /\ (old /\ Outstanding => forced')
  BY <1>1, <1>2, <1>3, Zenon
<1>7. /\ ask \/ old => down' \o reply' = Retired(rest \o reply)
      /\ ~(ask \/ old) => down' \o reply' = rest \o reply
  BY ONLY <1>3, <1>4, Zenon
<1>8. ASSUME link = "live", ~slipped', ask \/ old
      PROVE  \E k \in {1, 2} : /\ up' \o out' = Retired(up) \o Requests(k, FALSE)
                               /\ k = 2 => forced'
  <2>1. n \in {1, 2}
    <3>1. n # 0
      BY ONLY <1>3, <1>8, Zenon
    <3> QED BY ONLY <1>3, <3>1, Zenon
  <2>2. up' \o out' = Retired(up) \o Requests(n, FALSE)
    BY ONLY <1>3, <1>4, <1>8, Zenon
  <2> QED BY <1>6, <2>1, <2>2, Zenon
<1>9. ASSUME link = "live", ~slipped', ~(ask \/ old)
      PROVE  up' \o out' = up
  <2>1. up' \o out' = up \o Requests(n, FALSE) /\ n = 0
    BY ONLY <1>3, <1>4, <1>9, Zenon
  <2>2. Requests(0, FALSE) = <<>>
    <3>1. 0 \in 0..2
      OBVIOUS
    <3> QED BY <3>1, RequestsType, Zenon
  <2>3. up \o <<>> = up
    BY Lying, ConcatEmptySeq
  <2> QED BY <2>1, <2>2, <2>3
<1> QED BY <1>4, <1>5, <1>6, <1>7, <1>8, <1>9, Zenon

\* What a turn without a request does (Ask).
LEMMA NotAsking ==
  ASSUME Sound, NEW rest \in Seq(Message), Len(rest) <= RoomDown, Ask(0, rest)
  PROVE  /\ Streams' /\ slipped' = slipped /\ events' = events
         /\ down' \o reply' = rest \o reply
         /\ link = "live" => up' \o out' = up
<1>1. 0 \in 0..2
  OBVIOUS
<1>2. /\ up' \in Seq(Upward) /\ Len(up') <= RoomUp /\ out' \in Seq(Upward) /\ Len(out') <= 2
      /\ down' \in Seq(Message) /\ Len(down') <= RoomDown
      /\ reply' \in Seq(Message) /\ Len(reply') <= 2
      /\ down' \o reply' = (IF 0 > 0 THEN Retired(rest \o reply) ELSE rest \o reply)
      /\ link = "live" /\ ~slipped' =>
           up' \o out' = (IF 0 > 0 THEN Retired(up) ELSE up) \o Requests(0, FALSE)
  BY <1>1, Asking
<1>3. \E wrapped \in {FALSE, 0 > 0 /\ events < MaxEvents} :
        /\ Writes(Requests(0, wrapped), 0 > 0)
        /\ events' = IF wrapped THEN events + 1 ELSE events
        /\ slipped' = (slipped \/ wrapped)
  BY DEF Ask, Requests
<1>4. ~(0 > 0)
  OBVIOUS
<1>5. PICK wrapped \in {FALSE} : /\ Writes(Requests(0, wrapped), 0 > 0)
                                 /\ events' = IF wrapped THEN events + 1 ELSE events
                                 /\ slipped' = (slipped \/ wrapped)
  BY <1>3, <1>4
<1>6. slipped \in BOOLEAN
  BY SoundParts DEF ServerPart
<1>7. slipped' = slipped /\ events' = events /\ Writes(Requests(0, FALSE), FALSE)
  <2>1. wrapped = FALSE
    OBVIOUS
  <2>2. (0 > 0) = FALSE
    OBVIOUS
  <2> QED BY <1>5, <1>6, <2>1, <2>2, Zenon
<1>8. Requests(0, FALSE) = <<>>
  BY <1>1, RequestsType, Zenon
<1>9. link = "live" => up' \o out' = up \o <<>>
  <2>1. <<>> \in Seq(Upward) /\ Len(<<>>) <= 2
    OBVIOUS
  <2>2. up \in Seq(Upward) /\ up = (IF FALSE THEN Retired(up) ELSE up)
    BY Lying
  <2>3. Writes(<<>>, FALSE)
    BY <1>7, <1>8
  <2> QED BY <2>1, <2>2, <2>3, ViewerWriting, Zenon
<1>10. up \o <<>> = up
  BY Lying, ConcatEmptySeq
<1>11. down' \o reply' = rest \o reply
  BY ONLY <1>2, <1>4, Zenon
<1>12. Streams'
  BY ONLY <1>2 DEF Streams
<1> QED BY <1>7, <1>9, <1>10, <1>11, <1>12

\* The slave is looked at (LookAtSlave).
LEMMA LookType ==
  ASSUME ViewerPart, LookAtSlave
  PROVE  donow' \in BOOLEAN /\ slave' \in {"idle", "busy", "dead"} /\ (donow' => donow)
BY DEF ViewerPart, LookAtSlave

\* A picture copied to the slave is a picture (CopyToSlave).
LEMMA CopyType ==
  ASSUME ViewerPart, NEW m \in Message, CopyToSlave(m)
  PROVE  work' \in Picture
<1>1. [work EXCEPT !.whole = FALSE] \in Picture
  BY DEF ViewerPart, Picture
<1>2. [cam |-> m.cam, ver |-> m.ver, whole |-> TRUE, torn |-> m.torn] \in Picture
  BY DEF Message, Picture
<1> QED BY <1>1, <1>2 DEF CopyToSlave, ViewerPart

\* What a read takes from the direction to the viewer.
LEMMA Remaining ==
  ASSUME Sound
  PROVE  /\ down \in Seq(Message) /\ Len(down) <= RoomDown
         /\ <<>> \in Seq(Message) /\ Len(<<>>) <= RoomDown
         /\ down # <<>> => /\ Tail(down) \in Seq(Message) /\ Len(Tail(down)) <= RoomDown
                           /\ Head(down) \in Message
<1>1. down \in Seq(Message) /\ Len(down) \in 0..RoomDown /\ RoomDown \in Nat
  BY Lying
<1>2. <<>> \in Seq(Message) /\ Len(<<>>) = 0
  OBVIOUS
<1>3. ASSUME down # <<>> PROVE /\ Tail(down) \in Seq(Message) /\ Len(Tail(down)) <= RoomDown
                               /\ Head(down) \in Message
  <2>1. Tail(down) \in Seq(Message) /\ Len(Tail(down)) = Len(down) - 1 /\ Head(down) \in Message
    BY <1>1, <1>3, Beheaded
  <2> QED BY <1>1, <2>1
<1>4. Len(<<>>) <= RoomDown
  BY <1>1, <1>2
<1> QED BY <1>1, <1>2, <1>3, <1>4

\* A turn of the viewer that asks keeps the types (EndTurn).
LEMMA AskingSound ==
  ASSUME Sound, NEW ask \in BOOLEAN, NEW rest \in Seq(Message), Len(rest) <= RoomDown,
         EndTurn(ask, completed, rest), LookAtSlave, UNCHANGED Idle,
         mid' \in {"no", "part", "skew"}, old' = old
  PROVE  Sound'
<1>1. completed \in BOOLEAN
  BY SoundParts DEF ViewerPart
<1>2. /\ Streams' /\ events' \in events..MaxEvents
      /\ slipped' \in BOOLEAN /\ forced' \in BOOLEAN /\ completed' \in BOOLEAN
  BY <1>1, Turning
<1>3. UNCHANGED <<ver, storing, mask, moved, scanned, copy, link, running, asleep, selected, waiting, work, shown>>
  BY DEF Idle, conn
<1>4. Counts'
  BY <1>2, <1>3, SoundParts, CountsOn
<1>5. ServerPart'
  BY <1>2, <1>3, SoundParts DEF ServerPart
<1>6. donow' \in BOOLEAN /\ slave' \in {"idle", "busy", "dead"}
  BY SoundParts, LookType
<1>7. ViewerPart'
  BY <1>2, <1>3, <1>6, SoundParts DEF ViewerPart
<1> QED BY <1>2, <1>4, <1>5, <1>7, SoundAgain

\* One that does not (Ask).
LEMMA PassingSound ==
  ASSUME Sound, NEW rest \in Seq(Message), Len(rest) <= RoomDown, Ask(0, rest),
         UNCHANGED <<ver, storing, mask, moved, scanned, copy, link, running, asleep, forced, selected, shown>>,
         mid' \in {"no", "part", "skew"}, old' \in BOOLEAN, completed' \in BOOLEAN, waiting' \in BOOLEAN,
         work' \in Picture, donow' \in BOOLEAN, slave' \in {"idle", "busy", "dead"}
  PROVE  Sound'
<1>1. Streams' /\ slipped' = slipped /\ events' = events
  BY NotAsking
<1>2. Counts'
  BY <1>1, SoundParts DEF Counts
<1>3. ServerPart'
  BY <1>1, SoundParts DEF ServerPart
<1>4. ViewerPart'
  BY SoundParts DEF ViewerPart
<1> QED BY <1>1, <1>2, <1>3, <1>4, SoundAgain

\* A turn of the viewer keeps the types (jc_events, jcam_read_message).
LEMMA TurnSound == ASSUME Sound, ReadNothing \/ ReadMessage PROVE Sound'
<1>0. /\ completed \in BOOLEAN /\ mid \in {"no", "part", "skew"} /\ waiting \in BOOLEAN
      /\ work \in Picture /\ donow \in BOOLEAN /\ slave \in {"idle", "busy", "dead"}
      /\ ViewerPart
  BY SoundParts DEF ViewerPart
<1>1. CASE ReadNothing
  <2>1. mid' \in {"no", "part", "skew"}
    BY <1>0, <1>1 DEF ReadNothing
  <2>2. EndTurn(FALSE, completed, down) /\ LookAtSlave /\ UNCHANGED Idle /\ old' = old
    BY <1>1 DEF ReadNothing
  <2>3. FALSE \in BOOLEAN
    OBVIOUS
  <2> QED BY <2>1, <2>2, <2>3, Remaining, AskingSound
<1>2. CASE ReadFrame
  <2>1. down # <<>> /\ mid' = "no"
    BY <1>2 DEF ReadFrame, Reads
  <2>2. /\ EndTurn(completed /\ Head(down).cam = selected, completed, Tail(down))
        /\ LookAtSlave /\ UNCHANGED Idle /\ old' = old
    BY <1>2 DEF ReadFrame
  <2>3. (completed /\ Head(down).cam = selected) \in BOOLEAN
    BY <1>0, Zenon
  <2>4. Tail(down) \in Seq(Message) /\ Len(Tail(down)) <= RoomDown
    BY <2>1, Remaining
  <2> QED BY <2>1, <2>2, <2>3, <2>4, AskingSound
<1>3. CASE ReadDebris
  <2>1. mid' \in {"no", "part", "skew"}
    BY <1>3 DEF ReadDebris, Reads
  <2>2. EndTurn(FALSE, completed, <<>>) /\ LookAtSlave /\ UNCHANGED Idle /\ old' = old
    BY <1>3 DEF ReadDebris
  <2>3. FALSE \in BOOLEAN
    OBVIOUS
  <2> QED BY <2>1, <2>2, <2>3, Remaining, AskingSound
<1>4. CASE ReadSkewed
  <2>1. /\ mid' \in {"no", "part", "skew"} /\ LookAtSlave /\ UNCHANGED Idle
        /\ \/ EndTurn(FALSE, completed, <<>>) /\ old' = old
           \/ /\ Ask(0, <<>>) /\ completed' = TRUE /\ old' = FALSE
              /\ UNCHANGED forced
    BY <1>4 DEF ReadSkewed
  <2>2. CASE EndTurn(FALSE, completed, <<>>) /\ old' = old
    <3>1. FALSE \in BOOLEAN
      OBVIOUS
    <3> QED BY <2>1, <2>2, <3>1, Remaining, AskingSound
  <2>3. CASE Ask(0, <<>>) /\ completed' = TRUE /\ old' = FALSE /\ UNCHANGED forced
    <3>1. UNCHANGED <<ver, storing, mask, moved, scanned, copy, link, running, asleep, forced, selected, shown>>
      BY <2>1, <2>3 DEF Idle, conn
    <3>2. waiting' \in BOOLEAN /\ work' \in Picture
      BY <1>0, <2>1 DEF Idle
    <3>3. donow' \in BOOLEAN /\ slave' \in {"idle", "busy", "dead"}
      BY <1>0, <2>1, LookType
    <3>4. old' \in BOOLEAN /\ completed' \in BOOLEAN
      BY <2>3
    <3> QED BY <2>1, <2>3, <3>1, <3>2, <3>3, <3>4, Remaining, PassingSound
  <2> QED BY <2>1, <2>2, <2>3
<1>5. CASE ReadBadImage
  <2>1. down # <<>> /\ mid' \in {"no", "part", "skew"}
    BY <1>5 DEF ReadBadImage, Reads
  <2>2. Ask(0, Tail(down)) /\ LookAtSlave /\ UNCHANGED Idle /\ UNCHANGED forced
        /\ old' \in BOOLEAN /\ completed' \in BOOLEAN
    BY <1>5 DEF ReadBadImage
  <2>3. UNCHANGED <<ver, storing, mask, moved, scanned, copy, link, running, asleep, forced, selected, shown>>
    BY <2>2 DEF Idle, conn
  <2>4. waiting' \in BOOLEAN /\ work' \in Picture
    BY <1>0, <2>2 DEF Idle
  <2>5. donow' \in BOOLEAN /\ slave' \in {"idle", "busy", "dead"}
    BY <1>0, <2>2, LookType
  <2> QED BY <2>1, <2>2, <2>3, <2>4, <2>5, Remaining, PassingSound
<1>6. CASE ReadImage
  <2>1. down # <<>> /\ mid' \in {"no", "part", "skew"} /\ old' \in BOOLEAN /\ Ask(0, Tail(down))
    BY <1>6 DEF ReadImage, GoodImage, Reads
  <2>2. Head(down) \in Message
    BY <2>1, Remaining
  <2>3. completed' \in BOOLEAN
    BY <1>0, <1>6, <2>2 DEF ReadImage, GoodImage, Message
  <2>4. UNCHANGED <<ver, storing, mask, moved, scanned, copy, link, running, asleep, forced, selected, shown>>
    BY <1>6 DEF ReadImage, GoodImage, conn
  <2>5. waiting' \in BOOLEAN /\ work' \in Picture /\ donow' \in BOOLEAN /\ slave' \in {"idle", "busy", "dead"}
    <3>1. CASE Head(down).cam = selected
      BY <1>0, <1>6, <2>2, <3>1, CopyType DEF ReadImage
    <3>2. CASE Head(down).cam # selected
      <4>1. LookAtSlave /\ waiting' = waiting
            /\ (CopyToSlave(Head(down)) \/ work' = work)
        BY <1>6, <3>2 DEF ReadImage
      <4>2. donow' \in BOOLEAN /\ slave' \in {"idle", "busy", "dead"}
        BY <1>0, <4>1, LookType
      <4> QED BY <1>0, <2>2, <4>1, <4>2, CopyType
    <3> QED BY <3>1, <3>2
  <2> QED BY <2>1, <2>3, <2>4, <2>5, Remaining, PassingSound
<1> QED BY <1>1, <1>2, <1>3, <1>4, <1>5, <1>6 DEF ReadMessage

\* Waiting for the slave, and the slave (reload_image).
LEMMA SlaveSound == ASSUME Sound, Wait \/ Slave \/ SlaveDies PROVE Sound'
<1> USE SoundParts
<1>1. Streams'
  <2>1. UNCHANGED streams
    BY DEF Wait, Decoded, DecodedLate, EndWait, Slave, SlaveStart, SlaveDone, SlaveDies, streams, child, view
  <2> QED BY <2>1, StreamsKept
<1>2. Counts'
  <2>1. CASE Decoded
    BY <2>1, CountsKept DEF Decoded, EndWait, counts
  <2>2. CASE DecodedLate
    <3>1. UNCHANGED ver /\ (Event \/ UNCHANGED events)
      BY <2>2 DEF DecodedLate, EndWait
    <3> QED BY <3>1, CountsKept, EventCounted DEF counts
  <2>3. CASE Slave
    BY <2>3, CountsKept DEF Slave, SlaveStart, SlaveDone, counts
  <2>4. CASE SlaveDies
    BY <2>4, EventCounted DEF SlaveDies
  <2> QED BY <2>1, <2>2, <2>3, <2>4 DEF Wait
<1>3. UNCHANGED <<storing, mask, moved, scanned, copy, link, running, asleep, forced>> /\ slipped' \in BOOLEAN
  BY DEF Wait, Decoded, DecodedLate, EndWait, Slave, SlaveStart, SlaveDone, SlaveDies, child, conn, marks, ServerPart
<1>4. ServerPart'
  BY <1>3 DEF ServerPart
<1>5. CASE Wait
  <2>1. /\ UNCHANGED <<mid, selected, completed, old, work>> /\ LookAtSlave
        /\ waiting' = FALSE /\ (shown' = work \/ shown' = shown)
    BY <1>5 DEF Wait, Decoded, DecodedLate, EndWait
  <2>2. donow' \in BOOLEAN /\ slave' \in {"idle", "busy", "dead"}
    BY <2>1, LookType
  <2>3. ViewerPart'
    BY <2>1, <2>2 DEF ViewerPart
  <2> QED BY <1>1, <1>2, <1>4, <2>3, SoundAgain
<1>6. CASE Slave \/ SlaveDies
  <2>1. /\ UNCHANGED <<mid, selected, completed, old, waiting, work, shown>>
        /\ (donow' = donow \/ donow' = FALSE) /\ slave' \in {"idle", "busy", "dead"}
    BY <1>6 DEF Slave, SlaveStart, SlaveDone, SlaveDies, view
  <2>2. ViewerPart'
    BY <2>1 DEF ViewerPart
  <2> QED BY <1>1, <1>2, <1>4, <2>2, SoundAgain
<1> QED BY <1>5, <1>6

\* Debris in place of a header, in either direction (jc_sockwrite).
LEMMA DebrisType ==
  Debris \in Message /\ Debris \in Upward /\ Debris.good = FALSE
<1> DEFINE r == Msg("debris", None, 0, FALSE)
<1>1. r \in Message /\ r.kind = "debris"
  BY ViewerAssumption DEF Msg, Message, Ver
<1> HIDE DEF r
<1>2. /\ [r EXCEPT !.good = FALSE] \in Message
      /\ [r EXCEPT !.good = FALSE].kind = "debris" /\ [r EXCEPT !.good = FALSE].good = FALSE
  BY <1>1 DEF Message
<1>3. Debris = [r EXCEPT !.good = FALSE]
  BY DEF Debris, r
<1>4. Debris \in Message /\ Debris.kind = "debris" /\ Debris.good = FALSE
  BY ONLY <1>2, <1>3, Zenon
<1> QED BY <1>4 DEF Upward

\* What is spoilt keeps the types (ChildSpoils, ViewerSpoils).
LEMMA SpoilSound == ASSUME Sound, ChildSpoils \/ ViewerSpoils PROVE Sound'
<1> USE SoundParts
<1>1. /\ UNCHANGED viewerVars /\ UNCHANGED <<storing, mask, moved, scanned, copy, link, running, asleep, forced>>
      /\ slipped' = TRUE /\ Event /\ UNCHANGED ver
  BY DEF ChildSpoils, ViewerSpoils, viewerVars, conn, view, decoder, child
<1>5. Counts'
  BY <1>1, EventCounted
<1>2. ServerPart' /\ ViewerPart'
  BY <1>1, ViewerKept DEF ServerPart
<1>3. CASE ChildSpoils
  <2>1. /\ reply # <<>> /\ UNCHANGED <<up, out, down>>
        /\ \/ reply' = <<Debris>>
           \/ reply' = <<[Head(reply) EXCEPT !.good = FALSE], Debris>>
    BY <1>3 DEF ChildSpoils, view
  <2>2. Head(reply) \in Message
    BY <2>1, Lying, Beheaded
  <2>3. [Head(reply) EXCEPT !.good = FALSE] \in Message
    BY <2>2 DEF Message
  <2>4. reply' \in Seq(Message) /\ Len(reply') <= 2
    <3> DEFINE d == Debris
               e == [Head(reply) EXCEPT !.good = FALSE]
    <3>1. d \in Message /\ e \in Message /\ (reply' = <<d>> \/ reply' = <<e, d>>)
      BY <2>1, <2>3, DebrisType
    <3> HIDE DEF d, e
    <3>2. /\ <<d>> \in Seq(Message) /\ Len(<<d>>) = 1
          /\ <<e, d>> \in Seq(Message) /\ Len(<<e, d>>) = 2
      BY <3>1
    <3>3. reply' \in Seq(Message) /\ (Len(reply') = 1 \/ Len(reply') = 2)
      BY ONLY <3>1, <3>2, Zenon
    <3>4. \A k : k = 1 \/ k = 2 => k <= 2
      OBVIOUS
    <3> QED BY ONLY <3>3, <3>4, Zenon
  <2>5. Streams'
    BY <2>1, <2>4 DEF Streams
  <2> QED BY <1>2, <1>5, <2>5, SoundAgain
<1>4. CASE ViewerSpoils
  <2>1. out # <<>> /\ UNCHANGED <<up, down, reply>> /\ out' = <<Debris>> \o Tail(out)
    BY <1>4 DEF ViewerSpoils, child
  <2>2. Tail(out) \in Seq(Upward) /\ Len(Tail(out)) = Len(out) - 1 /\ Len(out) \in Nat /\ Len(out) <= 2
    BY <2>1, Lying, Beheaded
  <2>3. <<Debris>> \in Seq(Upward) /\ Len(<<Debris>>) = 1
    BY DebrisType
  <2>4. out' \in Seq(Upward) /\ Len(out') = 1 + Len(Tail(out))
    <3>1. <<Debris>> \o Tail(out) \in Seq(Upward)
          /\ Len(<<Debris>> \o Tail(out)) = Len(<<Debris>>) + Len(Tail(out))
      BY <2>2, <2>3, Joined
    <3> QED BY <2>1, <2>3, <3>1
  <2>5. Len(out') <= 2
    BY <2>2, <2>4
  <2>6. Streams'
    BY <2>1, <2>4, <2>5 DEF Streams
  <2> QED BY <1>2, <1>5, <2>6, SoundAgain
<1> QED BY <1>3, <1>4

\* Writing and the connection keep the types (jc_sockwrite, jc_events).
LEMMA WriteSound == ASSUME Sound, Write PROVE Sound'
<1> USE SoundParts
<1>1. UNCHANGED viewerVars /\ UNCHANGED counts
  BY DEF Write, Flush, WriteToDead, viewerVars, counts, decoder
<1>2. Counts' /\ ViewerPart'
  BY <1>1, CountsKept, ViewerKept
<1>3. UNCHANGED <<storing, mask, moved, scanned, copy, running, asleep, slipped, forced>> /\ link' \in {link, "none"}
  BY DEF Write, Flush, WriteToDead, child, conn, marks
<1>4. ServerPart'
  BY <1>3 DEF ServerPart
<1>5. CASE Flush
  <2>1. Writes(out, FALSE) /\ UNCHANGED <<down, reply>>
    BY <1>5 DEF Flush, child
  <2>2. /\ up \in Seq(Upward) /\ up = (IF FALSE THEN Retired(up) ELSE up)
        /\ out \in Seq(Upward) /\ Len(out) <= 2 /\ FALSE \in BOOLEAN
    BY Lying
  <2>3. up' \in Seq(Upward) /\ Len(up') <= RoomUp /\ out' \in Seq(Upward) /\ Len(out') <= 2
    BY <2>1, <2>2, ViewerWriting, Zenon
  <2>4. Streams'
    BY <2>1, <2>3 DEF Streams
  <2> QED BY <1>2, <1>4, <2>4, SoundAgain
<1>6. CASE WriteToDead
  <2>1. /\ UNCHANGED <<up, reply>> /\ out # <<>>
        /\ \/ out' = Tail(out) /\ down' = down
           \/ out' = <<>> /\ down' = <<>>
    BY <1>6 DEF WriteToDead, child
  <2>2. Tail(out) \in Seq(Upward) /\ Len(Tail(out)) = Len(out) - 1 /\ Len(out) \in Nat /\ Len(out) <= 2
    BY <2>1, Lying, Beheaded
  <2>3. out' \in Seq(Upward) /\ Len(out') <= 2
    <3>1. Len(Tail(out)) <= 2
      BY <2>2
    <3>2. <<>> \in Seq(Upward) /\ Len(<<>>) <= 2
      OBVIOUS
    <3> QED BY ONLY <2>1, <2>2, <3>1, <3>2, Zenon
  <2>4. down' \in Seq(Message) /\ Len(down') <= RoomDown
    BY <2>1, Remaining
  <2>5. Streams'
    BY <2>1, <2>3, <2>4 DEF Streams
  <2> QED BY <1>2, <1>4, <2>5, SoundAgain
<1> QED BY <1>5, <1>6 DEF Write

\* A message that starts an empty direction.
LEMMA FirstOut ==
  ASSUME NEW S, NEW m \in S, NEW room \in Nat \ {0}
  PROVE  <<m>> \in Seq(S) /\ Len(<<m>>) <= room
OBVIOUS

LEMMA ReconnectSound == ASSUME Sound, Reconnect PROVE Sound'
<1> USE SoundParts
<1>1. Counts'
  BY CountsKept DEF Reconnect, ReadEnd, ReadClosed, Connect, counts
<1>2. CASE ReadEnd \/ ReadClosed
  <2>1. UNCHANGED streams
    BY <1>2 DEF ReadEnd, ReadClosed, child, streams
  <2>2. UNCHANGED <<storing, mask, moved, scanned, copy, asleep, slipped, forced>> /\ link' \in {link, "none"} /\ running' = FALSE
    BY <1>2 DEF ReadEnd, ReadClosed, child, marks
  <2>3. ServerPart'
    BY <2>2 DEF ServerPart
  <2>4. /\ UNCHANGED <<selected, old, waiting, work, shown>> /\ LookAtSlave
        /\ completed' = (completed \/ old) /\ mid' \in {mid, "no"}
    BY <1>2 DEF ReadEnd, ReadClosed
  <2>5. donow' \in BOOLEAN /\ slave' \in {"idle", "busy", "dead"}
    BY <2>4, LookType
  <2>6. completed' \in BOOLEAN
    BY <2>4, Zenon DEF ViewerPart
  <2>7. ViewerPart'
    BY <2>4, <2>5, <2>6 DEF ViewerPart
  <2> QED BY <1>1, <2>1, <2>3, <2>7, StreamsKept, SoundAgain
<1>3. CASE Connect
  <2>1. /\ down' = <<>> /\ reply' = <<>> /\ out' = out /\ up' = <<Msg("mask", selected, 0, FALSE)>>
        /\ mask' = None /\ moved' = {} /\ scanned' = FALSE /\ link' = "live" /\ running' = TRUE
        /\ storing' = storing /\ copy' = "no"
        /\ asleep' = asleep /\ forced' = FALSE /\ slipped' \in BOOLEAN
    BY <1>3 DEF Connect, NewChild, ViewerPart
  <2>2. UNCHANGED <<selected, waiting, donow, slave, work, shown>> /\ completed' = TRUE /\ old' = TRUE
        /\ mid' \in {"no", "skew"}
    BY <1>3 DEF Connect, Fresh, decoder
  <2>3. Msg("mask", selected, 0, FALSE) \in Upward
    <3>1. selected \in Cams /\ 0 \in Ver
      BY ViewerAssumption DEF ViewerPart, Ver
    <3> QED BY <3>1, Written1
  <2>4. up' \in Seq(Upward) /\ Len(up') <= RoomUp
    BY <2>1, <2>3, FirstOut, ViewerAssumption
  <2>5. down' \in Seq(Message) /\ Len(down') <= RoomDown /\ reply' \in Seq(Message) /\ Len(reply') <= 2
    BY <2>1, Remaining
  <2>6. Streams'
    BY <2>1, <2>4, <2>5 DEF Streams
  <2>7. ServerPart' /\ ViewerPart'
    BY <2>1, <2>2 DEF ServerPart, ViewerPart
  <2> QED BY <1>1, <2>6, <2>7, SoundAgain
<1> QED BY <1>2, <1>3 DEF Reconnect

\* The connection breaks, is refused, or a formsleep is over; time passes.
LEMMA BreakSound == ASSUME Sound, Break \/ Refuse \/ Wake \/ Tick PROVE Sound'
<1> USE SoundParts
<1>1. Counts'
  BY CountsKept, EventCounted DEF Break, Refuse, Wake, Tick, counts
<1>2. ServerPart'
  <2>1. /\ UNCHANGED <<storing, slipped, forced>> /\ asleep' \in Nat
        /\ mask' \in {mask, None} /\ moved' \in {moved, {}} /\ copy' \in {copy, "no"}
        /\ link' \in {link, "dead", "none"}
    <3>1. CASE Break \/ Refuse
      BY <3>1 DEF Break, Refuse, NewChild, marks, ServerPart
    <3>2. CASE Wake \/ Tick
      BY <3>2 DEF Wake, Tick, child, marks, conn, ServerPart
    <3> QED BY <3>1, <3>2
  <2>2. scanned' \in BOOLEAN /\ running' \in BOOLEAN
    <3>1. CASE Break \/ Refuse
      BY <3>1 DEF Break, Refuse, NewChild, ServerPart
    <3>2. CASE Wake \/ Tick
      BY <3>2 DEF Wake, Tick, child, conn, ServerPart
    <3> QED BY <3>1, <3>2
  <2>3. slipped' \in BOOLEAN /\ forced' \in BOOLEAN
    BY <2>1 DEF ServerPart
  <2> QED BY <2>1, <2>2, <2>3 DEF ServerPart
<1>3. ViewerPart'
  <2>1. UNCHANGED <<mid, selected, completed, waiting, work, shown, donow, slave>> /\ old' \in BOOLEAN
    BY DEF Break, Refuse, Wake, Tick, view, decoder, ViewerPart
  <2> QED BY <2>1 DEF ViewerPart
<1>4. CASE Break
  <2>1. PICK k \in 0..Len(down) : down' = SubSeq(down, 1, k)
    BY <1>4 DEF Break
  <2>2. up' = <<>> /\ reply' = <<>> /\ out' = out
    BY <1>4 DEF Break, NewChild, view
  <2>3. down \in Seq(Message) /\ Len(down) \in 0..RoomDown /\ RoomDown \in Nat /\ RoomUp \in Nat
    BY Lying
  <2>4. down' \in Seq(Message) /\ Len(down') = k
    <3>1. \A i \in 1..k : down[i] \in Message
      BY <2>3
    <3> QED BY <2>1, <2>3, <3>1, SubSeqProperties
  <2>5. Len(down') <= RoomDown /\ up' \in Seq(Upward) /\ Len(up') <= RoomUp
    BY <2>2, <2>3, <2>4
  <2>6. reply' \in Seq(Message) /\ Len(reply') <= 2
    BY <2>2
  <2>7. Streams'
    BY <2>2, <2>4, <2>5, <2>6 DEF Streams
  <2> QED BY <1>1, <1>2, <1>3, <2>7, SoundAgain
<1>5. CASE Refuse
  <2>1. up' = <<>> /\ down' = <<>> /\ reply' = <<>> /\ out' = out
    BY <1>5 DEF Refuse, NewChild, view
  <2>2. RoomUp \in Nat /\ RoomDown \in Nat
    BY Lying
  <2>3. Streams'
    BY <2>1, <2>2 DEF Streams
  <2> QED BY <1>1, <1>2, <1>3, <2>3, SoundAgain
<1>6. CASE Wake \/ Tick
  <2>1. UNCHANGED streams
    BY <1>6 DEF Wake, Tick, child, view, streams
  <2> QED BY <1>1, <1>2, <1>3, <2>1, StreamsKept, SoundAgain
<1> QED BY <1>4, <1>5, <1>6

\* What Select writes: the mask and a request of the new camera (highlight_button).
Selection(c) == <<Msg("mask", c, 0, FALSE), Msg("request", c, 0, TRUE)>>

LEMMA Selecting ==
  ASSUME Sound, NEW c \in Cams, Select(c), link # "none"
  PROVE  /\ Streams' /\ Selection(c) \in Seq(Upward) /\ Len(Selection(c)) = 2
         /\ link = "live" => up' \o out' = Retired(up) \o Selection(c)
         /\ down' \o reply' = Retired(down \o reply) /\ reply' = Retired(reply)
<1>1. /\ Writes(Selection(c), TRUE) /\ reply' = Retired(reply) /\ down' = Retired(down)
  BY DEF Select, Selection
<1>2. Selection(c) \in Seq(Upward) /\ Len(Selection(c)) = 2
  <2> DEFINE m == Msg("mask", c, 0, FALSE)
             r == Msg("request", c, 0, TRUE)
  <2>1. m \in Upward /\ r \in Upward
    <3>1. 0 \in Ver
      BY ViewerAssumption DEF Ver
    <3> QED BY <3>1, Written1
  <2> HIDE DEF m, r
  <2>2. <<m, r>> \in Seq(Upward) /\ Len(<<m, r>>) = 2
    BY <2>1
  <2> QED BY <2>2 DEF Selection, m, r
<1>3. /\ down \in Seq(Message) /\ Len(down) \in 0..RoomDown /\ RoomDown \in Nat
      /\ reply \in Seq(Message) /\ Len(reply) <= 2 /\ up \in Seq(Upward) /\ up \in Seq(Message)
  BY Lying
<1>4. /\ Retired(down) \in Seq(Message) /\ Len(Retired(down)) = Len(down)
      /\ Retired(reply) \in Seq(Message) /\ Len(Retired(reply)) = Len(reply)
      /\ Retired(up) \in Seq(Upward)
  BY <1>3, RetiredType
<1>5. down' \o reply' = Retired(down \o reply)
  BY <1>1, <1>3, RetiredJoin
<1>6. /\ up' \in Seq(Upward) /\ Len(up') <= RoomUp /\ out' \in Seq(Upward) /\ Len(out') <= 2
      /\ link = "live" => up' \o out' = Retired(up) \o Selection(c)
  <2> DEFINE ms == Selection(c)
             q == Retired(up)
  <2>1. ms \in Seq(Upward) /\ q \in Seq(Upward) /\ Writes(ms, TRUE)
    BY <1>1, <1>2, <1>4
  <2>2. Len(ms) <= 2
    <3>1. Len(ms) = 2 /\ 2 <= 2
      BY <1>2
    <3> QED BY <3>1, Zenon
  <2>3. q = (IF TRUE THEN Retired(up) ELSE up) /\ TRUE \in BOOLEAN
    OBVIOUS
  <2> HIDE DEF ms, q
  <2>4. /\ up' \in Seq(Upward) /\ Len(up') <= RoomUp /\ out' \in Seq(Upward) /\ Len(out') <= 2
        /\ link = "live" => up' \o out' = q \o ms
    BY <2>1, <2>2, <2>3, ViewerWriting, Zenon
  <2> QED BY <2>4 DEF ms, q
<1>7. Len(down') <= RoomDown /\ down' \in Seq(Message) /\ reply' \in Seq(Message) /\ Len(reply') <= 2
  BY <1>1, <1>3, <1>4
<1>8. Streams'
  BY <1>6, <1>7 DEF Streams
<1> QED BY <1>1, <1>2, <1>5, <1>6, <1>8

LEMMA SelectSound == ASSUME Sound, NEW c \in Cams, Select(c) PROVE Sound'
<1> USE SoundParts
<1>1. UNCHANGED <<ver, storing, mask, moved, scanned, copy, link, running, asleep, slipped, mid, old, waiting>>
      /\ UNCHANGED <<work, shown, donow, slave>> /\ selected' = c /\ Event
  BY DEF Select, conn, decoder
<1>2. completed' \in BOOLEAN /\ forced' \in BOOLEAN
  BY DEF Select, ServerPart
<1>3. Streams'
  <2>1. CASE link = "none"
    BY <2>1, StreamsKept DEF Select, streams
  <2>2. CASE link # "none"
    BY <2>2, Selecting
  <2> QED BY <2>1, <2>2
<1>4. Counts'
  BY <1>1, EventCounted
<1>5. ServerPart' /\ ViewerPart'
  BY <1>1, <1>2 DEF ServerPart, ViewerPart
<1> QED BY <1>3, <1>4, <1>5, SoundAgain

\* Every step keeps the types (Next).
LEMMA NextSound == Sound /\ Copying /\ [Next]_vars => Sound'
<1> SUFFICES ASSUME Sound, Copying, [Next]_vars PROVE Sound'
  OBVIOUS
<1>1. CASE UNCHANGED vars
  <2>1. UNCHANGED streams /\ UNCHANGED counts /\ UNCHANGED serverVars /\ UNCHANGED viewerVars
    BY <1>1 DEF vars, child, conn, view, decoder, marks, streams, counts, serverVars, viewerVars
  <2> QED BY <2>1, SoundParts, StreamsKept, CountsKept, ServerKept, ViewerKept, SoundAgain
<1>2. ASSUME NEW c \in Cams, Store(c) \/ StoreEnd(c) \/ Clobber(c) \/ Select(c) PROVE Sound'
  BY <1>2, StoreSound, SelectSound
<1>3. CASE ViewerStep
  BY <1>3, TurnSound, SlaveSound, WriteSound, ReconnectSound DEF ViewerStep
<1> QED BY <1>1, <1>2, <1>3, ChildSound, SpoilSound, SlaveSound, BreakSound DEF Next

\* Nothing but the copy itself makes the child write while it copies (Next).
LEMMA NextCopying == Sound /\ Copying /\ [Next]_vars => Copying'
<1> SUFFICES ASSUME Sound, Copying, [Next]_vars, copy' # "no" PROVE Len(reply') = 1
  BY DEF Copying
<1>1. ASSUME copy # "no", reply' \in {reply, Retired(reply)} PROVE Len(reply') = 1
  BY <1>1, Lying, RetiredType DEF Copying
<1>2. ASSUME NEW c \in Cams, Store(c) \/ StoreEnd(c) \/ Clobber(c) \/ Select(c) PROVE Len(reply') = 1
  <2>1. copy # "no" /\ reply' \in {reply, Retired(reply)}
    BY <1>2 DEF Store, StoreEnd, Clobber, Select, child
  <2> QED BY <1>1, <2>1
<1>3. CASE ReadNothing \/ ReadMessage
  <2>1. copy' = copy
    BY <1>3 DEF ReadNothing, ReadMessage, ReadFrame, ReadDebris, ReadSkewed, ReadBadImage, ReadImage,
       GoodImage, Idle
  <2>2. \E n, rest : Ask(n, rest)
    BY <1>3 DEF ReadNothing, ReadMessage, ReadFrame, ReadDebris, ReadSkewed, ReadBadImage, ReadImage,
       GoodImage, EndTurn
  <2>3. reply' \in {reply, Retired(reply)}
    BY <2>2 DEF Ask
  <2> QED BY <1>1, <2>1, <2>3
<1>4. CASE Scan \/ ChildFlush \/ CopyEnd \/ ChildSpoils
  <2>1. CASE Scan
    BY <2>1 DEF Scan, Copying
  <2>2. CASE ChildFlush \/ CopyEnd \/ ChildSpoils
    BY <2>2 DEF ChildFlush, CopyEnd, ChildSpoils
  <2> QED BY <1>4, <2>1, <2>2
<1>5. CASE Serve
  <2>1. reply = <<>> /\ (reply' = Answer(Head(up)) \/ copy' = copy)
    BY <1>5 DEF Serve
  <2>2. Len(Answer(Head(up))) = 1
    BY DEF Answer
  <2>3. copy = "no"
    BY <2>1 DEF Copying
  <2> QED BY <2>1, <2>2, <2>3, Zenon
<1>6. CASE Slave \/ SlaveDies \/ Wait \/ ViewerSpoils \/ Write \/ Wake \/ Tick \/ UNCHANGED vars
  <2>1. UNCHANGED <<copy, reply>>
    BY <1>6 DEF Slave, SlaveStart, SlaveDone, SlaveDies, Wait, Decoded, DecodedLate, EndWait, ViewerSpoils,
       Write, Flush, WriteToDead, Wake, Tick, vars, child
  <2> QED BY <1>1, <2>1
<1>7. CASE ReadEnd \/ ReadClosed
  <2>1. UNCHANGED <<copy, reply>>
    BY <1>7 DEF ReadEnd, ReadClosed, child
  <2> QED BY <1>1, <2>1
<1>8. Connect \/ Break \/ Refuse => copy' = "no"
  BY DEF Connect, Break, Refuse, NewChild
<1> QED BY <1>2, <1>3, <1>4, <1>5, <1>6, <1>7, <1>8 DEF Next, ChildStep, ViewerStep, Reconnect

\* The two hold in every state.
LEMMA AlwaysSound == Spec => [](Sound /\ Copying)
<1>1. Init => Copying
  BY DEF Init, Copying
<1> QED BY <1>1, SoundStart, NextSound, NextCopying, PTL DEF Spec

\* Every variable of the viewer and of its child keeps its type, and neither direction
\* holds more than it has room for, for any room and any number of events.
THEOREM TypeCorrect == Spec => []TypeOK
<1>1. Sound => TypeOK
  BY DEF Sound
<1> QED BY <1>1, AlwaysSound, PTL

-----------------------------------------------------------------------------
(* The slave.  While nothing slipped it decodes only while the viewer waits,   *)
(* and what it was given is a whole picture of the selected camera.          *)

Decoding ==
  /\ donow => slipped \/ waiting
  /\ slave = "busy" => donow
  /\ waiting => slipped \/ (work.cam = selected /\ work.whole)

\* What slipped is not made good by asking again (Ask).
LEMMA SlippedStays == ASSUME NEW n, NEW rest, Ask(n, rest), slipped PROVE slipped'
<1>1. PICK wrapped : slipped' = (slipped \/ wrapped)
  BY DEF Ask
<1> QED BY <1>1, Zenon

\* Steps that leave the slave and its picture alone.
LEMMA DecodingKept ==
  ASSUME Decoding, slipped => slipped', UNCHANGED <<donow, slave, waiting, work>>,
         waiting => selected' = selected
  PROVE  Decoding'
BY DEF Decoding

\* Steps of a viewer that does not wait and looks at the slave (LookAtSlave).
LEMMA LookKept ==
  ASSUME Decoding, slipped => slipped', LookAtSlave, ~waiting, waiting' = waiting
  PROVE  Decoding'
BY DEF Decoding, LookAtSlave

\* A turn of the viewer gives the slave a whole picture, or nothing (JC_MSG_IMAGE).
LEMMA TurnDecoding == ASSUME Sound, Decoding, ReadNothing \/ ReadMessage PROVE Decoding'
<1>1. ~waiting
  BY DEF ReadNothing, ReadMessage, ReadFrame, ReadDebris, ReadSkewed, ReadBadImage, ReadImage,
     GoodImage, Reads, Turn
<1>2. slipped => slipped'
  <2>1. \E n, rest : Ask(n, rest)
    BY DEF ReadNothing, ReadMessage, ReadFrame, ReadDebris, ReadSkewed, ReadBadImage, ReadImage,
       GoodImage, EndTurn
  <2> QED BY <2>1, SlippedStays
<1>3. CASE ReadNothing \/ ReadFrame \/ ReadDebris \/ ReadSkewed \/ ReadBadImage
  <2>1. LookAtSlave /\ waiting' = waiting
    BY <1>3 DEF ReadNothing, ReadFrame, ReadDebris, ReadSkewed, ReadBadImage, Idle
  <2> QED BY <1>1, <1>2, <2>1, LookKept
<1>4. CASE ReadImage /\ Head(down).cam # selected
  <2>1. LookAtSlave /\ waiting' = waiting
    BY <1>4 DEF ReadImage
  <2> QED BY <1>1, <1>2, <2>1, LookKept
<1>5. CASE ReadImage /\ Head(down).cam = selected
  <2>1. /\ CopyToSlave(Head(down)) /\ donow' = TRUE /\ waiting' = TRUE /\ slave' = slave
        /\ selected' = selected
    BY <1>5 DEF ReadImage, GoodImage
  <2>2. slipped \/ slave # "busy"
    BY <1>1, Zenon DEF Decoding
  <2>3. CASE slipped
    BY <1>2, <2>1, <2>3, Zenon DEF Decoding
  <2>4. CASE slave # "busy"
    <3>1. work' = [cam |-> Head(down).cam, ver |-> Head(down).ver, whole |-> TRUE, torn |-> Head(down).torn]
      BY <2>1, <2>4, Zenon DEF CopyToSlave
    <3>2. work'.cam = selected' /\ work'.whole
      BY <1>5, <2>1, <3>1
    <3> QED BY <2>1, <3>2 DEF Decoding
  <2> QED BY <2>2, <2>3, <2>4
<1> QED BY <1>3, <1>4, <1>5 DEF ReadMessage

\* Every step keeps the slave's picture what it should be (Next).
LEMMA NextDecoding == Sound /\ Decoding /\ [Next]_vars => Decoding'
<1> SUFFICES ASSUME Sound, Decoding, [Next]_vars PROVE Decoding'
  OBVIOUS
<1>1. ASSUME NEW c \in Cams, Store(c) \/ StoreEnd(c) \/ Clobber(c) \/ Select(c) PROVE Decoding'
  <2>1. UNCHANGED <<donow, slave, waiting, work>> /\ (waiting => selected' = selected)
    BY <1>1 DEF Store, StoreEnd, Clobber, Select, view, decoder
  <2>2. slipped' = slipped \/ slipped' = (slipped \/ c \in moved)
    BY <1>1 DEF Store, StoreEnd, Clobber, Select, marks
  <2>3. slipped => slipped'
    BY <2>2, Zenon
  <2> QED BY <2>1, <2>3, DecodingKept
<1>2. CASE ChildStep \/ ChildSpoils \/ ViewerSpoils \/ Write \/ Refuse \/ Wake \/ Break \/ Tick \/ UNCHANGED vars
  <2>1. UNCHANGED <<donow, slave, waiting, work, selected>>
    BY <1>2 DEF ChildStep, Scan, Serve, CopyEnd, ChildFlush, ChildSpoils, ViewerSpoils, Write, Flush, WriteToDead,
       Refuse, Wake, Break, Tick, vars, view, decoder
  <2>2. slipped' = slipped \/ slipped' = TRUE
    BY <1>2 DEF ChildStep, Scan, Serve, CopyEnd, ChildFlush, ChildSpoils, ViewerSpoils, Write, Flush, WriteToDead,
       Refuse, Wake, Break, Tick, vars, marks
  <2>3. slipped => slipped'
    BY <2>2, Zenon
  <2> QED BY <2>1, <2>3, DecodingKept
<1>3. CASE ReadNothing \/ ReadMessage
  BY <1>3, TurnDecoding
<1>4. CASE ReadEnd \/ ReadClosed
  <2>1. LookAtSlave /\ ~waiting /\ waiting' = waiting /\ slipped' = slipped
    BY <1>4 DEF ReadEnd, ReadClosed, Turn, marks
  <2> QED BY <2>1, LookKept
<1>5. CASE Connect
  <2>1. UNCHANGED <<donow, slave, waiting, work, selected>> /\ ~waiting /\ slipped' = (mid # "no" \/ donow)
    BY <1>5 DEF Connect, Connecting, decoder
  <2> QED BY <2>1 DEF Decoding
<1>6. CASE Decoded
  <2>1. ~donow /\ LookAtSlave /\ waiting' = FALSE
    BY <1>6 DEF Decoded, EndWait
  <2> QED BY <2>1 DEF Decoding, LookAtSlave
<1>7. CASE DecodedLate
  <2>1. slipped' = TRUE /\ LookAtSlave
    BY <1>7 DEF DecodedLate, EndWait
  <2> QED BY <2>1 DEF Decoding, LookAtSlave
<1>8. CASE Slave \/ SlaveDies
  <2>1. UNCHANGED <<waiting, work, selected, slipped>> /\ (donow' => donow) /\ (slave' = "busy" => donow')
    BY <1>8 DEF Slave, SlaveStart, SlaveDone, SlaveDies, view, marks
  <2> QED BY <2>1 DEF Decoding
<1> QED BY <1>1, <1>2, <1>3, <1>4, <1>5, <1>6, <1>7, <1>8 DEF Next, ViewerStep, Wait, Reconnect

\* It holds in every state.
LEMMA AlwaysDecoding == Spec => [](Sound /\ Copying /\ Decoding)
<1>1. Init => Decoding
  BY DEF Init, Decoding
<1> QED BY <1>1, AlwaysSound, NextDecoding, PTL DEF Spec

\* What appears in the window is a whole picture of the selected camera, whatever
\* cameras are selected and pictures arrive while the slave decodes, unless a decode was
\* given up before (reload_image).
THEOREM ShownIsSelected == Spec => ShowsSelected
<1>1. ASSUME Decoding, [Next]_vars
      PROVE  [shown' # shown => (shown'.cam = selected /\ shown'.whole) \/ slipped]_vars
  <2>1. shown' # shown => Decoded
    <3> USE DEF decoder
    <3>1. ASSUME NEW c \in Cams, Store(c) \/ StoreEnd(c) \/ Clobber(c) \/ Select(c) PROVE shown' = shown
      BY <3>1 DEF Store, StoreEnd, Clobber, Select
    <3>2. ChildStep \/ ChildSpoils \/ ViewerSpoils \/ Write => shown' = shown
      BY DEF ChildStep, Scan, Serve, CopyEnd, ChildFlush, ChildSpoils, ViewerSpoils, Write, Flush, WriteToDead
    <3>3. Refuse \/ Wake \/ Break \/ Tick \/ Reconnect \/ UNCHANGED vars => shown' = shown
      BY DEF Refuse, Wake, Break, Tick, Reconnect, ReadEnd, ReadClosed, Connect, vars
    <3>4. ReadNothing \/ ReadMessage => shown' = shown
      BY DEF ReadNothing, ReadMessage, ReadFrame, ReadDebris, ReadSkewed, ReadBadImage, ReadImage, GoodImage, Idle
    <3>5. Slave \/ SlaveDies \/ DecodedLate => shown' = shown
      BY DEF Slave, SlaveStart, SlaveDone, SlaveDies, DecodedLate
    <3> QED BY <1>1, <3>1, <3>2, <3>3, <3>4, <3>5 DEF Next, ViewerStep, Wait
  <2>2. Decoded => waiting /\ shown' = work
    BY DEF Decoded
  <2> QED BY <1>1, <2>1, <2>2 DEF Decoding
<1>2. Decoding /\ [Next]_vars => [shown' # shown => (shown'.cam = selected /\ shown'.whole) \/ slipped]_vars
  BY <1>1
<1> QED BY <1>2, AlwaysDecoding, PTL DEF Spec, ShowsSelected

-----------------------------------------------------------------------------
(* The conversation of a viewer and its child.  What is on its way is taken   *)
(* together with what the writer has yet to write: Going to the child, Coming *)
(* to the viewer.  While nothing slipped, one answer is expected or none, and *)
(* if it will not show the selected camera as it is then a frame number of    *)
(* that camera follows it, or is yet to be sent.                             *)

Going == up \o out
Coming == down \o reply

Steady == link = "live" /\ ~slipped

\* Nothing in it was spoilt, and only the last request and its answer count.
Clean ==
  /\ \A i \in 1..Len(Coming) : Coming[i].good /\ Coming[i].kind \in {"frame", "image"}
                               /\ (Coming[i].latest => Coming[i].kind = "image")
  /\ \A i \in 1..Len(Going) : Going[i].good /\ Going[i].kind \in {"mask", "request"}
                              /\ Going[i].cam \in Cams
                              /\ (Going[i].latest => Going[i].kind = "request")
  /\ mid # "skew"

\* The request that counts is the last message to the child, and once it is answered
\* there is nothing more to come but frame numbers.
Last ==
  /\ \A i \in 1..Len(Going) : Going[i].latest => Going[i].cam = selected /\ i = Len(Going)
  /\ \A i \in 1..Len(Coming) : Coming[i].latest =>
       /\ Coming[i].cam = selected /\ Going = <<>>
       /\ \A j \in 1..Len(Coming) : j > i => Coming[j].kind # "image"

\* The child reports, or will once it has read what is sent, the selected camera.
MaskComes ==
  /\ (\A i \in 1..Len(Going) : Going[i].kind # "mask") => mask = selected
  /\ \A i \in 1..Len(Going) :
       Going[i].kind = "mask" /\ (\A j \in 1..Len(Going) : j > i => Going[j].kind # "mask") =>
         Going[i].cam = selected

\* A frame number of the selected camera follows the k-th message, or is to be sent.
NoticeAfter(k) ==
  selected \in moved
  \/ \E j \in 1..Len(Coming) : j > k /\ Coming[j].kind = "frame" /\ Coming[j].cam = selected

Asked == ~completed /\ Going # <<>> /\ Going[Len(Going)].latest

Answered ==
  /\ ~completed
  /\ \E k \in 1..Len(Coming) : Coming[k].latest /\ (Coming[k].ver = ver[selected] \/ NoticeAfter(k))

\* What the window shows, or will when the slave is done.
Pic == IF waiting THEN work ELSE shown

Settled ==
  /\ completed /\ \A i \in 1..Len(Coming) : Coming[i].kind # "image"
  /\ \/ Going = <<>> /\ Pic.cam = selected /\ Pic.whole /\ (Pic.ver = ver[selected] \/ NoticeAfter(0))
     \/ old /\ \A i \in 1..Len(Going) : Going[i].kind # "request"

Conversation == Clean /\ Last /\ MaskComes /\ (Asked \/ Answered \/ Settled)

Conversing == Steady => Conversation

\* What is on its way, by its parts.
LEMMA OnTheWay ==
  ASSUME Sound
  PROVE  /\ Going \in Seq(Message) /\ Len(Going) \in Nat /\ Len(Going) = Len(up) + Len(out)
         /\ Coming \in Seq(Message) /\ Len(Coming) \in Nat /\ Len(Coming) = Len(down) + Len(reply)
         /\ out = <<>> => Going = up
         /\ up = <<>> => Going = out
         /\ reply = <<>> => Coming = down
         /\ down = <<>> => Coming = reply
<1>1. /\ up \in Seq(Message) /\ out \in Seq(Message) /\ down \in Seq(Message) /\ reply \in Seq(Message)
  BY Lying
<1>2. Going \in Seq(Message) /\ Len(Going) = Len(up) + Len(out)
  BY <1>1, Joined DEF Going
<1>3. Coming \in Seq(Message) /\ Len(Coming) = Len(down) + Len(reply)
  BY <1>1, Joined DEF Coming
<1>4. (out = <<>> => Going = up) /\ (up = <<>> => Going = out)
  BY <1>1, ConcatEmptySeq DEF Going
<1>5. (reply = <<>> => Coming = down) /\ (down = <<>> => Coming = reply)
  BY <1>1, ConcatEmptySeq DEF Coming
<1>6. Len(Going) \in Nat /\ Len(Coming) \in Nat
  BY <1>2, <1>3
<1> QED BY <1>2, <1>3, <1>4, <1>5, <1>6

\* Steps that leave the conversation alone: what is shown or will be is the same, and no
\* frame number is forgotten.
LEMMA QuietStep ==
  ASSUME Conversation, Going' = Going, Coming' = Coming, UNCHANGED <<mask, selected, completed, ver>>,
         moved \subseteq moved', Pic' = Pic, old => old', mid' # "skew"
  PROVE  Conversation'
<1>1. Clean'
  BY DEF Conversation, Clean
<1>2. Last'
  BY DEF Conversation, Last
<1>3. MaskComes'
  BY DEF Conversation, MaskComes
<1>4. \A k : NoticeAfter(k) => NoticeAfter(k)'
  BY DEF NoticeAfter
<1>5. Asked => Asked'
  BY DEF Asked
<1>6. Answered => Answered'
  BY <1>4 DEF Answered
<1>7. Settled => Settled'
  BY <1>4 DEF Settled
<1> QED BY <1>1, <1>2, <1>3, <1>5, <1>6, <1>7 DEF Conversation

\* A new picture: its frame number is to be sent.
LEMMA StoreConverses ==
  ASSUME Sound, Conversation, NEW c \in Cams, Store(c), link = "live"
  PROVE  Conversation'
<1>1. /\ UNCHANGED <<mask, selected, completed, old, mid>> /\ Going' = Going /\ Coming' = Coming /\ Pic' = Pic
      /\ moved' = moved \cup {c} /\ ver' = [ver EXCEPT ![c] = @ + 1]
  BY DEF Store, view, decoder, Going, Coming, Pic
<1>2. /\ \A k : NoticeAfter(k) => NoticeAfter(k)'
      /\ c = selected => \A k : NoticeAfter(k)'
  BY <1>1 DEF NoticeAfter
<1>3. ver \in [Cams -> Ver] /\ selected \in Cams
  BY SoundParts DEF Counts, ViewerPart
<1>4. c = selected \/ ver'[selected'] = ver[selected]
  BY <1>1, <1>3
<1>5. Clean'
  BY <1>1 DEF Conversation, Clean
<1>6. Last'
  BY <1>1 DEF Conversation, Last
<1>7. MaskComes'
  BY <1>1 DEF Conversation, MaskComes
<1>8. Asked => Asked'
  BY <1>1 DEF Asked
<1>9. Answered => Answered'
  BY <1>1, <1>2, <1>4 DEF Answered
<1>10. Settled => Settled'
  BY <1>1, <1>2, <1>4 DEF Settled
<1> QED BY <1>5, <1>6, <1>7, <1>8, <1>9, <1>10 DEF Conversation

\* A scan sends what it forgets, for the camera in the mask (Scan).
LEMMA ScanConverses ==
  ASSUME Sound, Conversation, Scan
  PROVE  Conversation'
<1> DEFINE f == Msg("frame", mask, 0, FALSE)
<1>1. /\ UNCHANGED <<mask, selected, completed, old, mid, ver>> /\ Going' = Going /\ Pic' = Pic /\ moved' = {}
      /\ reply = <<>> /\ ChildWrites(IF mask \in moved THEN <<f>> ELSE <<>>)
  BY DEF Scan, view, decoder, Going, Pic
<1>2. Coming \in Seq(Message) /\ Len(Coming) \in Nat /\ Coming = down /\ Going \in Seq(Message) /\ Len(Going) \in Nat
  BY <1>1, OnTheWay
<1>3. /\ f \in Message /\ f.kind = "frame" /\ f.cam = mask /\ ~f.latest /\ f.good
  <2>1. mask \in Cams \cup {None} /\ 0 \in Ver
    BY SoundParts, ViewerAssumption DEF ServerPart, Ver
  <2>2. f \in Message
    BY <2>1, Written1
  <2> QED BY <2>2 DEF Msg
<1>4. mask \notin moved => Coming' = Coming
  <2> SUFFICES ASSUME mask \notin moved PROVE Coming' = Coming
    OBVIOUS
  <2>1. ChildWrites(<<>>)
    BY <1>1, Zenon
  <2>2. <<>> \in Seq(Message) /\ Len(<<>>) <= 2
    OBVIOUS
  <2>3. down' \o reply' = down \o <<>>
    BY <2>1, <2>2, ChildWriting, Zenon
  <2>4. down \o <<>> = down
    BY <1>2, ConcatEmptySeq
  <2> QED BY <1>2, <2>3, <2>4 DEF Coming
<1> HIDE DEF f
<1>5. mask \in moved =>
        /\ Len(Coming') = Len(Coming) + 1 /\ Coming'[Len(Coming) + 1] = f
        /\ \A i \in 1..Len(Coming) : Coming'[i] = Coming[i]
  <2> SUFFICES ASSUME mask \in moved
               PROVE  /\ Len(Coming') = Len(Coming) + 1 /\ Coming'[Len(Coming) + 1] = f
                      /\ \A i \in 1..Len(Coming) : Coming'[i] = Coming[i]
    OBVIOUS
  <2>1. ChildWrites(<<f>>)
    BY <1>1, Zenon
  <2>2. <<f>> \in Seq(Message) /\ Len(<<f>>) = 1 /\ <<f>>[1] = f
    BY <1>3
  <2>3. Len(<<f>>) <= 2
    BY <1>3
  <2>4. down' \o reply' = down \o <<f>>
    BY <2>1, <2>2, <2>3, ChildWriting, Zenon
  <2>5. Coming' = Coming \o <<f>>
    BY <1>2, <2>4 DEF Coming
  <2>6. /\ Len(Coming \o <<f>>) = Len(Coming) + Len(<<f>>)
        /\ \A i \in 1..Len(Coming) : (Coming \o <<f>>)[i] = Coming[i]
        /\ \A i \in 1..Len(<<f>>) : (Coming \o <<f>>)[Len(Coming) + i] = <<f>>[i]
    BY <1>2, <2>2, Joined
  <2>7. 1 \in 1..Len(<<f>>)
    BY <2>2
  <2> QED BY <2>2, <2>5, <2>6, <2>7
<1>6. /\ \A i \in 1..Len(Coming) : Coming'[i] = Coming[i]
      /\ Len(Coming') = Len(Coming) \/ (Len(Coming') = Len(Coming) + 1 /\ Coming'[Len(Coming) + 1] = f)
  BY <1>4, <1>5
<1>7. Clean'
  BY <1>1, <1>2, <1>3, <1>6 DEF Conversation, Clean
<1>8. Last'
  BY <1>1, <1>2, <1>3, <1>6 DEF Conversation, Last
<1>9. MaskComes'
  BY <1>1 DEF Conversation, MaskComes
<1>10. ASSUME Going = <<>>, NEW k \in 0..Len(Coming), NoticeAfter(k) PROVE NoticeAfter(k)'
  <2>1. mask = selected
    BY <1>10 DEF Conversation, MaskComes
  <2>2. CASE selected \in moved
    <3>1. Len(Coming) + 1 \in 1..Len(Coming') /\ Len(Coming) + 1 > k /\ Coming'[Len(Coming) + 1] = f
      BY <1>2, <1>5, <2>1, <2>2
    <3> QED BY <1>1, <1>3, <2>1, <3>1 DEF NoticeAfter
  <2>3. CASE selected \notin moved
    <3>1. PICK j \in 1..Len(Coming) : j > k /\ Coming[j].kind = "frame" /\ Coming[j].cam = selected
      BY <1>10, <2>3 DEF NoticeAfter
    <3>2. j \in 1..Len(Coming') /\ Coming'[j] = Coming[j]
      BY <1>2, <1>6
    <3> QED BY <1>1, <3>1, <3>2 DEF NoticeAfter
  <2> QED BY <2>2, <2>3
<1>11. Asked => Asked'
  BY <1>1 DEF Asked
<1>12. Answered => Answered'
  <2> SUFFICES ASSUME Answered PROVE Answered'
    OBVIOUS
  <2>1. PICK k \in 1..Len(Coming) : Coming[k].latest /\ (Coming[k].ver = ver[selected] \/ NoticeAfter(k))
    BY DEF Answered
  <2>2. Going = <<>>
    BY <2>1 DEF Conversation, Last
  <2>3. NoticeAfter(k) => NoticeAfter(k)'
    BY <1>10, <2>2
  <2>4. k \in 1..Len(Coming') /\ Coming'[k] = Coming[k]
    BY <1>2, <1>6
  <2> QED BY <1>1, <2>1, <2>3, <2>4 DEF Answered
<1>13. Settled => Settled'
  <2> SUFFICES ASSUME Settled PROVE Settled'
    OBVIOUS
  <2>1. \A i \in 1..Len(Coming') : Coming'[i].kind # "image"
    BY <1>2, <1>3, <1>6 DEF Settled
  <2>2. Going = <<>> => (NoticeAfter(0) => NoticeAfter(0)')
    BY <1>2, <1>10
  <2> QED BY <1>1, <2>1, <2>2 DEF Settled
<1> QED BY <1>7, <1>8, <1>9, <1>11, <1>12, <1>13 DEF Conversation

\* The first message to the child, while nothing slipped.
LEMMA FirstGoing ==
  ASSUME Sound, Conversation, up # <<>>
  PROVE  /\ Len(Going) \in Nat /\ Len(Going) >= 1 /\ Going[1] = Head(up) /\ Going # <<>>
         /\ Tail(up) \o out = Tail(Going)
         /\ Len(Tail(Going)) = Len(Going) - 1
         /\ \A i \in 1..(Len(Going) - 1) : Tail(Going)[i] = Going[i + 1]
         /\ Head(up) \in Message /\ Head(up).kind \in {"mask", "request"} /\ Head(up).cam \in Cams
<1>1. up \in Seq(Message) /\ out \in Seq(Message) /\ Going \in Seq(Message) /\ Len(Going) \in Nat
  BY Lying, OnTheWay
<1>2. Going # <<>> /\ Going[1] = Head(up) /\ Tail(up) \o out = Tail(Going)
  BY <1>1, BeheadedJoin DEF Going
<1>3. /\ Len(Going) \in Nat \ {0} /\ Len(Tail(Going)) = Len(Going) - 1
      /\ \A i \in 1..(Len(Going) - 1) : Tail(Going)[i] = Going[i + 1]
  BY <1>1, <1>2, Beheaded
<1>6. Len(Going) \in Nat /\ Len(Going) >= 1
  <2> DEFINE n == Len(Going)
  <2>1. n \in Nat \ {0}
    BY <1>3
  <2> HIDE DEF n
  <2>2. n \in Nat /\ n >= 1
    BY ONLY <2>1
  <2> QED BY ONLY <2>2 DEF n
<1>4. 1 \in 1..Len(Going)
  BY ONLY <1>6
<1>5. Head(up) \in Message /\ Head(up).kind \in {"mask", "request"} /\ Head(up).cam \in Cams
  BY <1>1, <1>2, <1>4 DEF Conversation, Clean
<1> QED BY <1>2, <1>3, <1>5, <1>6, Zenon

\* A mask that is read is the one reported (JC_MSG_MASK).
LEMMA MaskConverses ==
  ASSUME Sound, Conversation, Serve, up # <<>>, Head(up).kind = "mask"
  PROVE  Conversation'
<1>1. /\ UNCHANGED <<moved, selected, completed, old, mid, ver>> /\ Pic' = Pic /\ mask' = Head(up).cam
      /\ up' = Tail(up) /\ out' = out /\ reply' = reply /\ down' = down
  BY DEF Serve, view, decoder, Pic
<1> DEFINE t == Tail(Going)
<1>2. /\ Tail(up) \o out = t /\ Len(t) = Len(Going) - 1
      /\ \A i \in 1..(Len(Going) - 1) : t[i] = Going[i + 1]
  BY FirstGoing, Zenon
<1> HIDE DEF t
<1>11. Going' = t
  BY <1>1, <1>2 DEF Going
<1>12. Len(Going) \in Nat /\ Len(Going) >= 1
  BY FirstGoing, Zenon
<1>3. /\ Len(Going') \in Nat /\ Len(Going') = Len(Going) - 1
      /\ \A i \in 1..Len(Going') : Going'[i] = Going[i + 1]
  BY ONLY <1>2, <1>11, <1>12
<1>13. Going[1] = Head(up) /\ Going # <<>>
  BY FirstGoing, Zenon
<1>4. Coming' = Coming
  BY <1>1 DEF Coming
<1>5. Clean'
  BY <1>1, <1>12, <1>13, <1>3, <1>4 DEF Conversation, Clean
<1>6. Going[1].kind = "mask" /\ ~Going[1].latest
  <2>1. 1 \in 1..Len(Going)
    BY <1>12
  <2> QED BY <1>12, <1>13, <2>1 DEF Conversation, Clean
<1>7. ~Answered
  BY <1>13 DEF Answered, Conversation, Last
<1>8. Last'
  <2>1. \A i \in 1..Len(Coming) : ~Coming[i].latest
    BY <1>13 DEF Conversation, Last
  <2>2. ASSUME NEW i \in 1..Len(Going'), Going'[i].latest
        PROVE  Going'[i].cam = selected /\ i = Len(Going')
    <3>1. i + 1 \in 1..Len(Going) /\ Going'[i] = Going[i + 1]
      BY <1>3, <1>12
    <3>2. Going[i + 1].cam = selected /\ i + 1 = Len(Going)
      BY <2>2, <3>1 DEF Conversation, Last
    <3> QED BY <1>3, <1>12, <3>1, <3>2
  <2> QED BY <1>1, <1>4, <2>1, <2>2 DEF Last
<1>9. MaskComes'
  <2>1. (\A i \in 1..Len(Going') : Going'[i].kind # "mask") => mask' = selected
    <3> SUFFICES ASSUME \A i \in 1..Len(Going') : Going'[i].kind # "mask" PROVE mask' = selected
      OBVIOUS
    <3>1. ASSUME NEW j \in 1..Len(Going), j > 1 PROVE Going[j].kind # "mask"
      <4>1. j - 1 \in 1..Len(Going') /\ Going'[j - 1] = Going[j]
        BY <1>12, <1>13, <1>3, <3>1
      <4> QED BY <4>1
    <3>2. 1 \in 1..Len(Going)
      BY <1>12
    <3> QED BY <1>1, <1>12, <1>13, <1>6, <3>1, <3>2 DEF Conversation, MaskComes
  <2>2. ASSUME NEW i \in 1..Len(Going'), Going'[i].kind = "mask",
               \A j \in 1..Len(Going') : j > i => Going'[j].kind # "mask"
        PROVE  Going'[i].cam = selected
    <3>1. i + 1 \in 1..Len(Going) /\ Going'[i] = Going[i + 1]
      BY <1>12, <1>13, <1>3
    <3>2. ASSUME NEW j \in 1..Len(Going), j > i + 1 PROVE Going[j].kind # "mask"
      <4>1. j - 1 \in 1..Len(Going') /\ Going'[j - 1] = Going[j] /\ j - 1 > i
        BY <1>12, <1>13, <1>3, <3>2
      <4> QED BY <2>2, <4>1
    <3> QED BY <2>2, <3>1, <3>2 DEF Conversation, MaskComes
  <2> QED BY <1>1, <2>1, <2>2 DEF MaskComes
<1>10. Asked => Asked'
  <2> SUFFICES ASSUME Asked PROVE Asked'
    OBVIOUS
  <2>1. Len(Going) > 1
    BY <1>12, <1>13, <1>6 DEF Asked
  <2>2. Going' # <<>> /\ Going'[Len(Going')] = Going[Len(Going)]
    <3>1. Len(Going) - 1 \in 1..(Len(Going) - 1) /\ (Len(Going) - 1) + 1 = Len(Going)
      BY <1>12, <1>13, <2>1
    <3>2. Len(Going') # 0
      BY <1>12, <1>13, <1>3, <2>1
    <3> QED BY <1>3, <3>1, <3>2
  <2> QED BY <1>1, <2>2 DEF Asked
<1>14. Settled => Settled'
  <2>1. (\A i \in 1..Len(Going) : Going[i].kind # "request")
        => (\A i \in 1..Len(Going') : Going'[i].kind # "request")
    BY <1>12, <1>13, <1>3
  <2> QED BY <1>1, <1>12, <1>13, <1>4, <2>1 DEF Settled
<1> QED BY <1>5, <1>7, <1>8, <1>9, <1>10, <1>14 DEF Conversation

\* What is appended to what comes to the viewer.
LEMMA OneMoreComing ==
  ASSUME Sound, NEW a \in Message, reply = <<>>, reply' = <<a>>, down' = down
  PROVE  /\ Len(Coming) \in Nat /\ Len(Coming') = Len(Coming) + 1 /\ Coming'[Len(Coming) + 1] = a
         /\ \A i \in 1..Len(Coming) : Coming'[i] = Coming[i]
<1>1. Coming \in Seq(Message) /\ Len(Coming) \in Nat /\ Coming = down
  BY OnTheWay
<1>2. <<a>> \in Seq(Message) /\ Len(<<a>>) = 1 /\ <<a>>[1] = a
  OBVIOUS
<1>5. Coming' = Coming \o <<a>>
  BY <1>1 DEF Coming
<1>6. /\ Len(Coming \o <<a>>) = Len(Coming) + Len(<<a>>)
      /\ \A i \in 1..Len(Coming) : (Coming \o <<a>>)[i] = Coming[i]
      /\ \A i \in 1..Len(<<a>>) : (Coming \o <<a>>)[Len(Coming) + i] = <<a>>[i]
  BY <1>1, <1>2, Joined
<1>7. 1 \in 1..Len(<<a>>)
  OBVIOUS
<1> QED BY <1>1, <1>2, <1>5, <1>6, <1>7

\* A request that is read is answered with the picture as it is (JC_MSG_REQUEST).
LEMMA AnswerConverses ==
  ASSUME Sound, Conversation, Serve, up # <<>>, Head(up).kind = "request"
  PROVE  Conversation'
<1> DEFINE m == Head(up)
           a == Msg("image", m.cam, ver[m.cam], m.latest)
           t == Tail(Going)
<1>1. /\ UNCHANGED <<moved, selected, completed, old, mid, ver, mask>> /\ Pic' = Pic
      /\ up' = Tail(up) /\ out' = out /\ reply = <<>> /\ reply' = <<a>> /\ down' = down
  BY DEF Serve, Answer, view, decoder, Pic
<1>2. /\ Tail(up) \o out = t /\ Len(t) = Len(Going) - 1
      /\ \A i \in 1..(Len(Going) - 1) : t[i] = Going[i + 1]
  BY FirstGoing, Zenon
<1>3. /\ Going[1] = m /\ Going # <<>> /\ m \in Message /\ m.cam \in Cams
  BY FirstGoing, Zenon
<1>4. Len(Going) \in Nat /\ Len(Going) >= 1
  BY FirstGoing, Zenon
<1> HIDE DEF t
<1>5. Going' = t
  BY <1>1, <1>2 DEF Going
<1>6. /\ Len(Going') \in Nat /\ Len(Going') = Len(Going) - 1
      /\ \A i \in 1..Len(Going') : Going'[i] = Going[i + 1]
  BY ONLY <1>2, <1>4, <1>5
<1>7. m.kind = "request"
  OBVIOUS
<1> HIDE DEF m
<1>8. a \in Message /\ a.kind = "image" /\ a.cam = m.cam /\ a.ver = ver[m.cam] /\ a.latest = m.latest /\ a.good
  <2>1. m.cam \in Cams /\ m.latest \in BOOLEAN /\ ver[m.cam] \in Ver
    BY <1>3, SoundParts DEF Message, Counts
  <2>2. a \in Message
    BY <2>1, Written1
  <2> QED BY <2>2 DEF Msg
<1> HIDE DEF a
<1>9. /\ Len(Coming) \in Nat /\ Len(Coming') = Len(Coming) + 1 /\ Coming'[Len(Coming) + 1] = a
      /\ \A i \in 1..Len(Coming) : Coming'[i] = Coming[i]
  BY <1>1, <1>8, OneMoreComing
<1>10. Clean'
  <2>1. \A i \in 1..Len(Coming') : Coming'[i].good /\ Coming'[i].kind \in {"frame", "image"}
                                  /\ (Coming'[i].latest => Coming'[i].kind = "image")
    BY <1>8, <1>9 DEF Conversation, Clean
  <2> QED BY <1>1, <1>4, <1>6, <2>1 DEF Conversation, Clean
<1>11. \A i \in 1..Len(Coming) : ~Coming[i].latest
  BY <1>3 DEF Conversation, Last
<1>12. a.latest => Going' = <<>> /\ a.cam = selected
  <2> SUFFICES ASSUME a.latest PROVE Going' = <<>> /\ a.cam = selected
    OBVIOUS
  <2>1. 1 \in 1..Len(Going) /\ Going[1].latest
    BY <1>3, <1>4, <1>8
  <2>2. Len(Going) = 1 /\ a.cam = selected
    BY <1>3, <1>8, <2>1 DEF Conversation, Last
  <2>3. Going' \in Seq(Message)
    BY <1>5, OnTheWay, <1>3, Beheaded DEF t
  <2> QED BY <1>6, <2>2, <2>3
<1>13. Last'
  <2>1. ASSUME NEW i \in 1..Len(Going'), Going'[i].latest
        PROVE  Going'[i].cam = selected /\ i = Len(Going')
    <3>1. i + 1 \in 1..Len(Going) /\ Going'[i] = Going[i + 1]
      BY <1>4, <1>6
    <3>2. Going[i + 1].cam = selected /\ i + 1 = Len(Going)
      BY <2>1, <3>1 DEF Conversation, Last
    <3> QED BY <1>4, <1>6, <3>1, <3>2
  <2>2. ASSUME NEW i \in 1..Len(Coming'), Coming'[i].latest
        PROVE  /\ Coming'[i].cam = selected /\ Going' = <<>>
               /\ \A j \in 1..Len(Coming') : j > i => Coming'[j].kind # "image"
    <3>1. i = Len(Coming) + 1
      BY <1>9, <1>11, <2>2
    <3> QED BY <1>9, <1>12, <2>2, <3>1
  <2> QED BY <1>1, <2>1, <2>2 DEF Last
<1>14. MaskComes'
  <2>1. (\A i \in 1..Len(Going') : Going'[i].kind # "mask") => mask' = selected
    <3> SUFFICES ASSUME \A i \in 1..Len(Going') : Going'[i].kind # "mask" PROVE mask' = selected
      OBVIOUS
    <3>1. ASSUME NEW j \in 1..Len(Going) PROVE Going[j].kind # "mask"
      <4>1. CASE j = 1
        BY <1>3, <1>7, <4>1
      <4>2. CASE j > 1
        <5>1. j - 1 \in 1..Len(Going') /\ Going'[j - 1] = Going[j]
          BY <1>4, <1>6, <4>2
        <5> QED BY <5>1
      <4> QED BY <4>1, <4>2
    <3> QED BY <1>1, <3>1 DEF Conversation, MaskComes
  <2>2. ASSUME NEW i \in 1..Len(Going'), Going'[i].kind = "mask",
               \A j \in 1..Len(Going') : j > i => Going'[j].kind # "mask"
        PROVE  Going'[i].cam = selected
    <3>1. i + 1 \in 1..Len(Going) /\ Going'[i] = Going[i + 1]
      BY <1>4, <1>6
    <3>2. ASSUME NEW j \in 1..Len(Going), j > i + 1 PROVE Going[j].kind # "mask"
      <4>1. j - 1 \in 1..Len(Going') /\ Going'[j - 1] = Going[j] /\ j - 1 > i
        BY <1>4, <1>6, <3>2
      <4> QED BY <2>2, <4>1
    <3> QED BY <2>2, <3>1, <3>2 DEF Conversation, MaskComes
  <2> QED BY <1>1, <2>1, <2>2 DEF MaskComes
<1>15. Asked => Asked' \/ Answered'
  <2> SUFFICES ASSUME Asked PROVE Asked' \/ Answered'
    OBVIOUS
  <2>1. CASE Len(Going) = 1
    <3>1. a.latest /\ a.cam = selected /\ a.ver = ver[selected]
      BY <1>3, <1>8, <1>12, <2>1 DEF Asked
    <3>2. Len(Coming) + 1 \in 1..Len(Coming')
      BY <1>9
    <3> QED BY <1>1, <1>9, <3>1, <3>2 DEF Asked, Answered
  <2>2. CASE Len(Going) > 1
    <3>1. Going' # <<>> /\ Going'[Len(Going')] = Going[Len(Going)]
      <4>1. Len(Going) - 1 \in 1..(Len(Going) - 1) /\ (Len(Going) - 1) + 1 = Len(Going)
        BY <1>4, <2>2
      <4>2. Len(Going') # 0
        BY <1>4, <1>6, <2>2
      <4> QED BY <1>6, <4>1, <4>2
    <3> QED BY <1>1, <3>1 DEF Asked
  <2>3. Len(Going) = 1 \/ Len(Going) > 1
    <3>1. \A l \in Nat : l >= 1 => l = 1 \/ l > 1
      OBVIOUS
    <3> QED BY <1>4, <3>1, Zenon
  <2> QED BY ONLY <2>1, <2>2, <2>3, Zenon
<1>16. ~Answered
  BY <1>11 DEF Answered
<1>17. ~Settled
  <2>1. 1 \in 1..Len(Going)
    BY <1>4
  <2> QED BY <1>3, <1>7, <2>1 DEF Settled
<1> QED BY <1>10, <1>13, <1>14, <1>15, <1>16, <1>17 DEF Conversation

\* New messages behind retired ones.
Behind(p, q, ms) ==
  /\ Len(q) \in Nat /\ Len(ms) \in Nat /\ Len(p) = Len(q) + Len(ms)
  /\ \A i \in 1..Len(q) : /\ p[i].kind = q[i].kind /\ p[i].cam = q[i].cam
                          /\ p[i].good = q[i].good /\ p[i].latest = FALSE
  /\ \A i \in 1..Len(ms) : p[Len(q) + i] = ms[i]
  /\ \A i \in 1..Len(p) : i > Len(q) => i - Len(q) \in 1..Len(ms) /\ p[i] = ms[i - Len(q)]

LEMMA BehindRetired ==
  ASSUME NEW q \in Seq(Message), NEW ms \in Seq(Message)
  PROVE  Behind(Retired(q) \o ms, q, ms)
<1> DEFINE r == Retired(q)
<1>1. Len(q) \in Nat /\ Len(ms) \in Nat
  BY LenProperties
<1>2. /\ r \in Seq(Message) /\ Len(r) = Len(q)
      /\ \A i \in 1..Len(q) : /\ r[i].kind = q[i].kind /\ r[i].cam = q[i].cam
                              /\ r[i].good = q[i].good /\ r[i].latest = FALSE
  BY RetiredType, Zenon
<1> HIDE DEF r
<1> DEFINE p == r \o ms
<1>4. /\ Len(r \o ms) = Len(r) + Len(ms)
      /\ \A i \in 1..Len(r) : (r \o ms)[i] = r[i]
      /\ \A i \in 1..Len(ms) : (r \o ms)[Len(r) + i] = ms[i]
  <2>1. r \in Seq(Message) /\ ms \in Seq(Message)
    BY <1>2
  <2> QED BY ONLY <2>1, Joined
<1> HIDE DEF p
<1>5. /\ Len(p) = Len(q) + Len(ms)
      /\ \A i \in 1..Len(q) : p[i] = r[i]
      /\ \A i \in 1..Len(ms) : p[Len(q) + i] = ms[i]
  BY <1>2, <1>4, Zenon DEF p
<1> DEFINE n == Len(q)
           k == Len(ms)
           l == Len(p)
<1>6. /\ n \in Nat /\ k \in Nat /\ l = n + k /\ \A i \in 1..k : p[n + i] = ms[i]
  BY <1>1, <1>5, Zenon
<1> HIDE DEF n, k, l
<1>7. \A i \in 1..l : i > n => i - n \in 1..k /\ p[i] = ms[i - n]
  <2> SUFFICES ASSUME NEW i \in 1..l, i > n PROVE i - n \in 1..k /\ p[i] = ms[i - n]
    OBVIOUS
  <2>1. i - n \in 1..k /\ n + (i - n) = i
    BY ONLY <1>6, i \in 1..l, i > n
  <2>2. p[n + (i - n)] = ms[i - n]
    BY <1>6, <2>1, Zenon
  <2> QED BY <2>1, <2>2, Zenon
<1>8. \A i \in 1..Len(q) : /\ p[i].kind = q[i].kind /\ p[i].cam = q[i].cam
                           /\ p[i].good = q[i].good /\ p[i].latest = FALSE
  BY <1>2, <1>5, Zenon
<1>9. \A i \in 1..Len(p) : i > Len(q) => i - Len(q) \in 1..Len(ms) /\ p[i] = ms[i - Len(q)]
  BY <1>7, Zenon DEF n, k, l
<1> QED
  <2>1. Behind(p, q, ms)
    BY <1>1, <1>5, <1>8, <1>9, Zenon DEF Behind
  <2> QED BY <2>1, Zenon DEF p, r

\* Whoever asks anew retires what is on its way and ends with the request that counts
\* (do_image_request, highlight_button).
LEMMA AskedAnew ==
  ASSUME Sound, Conversation, NEW ms \in Seq(Message), NEW rest \in Seq(Message),
         Len(ms) \in Nat, Len(ms) >= 1,
         Going' = Retired(Going) \o ms, Coming' = Retired(rest),
         \A i \in 1..Len(rest) : rest[i].good /\ rest[i].kind \in {"frame", "image"},
         \A i \in 1..Len(ms) : /\ ms[i].good /\ ms[i].kind \in {"mask", "request"} /\ ms[i].cam = selected'
                               /\ ms[i].latest => i = Len(ms) /\ ms[i].kind = "request",
         ms[Len(ms)].latest, selected' \in Cams,
         selected' = selected \/ ms[1].kind = "mask",
         completed' = FALSE, mask' = mask, mid' # "skew"
  PROVE  Conversation'
<1> DEFINE n == Len(Going)
           k == Len(ms)
<1>1. Going \in Seq(Message) /\ rest \in Seq(Message)
  BY OnTheWay, Zenon
<1>2. /\ Len(Going) \in Nat /\ Len(ms) \in Nat /\ Len(Going') = Len(Going) + Len(ms)
      /\ \A i \in 1..Len(Going) : /\ Going'[i].kind = Going[i].kind /\ Going'[i].cam = Going[i].cam
                                  /\ Going'[i].good = Going[i].good /\ Going'[i].latest = FALSE
      /\ \A i \in 1..Len(ms) : Going'[Len(Going) + i] = ms[i]
      /\ \A i \in 1..Len(Going') : i > Len(Going) =>
           i - Len(Going) \in 1..Len(ms) /\ Going'[i] = ms[i - Len(Going)]
  <2>1. Behind(Retired(Going) \o ms, Going, ms)
    BY <1>1, BehindRetired, Zenon
  <2>2. Behind(Going', Going, ms)
    BY <2>1, Zenon
  <2> QED BY <2>2, Zenon DEF Behind
<1>3. /\ n \in Nat /\ k \in Nat /\ k >= 1 /\ Len(Going') = n + k
      /\ \A i \in 1..k : Going'[n + i] = ms[i]
  BY <1>2, Zenon
<1>4. /\ Len(Coming') = Len(rest)
      /\ \A i \in 1..Len(rest) : /\ Coming'[i].kind = rest[i].kind /\ Coming'[i].good = rest[i].good
                                 /\ Coming'[i].latest = FALSE
  <2> DEFINE r == Retired(rest)
  <2>1. /\ Len(r) = Len(rest)
        /\ \A i \in 1..Len(rest) : /\ r[i].kind = rest[i].kind /\ r[i].good = rest[i].good
                                   /\ r[i].latest = FALSE
    BY ONLY rest \in Seq(Message), RetiredType, Zenon
  <2>2. Coming' = r
    OBVIOUS
  <2> HIDE DEF r
  <2> QED BY ONLY <2>1, <2>2
<1>5. ASSUME NEW i \in 1..Len(Going'), i > n PROVE i - n \in 1..k /\ Going'[i] = ms[i - n]
  BY <1>2, <1>5, Zenon
<1>6. \A i \in 1..n : /\ Going'[i].kind = Going[i].kind /\ Going'[i].cam = Going[i].cam
                      /\ Going'[i].good = Going[i].good /\ Going'[i].latest = FALSE
  BY <1>2, Zenon
<1>11. \A i \in 1..n : /\ Going[i].good /\ Going[i].kind \in {"mask", "request"} /\ Going[i].cam \in Cams
  BY Zenon DEF Conversation, Clean
<1>12. /\ (\A i \in 1..n : Going[i].kind # "mask") => mask = selected
       /\ \A i \in 1..n : Going[i].kind = "mask" /\ (\A j \in 1..n : j > i => Going[j].kind # "mask")
                          => Going[i].cam = selected
  BY Zenon DEF Conversation, MaskComes
<1>13. /\ \A i \in 1..k : /\ ms[i].good /\ ms[i].kind \in {"mask", "request"} /\ ms[i].cam = selected'
                           /\ ms[i].latest => i = k /\ ms[i].kind = "request"
       /\ ms[k].latest
  OBVIOUS
<1>17. selected' \in Cams
  OBVIOUS
<1>18. \A i \in 1..k : ms[i].cam = selected'
  OBVIOUS
<1>19. \A i \in 1..k : ms[i].latest => i = k
  OBVIOUS
<1>20. \A i \in 1..k : ms[i].good /\ ms[i].kind \in {"mask", "request"} /\ (ms[i].latest => ms[i].kind = "request")
  OBVIOUS
<1> HIDE DEF n, k
<1>14. \A i \in 1..n : i \in 1..(n + k) /\ ~(i > n)
  BY <1>3
<1>15. \A i \in 1..(n + k) : i \in 1..n \/ i > n
  BY <1>3
<1>16. n + 1 \in 1..(n + k) /\ 1 \in 1..k /\ Going'[n + 1] = ms[1] /\ \A i \in 1..n : n + 1 > i
  BY <1>3
<1>7. Clean'
  <2>1. ASSUME NEW i \in 1..Len(Going')
        PROVE  Going'[i].good /\ Going'[i].kind \in {"mask", "request"} /\ Going'[i].cam \in Cams
               /\ (Going'[i].latest => Going'[i].kind = "request")
    <3>1. CASE i \in 1..n
      BY <1>6, <1>11, <3>1, Zenon
    <3>2. CASE i > n
      <4>1. i - n \in 1..k /\ Going'[i] = ms[i - n]
        BY <1>3, <1>5, <3>2, Zenon
      <4> DEFINE j == i - n
      <4> HIDE DEF j
      <4>2. j \in 1..k /\ Going'[i] = ms[j]
        BY <4>1 DEF j
      <4>3. ms[j].good /\ ms[j].kind \in {"mask", "request"} /\ (ms[j].latest => ms[j].kind = "request")
        BY ONLY <1>20, <4>2, Zenon
      <4>5. ms[j].cam = selected'
        BY ONLY <1>18, <4>2, Zenon
      <4>4. ms[j].cam \in Cams
        BY <1>17, <4>5
      <4> QED BY ONLY <4>2, <4>3, <4>4, Zenon
    <3> QED BY <1>3, <1>15, <3>1, <3>2, Zenon
  <2>2. \A i \in 1..Len(Coming') : Coming'[i].good /\ Coming'[i].kind \in {"frame", "image"}
                                   /\ (Coming'[i].latest => Coming'[i].kind = "image")
    BY <1>4
  <2> QED BY <2>1, <2>2 DEF Clean
<1>8. Last'
  <2>1. ASSUME NEW i \in 1..Len(Going'), Going'[i].latest
        PROVE  Going'[i].cam = selected' /\ i = Len(Going')
    <3>1. i > n
      BY <1>3, <1>6, <1>15, <2>1, Zenon
    <3>2. i - n \in 1..k /\ Going'[i] = ms[i - n]
      BY <1>3, <1>5, <3>1
    <3> DEFINE j == i - n
    <3>3. j \in 1..k /\ Going'[i] = ms[j]
      BY <3>2
    <3>4. j = k => i = n + k
      BY <1>3
    <3> HIDE DEF j
    <3>5. ms[j].latest => j = k
      BY ONLY <1>19, <3>3, Zenon
    <3>6. ms[j].cam = selected'
      BY ONLY <1>18, <3>3, Zenon
    <3>7. ms[j].latest
      BY ONLY <2>1, <3>3
    <3> QED BY <1>3, <3>3, <3>4, <3>5, <3>6, <3>7, Zenon
  <2>2. \A i \in 1..Len(Coming') : ~Coming'[i].latest
    BY <1>4
  <2> QED BY <2>1, <2>2 DEF Last
<1>9. MaskComes'
  <2>1. (\A i \in 1..Len(Going') : Going'[i].kind # "mask") => mask' = selected'
    <3> SUFFICES ASSUME \A i \in 1..Len(Going') : Going'[i].kind # "mask" PROVE mask' = selected'
      OBVIOUS
    <3>1. ASSUME NEW i \in 1..n PROVE Going[i].kind # "mask"
      <4>1. i \in 1..Len(Going')
        BY <1>3, <1>14, Zenon
      <4>2. Going'[i].kind # "mask"
        BY <4>1
      <4> QED BY <1>6, <4>2, Zenon
    <3>2. mask = selected
      BY <1>12, <3>1, Zenon
    <3> QED BY <1>3, <1>16, <3>2
  <2>2. ASSUME NEW i \in 1..Len(Going'), Going'[i].kind = "mask",
               \A j \in 1..Len(Going') : j > i => Going'[j].kind # "mask"
        PROVE  Going'[i].cam = selected'
    <3>1. CASE i > n
      <4>1. i - n \in 1..k /\ Going'[i] = ms[i - n]
        BY <1>3, <1>5, <3>1, Zenon
      <4>2. ms[i - n].cam = selected'
        BY ONLY <1>18, <4>1, Zenon
      <4> QED BY ONLY <4>1, <4>2, Zenon
    <3>2. CASE i \in 1..n
      <4>1. Going[i].kind = "mask"
        BY <1>6, <2>2, <3>2, Zenon
      <4>2. ASSUME NEW j \in 1..n, j > i PROVE Going[j].kind # "mask"
        <5>1. j \in 1..Len(Going')
          BY <1>3, <1>14, Zenon
        <5>2. Going'[j].kind # "mask"
          BY <2>2, <4>2, <5>1
        <5> QED BY <1>6, <5>2
      <4>3. Going[i].cam = selected
        BY <1>12, <3>2, <4>1, <4>2, Zenon
      <4>4. selected' = selected
        <5>1. n + 1 \in 1..Len(Going')
          BY <1>3, <1>16, Zenon
        <5>2. n + 1 > i
          BY <1>16, <3>2, Zenon
        <5>3. Going'[n + 1].kind # "mask"
          BY <2>2, <5>1, <5>2, Zenon
        <5> QED BY <1>16, <5>3
      <4> QED BY <1>6, <3>2, <4>3, <4>4, Zenon
    <3> QED BY <1>3, <1>15, <3>1, <3>2, Zenon
  <2> QED BY <2>1, <2>2 DEF MaskComes
<1>10. Asked'
  <2>1. n + k \in Nat /\ n + k >= 1 /\ k \in 1..k
    BY <1>3
  <2>2. Going'[n + k] = ms[k] /\ Len(Going') = n + k
    BY <1>3, <2>1
  <2>3. Going' # <<>>
    <3>1. Len(Going') # 0
      BY <2>1, <2>2
    <3> QED BY <3>1
  <2> QED BY <1>13, <2>2, <2>3 DEF Asked
<1> QED BY <1>7, <1>8, <1>9, <1>10 DEF Conversation

\* A turn that asks (jc_events, do_image_request).
LEMMA TurnAsks ==
  ASSUME Sound, Conversation, NEW ask \in BOOLEAN, NEW rest \in Seq(Message), Len(rest) <= RoomDown,
         EndTurn(ask, completed, rest), ask \/ old, link = "live", ~slipped', out = <<>>,
         \A i \in 1..Len(rest \o reply) : /\ (rest \o reply)[i].good
                                          /\ (rest \o reply)[i].kind \in {"frame", "image"},
         UNCHANGED <<selected, mask>>, mid' # "skew"
  PROVE  Conversation'
<1>1. completed \in BOOLEAN /\ selected \in Cams
  BY SoundParts DEF ViewerPart
<1>2. /\ completed' = (completed /\ ~ask /\ ~old)
      /\ down' \o reply' = Retired(rest \o reply)
      /\ \E n \in {1, 2} : up' \o out' = Retired(up) \o Requests(n, FALSE)
  BY <1>1, Turning, Zenon
<1>3. completed' = FALSE
  BY <1>2
<1>4. PICK n \in {1, 2} : up' \o out' = Retired(up) \o Requests(n, FALSE)
  BY <1>2
<1>5. n \in 0..2 /\ n \in Nat /\ n >= 1
  OBVIOUS
<1> DEFINE ms == Requests(n, FALSE)
           r == rest \o reply
<1>6. ms \in Seq(Message) /\ Len(ms) = n
  <2>1. ms \in Seq(Upward) /\ Len(ms) = n
    BY <1>5, RequestsType
  <2>2. Upward \subseteq Message
    BY DEF Upward
  <2> HIDE DEF ms
  <2> QED BY <2>1, <2>2, SeqMonotonic
<1>7. \A i \in 1..n : ms[i] = Msg("request", selected, 0, i = n)
  BY DEF Requests
<1>8. r \in Seq(Message)
  BY Lying, Joined
<1>9. Going' = Retired(Going) \o ms /\ Coming' = Retired(r)
  <2>1. Going = up
    BY OnTheWay
  <2> QED BY <1>2, <1>4, <2>1, Zenon DEF Going, Coming
<1>10. \A i \in 1..Len(r) : r[i].good /\ r[i].kind \in {"frame", "image"}
  OBVIOUS
<1> HIDE DEF ms, r
<1>11. Len(ms) \in Nat /\ Len(ms) >= 1
  BY <1>5, <1>6
<1>12. \A i \in 1..Len(ms) : /\ ms[i].good /\ ms[i].kind = "request" /\ ms[i].cam = selected
                             /\ ms[i].latest = (i = n)
  BY <1>6, <1>7 DEF Msg
<1>13. \A i \in 1..Len(ms) : /\ ms[i].good /\ ms[i].kind \in {"mask", "request"} /\ ms[i].cam = selected'
                             /\ ms[i].latest => i = Len(ms) /\ ms[i].kind = "request"
  BY <1>6, <1>12, Zenon
<1>14. ms[Len(ms)].latest
  <2>1. n \in 1..Len(ms)
    BY <1>5, <1>6
  <2> QED BY <1>6, <1>12, <2>1
<1> QED BY <1>1, <1>3, <1>6, <1>8, <1>9, <1>10, <1>11, <1>13, <1>14, AskedAnew

\* The first message to the viewer, while nothing slipped.
LEMMA FirstComing ==
  ASSUME Sound, Conversation, down # <<>>
  PROVE  /\ Len(Coming) \in Nat /\ Len(Coming) >= 1 /\ Coming[1] = Head(down)
         /\ Tail(down) \o reply = Tail(Coming)
         /\ Len(Tail(Coming)) = Len(Coming) - 1
         /\ \A i \in 1..(Len(Coming) - 1) : Tail(Coming)[i] = Coming[i + 1]
         /\ \A i \in 1..(Len(Coming) - 1) : /\ Tail(Coming)[i].good
                                            /\ Tail(Coming)[i].kind \in {"frame", "image"}
         /\ Head(down) \in Message /\ Head(down).good /\ Head(down).kind \in {"frame", "image"}
         /\ Head(down).latest => Head(down).kind = "image"
<1>1. down \in Seq(Message) /\ reply \in Seq(Message) /\ Coming \in Seq(Message)
  BY Lying, OnTheWay
<1>2. Coming # <<>> /\ Coming[1] = Head(down) /\ Tail(down) \o reply = Tail(Coming)
  BY <1>1, BeheadedJoin DEF Coming
<1>3. /\ Len(Coming) \in Nat \ {0} /\ Len(Tail(Coming)) = Len(Coming) - 1
      /\ \A i \in 1..(Len(Coming) - 1) : Tail(Coming)[i] = Coming[i + 1]
  BY <1>1, <1>2, Beheaded
<1>4. Len(Coming) \in Nat /\ Len(Coming) >= 1
  <2> DEFINE n == Len(Coming)
  <2>1. n \in Nat \ {0}
    BY <1>3
  <2> HIDE DEF n
  <2>2. n \in Nat /\ n >= 1
    BY ONLY <2>1
  <2> QED BY ONLY <2>2 DEF n
<1>5. 1 \in 1..Len(Coming) /\ \A i \in 1..(Len(Coming) - 1) : i + 1 \in 1..Len(Coming)
  BY ONLY <1>4
<1>6. \A i \in 1..Len(Coming) : /\ Coming[i].good /\ Coming[i].kind \in {"frame", "image"}
                                /\ Coming[i].latest => Coming[i].kind = "image"
  BY Zenon DEF Conversation, Clean
<1>7. Head(down) \in Message
  BY Remaining
<1>8. \A i \in 1..(Len(Coming) - 1) : Tail(Coming)[i].good /\ Tail(Coming)[i].kind \in {"frame", "image"}
  <2> SUFFICES ASSUME NEW i \in 1..(Len(Coming) - 1)
               PROVE  Tail(Coming)[i].good /\ Tail(Coming)[i].kind \in {"frame", "image"}
    OBVIOUS
  <2>1. Coming[i + 1].good /\ Coming[i + 1].kind \in {"frame", "image"}
    BY <1>5, <1>6, Zenon
  <2>2. Tail(Coming)[i] = Coming[i + 1]
    BY <1>3, Zenon
  <2> QED BY ONLY <2>1, <2>2, Zenon
<1>9. Head(down).good /\ Head(down).kind \in {"frame", "image"} /\ (Head(down).latest => Head(down).kind = "image")
  <2>1. Coming[1].good /\ Coming[1].kind \in {"frame", "image"} /\ (Coming[1].latest => Coming[1].kind = "image")
    BY <1>5, <1>6, Zenon
  <2> QED BY ONLY <1>2, <2>1, Zenon
<1> QED BY <1>2, <1>3, <1>4, <1>7, <1>8, <1>9, Zenon

\* A message that is read without asking leaves what comes after it as it was.
LEMMA Shifted ==
  ASSUME Sound, Conversation, down # <<>>, Coming' = Tail(Coming), UNCHANGED <<selected, moved>>
  PROVE  /\ Len(Coming) \in Nat /\ Len(Coming) >= 1 /\ Len(Coming') = Len(Coming) - 1
         /\ \A i \in 1..Len(Coming') : i + 1 \in 1..Len(Coming) /\ Coming'[i] = Coming[i + 1]
         /\ \A j \in 1..Len(Coming) : j # 1 => j - 1 \in 1..Len(Coming') /\ Coming'[j - 1] = Coming[j]
         /\ \A k \in 1..Len(Coming) : NoticeAfter(k) => NoticeAfter(k - 1)'
         /\ Head(down).kind # "frame" \/ Head(down).cam # selected => (NoticeAfter(0) => NoticeAfter(0)')
<1> DEFINE n == Len(Coming)
           l == Len(Coming')
           t == Tail(Coming)
<1>1. n \in Nat /\ n >= 1 /\ Coming[1] = Head(down) /\ l = n - 1 /\ \A i \in 1..(n - 1) : t[i] = Coming[i + 1]
  BY FirstComing, Zenon
<1>2. Coming' = t
  OBVIOUS
<1> HIDE DEF t
<1>3. \A i \in 1..(n - 1) : Coming'[i] = Coming[i + 1]
  BY <1>1, <1>2, Zenon
<1> HIDE DEF n, l
<1>10. n \in Nat /\ n >= 1 /\ l = n - 1
  BY <1>1, Zenon
<1>4. \A i \in 1..l : i + 1 \in 1..n /\ Coming'[i] = Coming[i + 1]
  BY ONLY <1>3, <1>10
<1>5. ASSUME NEW j \in 1..n, j # 1 PROVE j - 1 \in 1..l /\ Coming'[j - 1] = Coming[j]
  <2>1. j - 1 \in 1..(n - 1) /\ (j - 1) + 1 = j
    BY <1>1, <1>5
  <2>2. Coming'[j - 1] = Coming[(j - 1) + 1]
    BY <1>3, <2>1, Zenon
  <2> QED BY <1>1, <2>1, <2>2
<1>6. ASSUME NEW k \in Nat, NoticeAfter(k), k >= 1 PROVE NoticeAfter(k - 1)'
  <2>1. CASE selected \in moved
    BY <2>1 DEF NoticeAfter
  <2>2. CASE selected \notin moved
    <3>1. PICK j \in 1..n : j > k /\ Coming[j].kind = "frame" /\ Coming[j].cam = selected
      BY <1>6, <2>2, Zenon DEF NoticeAfter, n
    <3>2. j # 1 /\ j - 1 > k - 1
      BY <1>6, <3>1
    <3>3. j - 1 \in 1..l /\ Coming'[j - 1] = Coming[j]
      BY <1>5, <3>2
    <3>4. Coming'[j - 1].kind = "frame" /\ Coming'[j - 1].cam = selected'
      BY <3>1, <3>3
    <3>5. \E i \in 1..l : i > k - 1 /\ Coming'[i].kind = "frame" /\ Coming'[i].cam = selected'
      BY <3>2, <3>3, <3>4
    <3> QED BY <3>5, Zenon DEF NoticeAfter, l
  <2> QED BY <2>1, <2>2
<1>7. \A k \in 1..n : NoticeAfter(k) => NoticeAfter(k - 1)'
  <2>1. \A k \in 1..n : k \in Nat /\ k >= 1
    BY <1>1
  <2> QED BY <1>6, <2>1
<1>8. ASSUME Coming[1].kind # "frame" \/ Coming[1].cam # selected, NoticeAfter(0) PROVE NoticeAfter(0)'
  <2>1. CASE selected \in moved
    BY <2>1 DEF NoticeAfter
  <2>2. CASE selected \notin moved
    <3>1. PICK j \in 1..n : j > 0 /\ Coming[j].kind = "frame" /\ Coming[j].cam = selected
      BY <1>8, <2>2, Zenon DEF NoticeAfter, n
    <3>2. j # 1
      BY <1>8, <3>1
    <3>3. j - 1 \in 1..l /\ Coming'[j - 1] = Coming[j]
      BY <1>5, <3>2
    <3>4. j - 1 > 0 /\ Coming'[j - 1].kind = "frame" /\ Coming'[j - 1].cam = selected'
      <4>1. j - 1 > 0
        BY ONLY <1>10, <3>2, j \in 1..n
      <4> QED BY <3>1, <3>3, <4>1, Zenon
    <3>5. \E i \in 1..l : i > 0 /\ Coming'[i].kind = "frame" /\ Coming'[i].cam = selected'
      BY <3>3, <3>4
    <3> QED BY <3>5, Zenon DEF NoticeAfter, l
  <2> QED BY <2>1, <2>2
<1>9. Head(down).kind # "frame" \/ Head(down).cam # selected => (NoticeAfter(0) => NoticeAfter(0)')
  BY <1>1, <1>8
<1> QED BY <1>1, <1>4, <1>5, <1>7, <1>9, Zenon DEF n, l

\* What a read leaves of the order of things.
LEMMA TakenInOrder ==
  ASSUME Sound, Conversation, down # <<>>, Coming' = Tail(Coming), Going' = Going,
         UNCHANGED <<selected, moved, mask>>, mid' # "skew"
  PROVE  Clean' /\ Last' /\ MaskComes'
<1> DEFINE n == Len(Coming)
           l == Len(Coming')
<1>1. /\ n \in Nat /\ n >= 1 /\ l = n - 1 /\ l \in Nat
      /\ \A i \in 1..l : i + 1 \in 1..n /\ Coming'[i] = Coming[i + 1]
  <2>1. /\ n \in Nat /\ n >= 1 /\ l = n - 1
        /\ \A i \in 1..l : i + 1 \in 1..n /\ Coming'[i] = Coming[i + 1]
    BY Shifted, Zenon
  <2> HIDE DEF n, l
  <2>2. l \in Nat
    BY <2>1
  <2> QED BY <2>1, <2>2, Zenon
<1> HIDE DEF n, l
<1>2. Clean'
  <2>1. \A i \in 1..n : /\ Coming[i].good /\ Coming[i].kind \in {"frame", "image"}
                        /\ Coming[i].latest => Coming[i].kind = "image"
    BY Zenon DEF Conversation, Clean, n
  <2>2. ASSUME NEW i \in 1..l
        PROVE  /\ Coming'[i].good /\ Coming'[i].kind \in {"frame", "image"}
               /\ Coming'[i].latest => Coming'[i].kind = "image"
    <3>1. i + 1 \in 1..n /\ Coming'[i] = Coming[i + 1]
      BY <1>1, Zenon
    <3>2. /\ Coming[i + 1].good /\ Coming[i + 1].kind \in {"frame", "image"}
          /\ Coming[i + 1].latest => Coming[i + 1].kind = "image"
      BY <2>1, <3>1, Zenon
    <3> QED BY ONLY <3>1, <3>2, Zenon
  <2> QED BY <2>2 DEF Conversation, Clean, l
<1>3. Last'
  <2>1. ASSUME NEW i \in 1..l, Coming'[i].latest
        PROVE  /\ Coming'[i].cam = selected /\ Going = <<>>
               /\ \A j \in 1..l : j > i => Coming'[j].kind # "image"
    <3>1. i + 1 \in 1..n /\ Coming'[i] = Coming[i + 1]
      BY <1>1, Zenon
    <3>2. Coming[i + 1].latest
      BY ONLY <2>1, <3>1, Zenon
    <3>3. /\ Coming[i + 1].cam = selected /\ Going = <<>>
          /\ \A j \in 1..n : j > i + 1 => Coming[j].kind # "image"
      BY <3>1, <3>2, Zenon DEF Conversation, Last, n
    <3>4. ASSUME NEW j \in 1..l, j > i PROVE Coming'[j].kind # "image"
      <4>1. j + 1 \in 1..n /\ Coming'[j] = Coming[j + 1]
        BY <1>1, Zenon
      <4>2. j + 1 > i + 1
        BY <3>4, <1>1
      <4>3. Coming[j + 1].kind # "image"
        BY <3>3, <4>1, <4>2, Zenon
      <4> QED BY ONLY <4>1, <4>3, Zenon
    <3>5. Coming'[i].cam = selected
      BY ONLY <3>1, <3>3, Zenon
    <3> QED BY <3>3, <3>4, <3>5, Zenon
  <2> QED BY <2>1, Zenon DEF Conversation, Last, l
<1>4. MaskComes'
  BY DEF Conversation, MaskComes
<1> QED BY <1>2, <1>3, <1>4

\* A frame number the viewer has no use for (JC_MSG_FRAME_NUMBER).
LEMMA FrameTaken ==
  ASSUME Sound, Conversation, down # <<>>, Coming' = Tail(Coming), Going' = Going,
         UNCHANGED <<selected, moved, mask, ver, completed, old>>, Pic' = Pic, mid' # "skew",
         Head(down).kind = "frame", ~(completed /\ Head(down).cam = selected), ~old
  PROVE  Conversation'
<1>1. Clean' /\ Last' /\ MaskComes'
  BY TakenInOrder, Zenon
<1> DEFINE n == Len(Coming)
           l == Len(Coming')
<1>2. /\ n \in Nat /\ l = n - 1 /\ Coming[1] = Head(down)
      /\ \A i \in 1..l : i + 1 \in 1..n /\ Coming'[i] = Coming[i + 1]
      /\ \A j \in 1..n : j # 1 => j - 1 \in 1..l /\ Coming'[j - 1] = Coming[j]
      /\ \A k \in 1..n : NoticeAfter(k) => NoticeAfter(k - 1)'
  BY Shifted, FirstComing, Zenon
<1>3. Head(down).cam # selected => (NoticeAfter(0) => NoticeAfter(0)')
  BY Shifted, Zenon
<1> HIDE DEF n, l
<1>4. Asked => Asked'
  BY DEF Asked
<1>5. Answered => Answered'
  <2> SUFFICES ASSUME Answered PROVE Answered'
    OBVIOUS
  <2>1. PICK k \in 1..n : Coming[k].latest /\ (Coming[k].ver = ver[selected] \/ NoticeAfter(k))
    BY Zenon DEF Answered, n
  <2>2. k # 1
    <3>1. ~Head(down).latest
      BY FirstComing
    <3> QED BY <1>2, <2>1, <3>1
  <2>3. k - 1 \in 1..l /\ Coming'[k - 1] = Coming[k] /\ (NoticeAfter(k) => NoticeAfter(k - 1)')
    BY <1>2, <2>2, Zenon
  <2> DEFINE i == k - 1
  <2>4. i \in 1..l /\ Coming'[i] = Coming[k] /\ (NoticeAfter(k) => NoticeAfter(i)')
    BY <2>3, Zenon
  <2> HIDE DEF i
  <2>5. Coming'[i].latest /\ (Coming'[i].ver = ver'[selected'] \/ NoticeAfter(i)')
    <3>1. ver' = ver /\ selected' = selected
      OBVIOUS
    <3> QED BY ONLY <2>1, <2>4, <3>1, Zenon
  <2>6. ~completed'
    BY DEF Answered
  <2> QED BY <2>4, <2>5, <2>6, Zenon DEF Answered, l
<1>6. Settled => Settled'
  <2> SUFFICES ASSUME Settled PROVE Settled'
    OBVIOUS
  <2>1. /\ completed /\ \A i \in 1..n : Coming[i].kind # "image"
        /\ Going = <<>> /\ Pic.cam = selected /\ Pic.whole /\ (Pic.ver = ver[selected] \/ NoticeAfter(0))
    BY Zenon DEF Settled, n
  <2>2. NoticeAfter(0) => NoticeAfter(0)'
    BY <1>3, <2>1
  <2>3. ASSUME NEW i \in 1..l PROVE Coming'[i].kind # "image"
    <3>1. i + 1 \in 1..n /\ Coming'[i] = Coming[i + 1]
      BY <1>2, Zenon
    <3>2. Coming[i + 1].kind # "image"
      BY <2>1, <3>1, Zenon
    <3> QED BY ONLY <3>1, <3>2, Zenon
  <2> QED BY <2>1, <2>2, <2>3 DEF Settled, l
<1> QED BY <1>1, <1>4, <1>5, <1>6 DEF Conversation

\* A picture: the answer, or one of the past (JC_MSG_IMAGE).
LEMMA ImageTaken ==
  ASSUME Sound, Conversation, down # <<>>, Coming' = Tail(Coming), Going' = Going,
         UNCHANGED <<selected, moved, mask, ver>>, completed' = (completed \/ Head(down).latest),
         Head(down).cam = selected => Pic' = [cam |-> Head(down).cam, ver |-> Head(down).ver, whole |-> TRUE, torn |-> Head(down).torn],
         mid' # "skew", Head(down).kind = "image"
  PROVE  Conversation'
<1>1. Clean' /\ Last' /\ MaskComes'
  BY TakenInOrder, Zenon
<1> DEFINE n == Len(Coming)
           l == Len(Coming')
           h == Head(down)
<1>2. /\ n \in Nat /\ n >= 1 /\ l = n - 1 /\ Coming[1] = h
      /\ \A i \in 1..l : i + 1 \in 1..n /\ Coming'[i] = Coming[i + 1]
      /\ \A j \in 1..n : j # 1 => j - 1 \in 1..l /\ Coming'[j - 1] = Coming[j]
      /\ \A k \in 1..n : NoticeAfter(k) => NoticeAfter(k - 1)'
  BY Shifted, FirstComing, Zenon
<1>3. completed' = (completed \/ h.latest) /\ completed \in BOOLEAN /\ h.latest \in BOOLEAN
  BY SoundParts, FirstComing DEF ViewerPart, Message
<1>4. h.cam = selected => Pic' = [cam |-> h.cam, ver |-> h.ver, whole |-> TRUE, torn |-> h.torn]
  OBVIOUS
<1>5. h.kind = "image"
  OBVIOUS
<1> HIDE DEF n, l, h
<1>6. 1 \in 1..n
  BY <1>2
<1>7. h.latest => /\ h.cam = selected /\ Going = <<>>
                  /\ \A j \in 1..n : j > 1 => Coming[j].kind # "image"
  BY <1>2, <1>6, Zenon DEF Conversation, Last, n
<1>8. ~Settled
  BY <1>2, <1>5, <1>6 DEF Settled, n
<1>9. Asked => Asked'
  <2> SUFFICES ASSUME Asked PROVE Asked'
    OBVIOUS
  <2>1. ~h.latest /\ ~completed
    BY <1>7 DEF Asked
  <2>2. ~completed'
    BY <1>3, <2>1, Zenon
  <2> QED BY <2>2 DEF Asked
<1>10. Answered => Answered' \/ Settled'
  <2> SUFFICES ASSUME Answered PROVE Answered' \/ Settled'
    OBVIOUS
  <2>1. PICK k \in 1..n : Coming[k].latest /\ (Coming[k].ver = ver[selected] \/ NoticeAfter(k))
    BY Zenon DEF Answered, n
  <2>2. CASE k = 1
    <3>1. h.latest /\ (h.ver = ver[selected] \/ NoticeAfter(1))
      BY ONLY <1>2, <2>1, <2>2
    <3>2. h.cam = selected /\ Going = <<>> /\ Pic'.cam = selected /\ Pic'.whole /\ Pic'.ver = h.ver
      BY <1>4, <1>7, <3>1
    <3>3. NoticeAfter(1) => NoticeAfter(0)'
      <4>1. NoticeAfter(1) => NoticeAfter(1 - 1)'
        BY <1>2, <1>6, Zenon
      <4>2. \A j \in 1..l : j > 1 - 1 => j > 0
        BY ONLY <1>2
      <4>3. NoticeAfter(1 - 1)' => NoticeAfter(0)'
        BY <4>2, Zenon DEF NoticeAfter, l
      <4> QED BY <4>1, <4>3, Zenon
    <3>4. ASSUME NEW i \in 1..l PROVE Coming'[i].kind # "image"
      <4>3. i + 1 > 1
        BY ONLY <1>2, i \in 1..l
      <4>1. i + 1 \in 1..n /\ i + 1 > 1 /\ Coming'[i] = Coming[i + 1]
        BY <1>2, <4>3, Zenon
      <4>2. Coming[i + 1].kind # "image"
        BY <1>7, <3>1, <4>1, Zenon
      <4> QED BY ONLY <4>1, <4>2, Zenon
    <3>5. completed'
      BY <1>3, <3>1, Zenon
    <3> QED BY <3>1, <3>2, <3>3, <3>4, <3>5 DEF Settled, l
  <2>3. CASE k # 1
    <3>1. Coming[k].kind = "image"
      BY <2>1, Zenon DEF Conversation, Clean, n
    <3>2. ~h.latest
      <4>1. k > 1
        BY <1>2, <2>3
      <4> QED BY <1>7, <3>1, <4>1, Zenon
    <3>3. ~completed'
      <4>1. ~completed
        BY DEF Answered
      <4> QED BY <1>3, <3>2, <4>1, Zenon
    <3>4. k - 1 \in 1..l /\ Coming'[k - 1] = Coming[k] /\ (NoticeAfter(k) => NoticeAfter(k - 1)')
      BY <1>2, <2>3, Zenon
    <3> DEFINE i == k - 1
    <3>5. i \in 1..l /\ Coming'[i] = Coming[k] /\ (NoticeAfter(k) => NoticeAfter(i)')
      BY <3>4, Zenon
    <3> HIDE DEF i
    <3>6. Coming'[i].latest /\ (Coming'[i].ver = ver'[selected'] \/ NoticeAfter(i)')
      BY <2>1, <3>5
    <3> QED BY <3>3, <3>5, <3>6, Zenon DEF Answered, l
  <2> QED BY <2>2, <2>3
<1> QED BY <1>1, <1>8, <1>9, <1>10 DEF Conversation

\* A turn of the viewer (jc_events).
LEMMA TurnConverses ==
  ASSUME Sound, Decoding, Conversation, Steady, Steady', ReadNothing \/ ReadMessage
  PROVE  Conversation'
<1>1. /\ Turn /\ link = "live" /\ ~slipped /\ ~slipped' /\ out = <<>> /\ ~waiting
      /\ UNCHANGED <<ver, mask, moved, selected>>
  BY DEF ReadNothing, ReadMessage, ReadFrame, ReadDebris, ReadSkewed, ReadBadImage, ReadImage, GoodImage,
     Reads, Turn, Idle, Steady
<1>2. mid # "skew" /\ mid \in {"no", "part", "skew"} /\ completed \in BOOLEAN /\ old \in BOOLEAN
  BY SoundParts DEF Conversation, Clean, ViewerPart
<1>3. Going = up
  BY <1>1, OnTheWay
<1>4. ~donow /\ slave # "busy"
  BY <1>1 DEF Decoding
<1>5. CASE ReadNothing
  <2>1. /\ EndTurn(FALSE, completed, down) /\ FALSE \in BOOLEAN
        /\ UNCHANGED <<waiting, work, shown, old>> /\ mid' # "skew"
    BY <1>2, <1>5 DEF ReadNothing, Idle
  <2>2. down \in Seq(Message) /\ Len(down) <= RoomDown
    BY Remaining
  <2>3. CASE old
    <3>1. \A i \in 1..Len(down \o reply) : /\ (down \o reply)[i].good
                                           /\ (down \o reply)[i].kind \in {"frame", "image"}
      BY Zenon DEF Conversation, Clean, Coming
    <3> QED BY <1>1, <2>1, <2>2, <2>3, <3>1, TurnAsks
  <2>4. CASE ~old
    <3>1. /\ down' \o reply' = down \o reply /\ up' \o out' = up /\ completed' = completed
      <4>1. /\ completed' = (completed /\ ~FALSE /\ ~old)
            /\ ~(FALSE \/ old) => down' \o reply' = down \o reply
            /\ link = "live" /\ ~slipped' /\ ~(FALSE \/ old) => up' \o out' = up
        BY <1>2, <2>1, <2>2, Turning, Zenon
      <4>2. completed' = completed
        BY <1>2, <2>4, <4>1, Zenon
      <4> QED BY <1>1, <2>4, <4>1, <4>2, Zenon
    <3>2. Going' = Going /\ Coming' = Coming
      BY <1>3, <3>1 DEF Going, Coming
    <3>3. Pic' = Pic
      BY <2>1 DEF Pic
    <3>4. moved \subseteq moved' /\ (old => old')
      BY <1>1, <2>4
    <3> QED BY <1>1, <2>1, <3>1, <3>2, <3>3, <3>4, QuietStep
  <2> QED BY <2>3, <2>4
<1>6. CASE ReadFrame
  <2> DEFINE ask == completed /\ Head(down).cam = selected
  <2>1. /\ EndTurn(ask, completed, Tail(down)) /\ down # <<>> /\ Head(down).kind = "frame"
        /\ UNCHANGED <<waiting, work, shown, old>> /\ mid' = "no"
    BY <1>6 DEF ReadFrame, Reads, Idle
  <2>2. ask \in BOOLEAN
    BY <1>2, Zenon
  <2>3. Tail(down) \in Seq(Message) /\ Len(Tail(down)) <= RoomDown
    BY <2>1, Remaining
  <2>4. Tail(down) \o reply = Tail(Coming)
    BY <2>1, FirstComing, Zenon
  <2>8. mid' # "skew"
    BY <2>1
  <2>9. ask = (completed /\ Head(down).cam = selected)
    OBVIOUS
  <2> HIDE DEF ask
  <2>5. CASE ask \/ old
    <3>1. \A i \in 1..Len(Tail(down) \o reply) : /\ (Tail(down) \o reply)[i].good
                                                 /\ (Tail(down) \o reply)[i].kind \in {"frame", "image"}
      <4>1. /\ Len(Tail(Coming)) = Len(Coming) - 1
            /\ \A i \in 1..(Len(Coming) - 1) : Tail(Coming)[i].good /\ Tail(Coming)[i].kind \in {"frame", "image"}
        BY <2>1, FirstComing, Zenon
      <4> QED BY <2>4, <4>1, Zenon
    <3> QED BY <1>1, <2>1, <2>2, <2>3, <2>5, <2>8, <3>1, TurnAsks
  <2>6. CASE ~(ask \/ old)
    <3>1. /\ down' \o reply' = Tail(down) \o reply /\ up' \o out' = up /\ completed' = completed
      <4>1. /\ completed' = (completed /\ ~ask /\ ~old)
            /\ ~(ask \/ old) => down' \o reply' = Tail(down) \o reply
            /\ link = "live" /\ ~slipped' /\ ~(ask \/ old) => up' \o out' = up
        BY <1>2, <2>1, <2>2, <2>3, Turning, Zenon
      <4>2. completed' = completed
        BY <1>2, <2>2, <2>6, <4>1, Zenon
      <4> QED BY <1>1, <2>6, <4>1, <4>2, Zenon
    <3>2. Going' = Going /\ Coming' = Tail(Coming)
      BY <1>3, <2>4, <3>1, Zenon DEF Going, Coming
    <3>3. Pic' = Pic
      BY <2>1 DEF Pic
    <3>4. ~(completed /\ Head(down).cam = selected) /\ ~old
      BY <2>6, <2>9, Zenon
    <3>5. UNCHANGED <<selected, moved, mask, ver, completed, old>>
      BY <1>1, <2>1, <3>1
    <3> QED BY <2>1, <2>8, <3>2, <3>3, <3>4, <3>5, FrameTaken
  <2> QED BY <2>5, <2>6
<1>7. CASE ReadImage
  <2>1. /\ Ask(0, Tail(down)) /\ down # <<>> /\ Head(down).kind = "image" /\ mid' = "no"
        /\ completed' = (completed \/ Head(down).latest) /\ shown' = shown
    BY <1>7 DEF ReadImage, GoodImage, Reads
  <2>2. Tail(down) \in Seq(Message) /\ Len(Tail(down)) <= RoomDown
    BY <2>1, Remaining
  <2>3. Tail(down) \o reply = Tail(Coming)
    BY <2>1, FirstComing, Zenon
  <2>4. down' \o reply' = Tail(down) \o reply /\ up' \o out' = up
    BY <1>1, <2>1, <2>2, NotAsking
  <2>5. Going' = Going /\ Coming' = Tail(Coming)
    BY <1>3, <2>3, <2>4, Zenon DEF Going, Coming
  <2>6. mid' # "skew"
    BY <2>1
  <2>7. Head(down).cam = selected =>
          Pic' = [cam |-> Head(down).cam, ver |-> Head(down).ver, whole |-> TRUE, torn |-> Head(down).torn]
    <3> SUFFICES ASSUME Head(down).cam = selected
                 PROVE  Pic' = [cam |-> Head(down).cam, ver |-> Head(down).ver, whole |-> TRUE, torn |-> Head(down).torn]
      OBVIOUS
    <3>1. CopyToSlave(Head(down)) /\ waiting' = TRUE
      BY <1>7 DEF ReadImage
    <3>2. work' = [cam |-> Head(down).cam, ver |-> Head(down).ver, whole |-> TRUE, torn |-> Head(down).torn]
      BY <1>4, <3>1, Zenon DEF CopyToSlave
    <3> QED BY <3>1, <3>2, Zenon DEF Pic
  <2>8. UNCHANGED <<selected, moved, mask, ver>>
    BY <1>1
  <2>9. CASE Head(down).cam = selected
    BY <2>1, <2>5, <2>6, <2>7, <2>8, <2>9, ImageTaken
  <2>10. CASE Head(down).cam # selected
    BY <2>1, <2>5, <2>6, <2>8, <2>10, ImageTaken
  <2> QED BY <2>9, <2>10
<1>8. CASE ReadDebris \/ ReadBadImage
  <2>1. down # <<>> /\ (Head(down).kind = "debris" \/ ~Head(down).good)
    BY <1>8 DEF ReadDebris, ReadBadImage, Reads
  <2>2. Head(down).good /\ Head(down).kind \in {"frame", "image"}
    BY <2>1, FirstComing, Zenon
  <2> QED BY <2>1, <2>2
<1>9. CASE ReadSkewed
  BY <1>2, <1>9 DEF ReadSkewed
<1> QED BY <1>5, <1>6, <1>7, <1>8, <1>9 DEF ReadMessage

\* The user selects a camera (highlight_button).
LEMMA SelectConverses ==
  ASSUME Sound, Conversation, NEW c \in Cams, Select(c), link = "live"
  PROVE  Conversation'
<1> DEFINE ms == Selection(c)
           r == down \o reply
<1>1. /\ link # "none" /\ out = <<>> /\ selected' = c /\ completed' = FALSE /\ UNCHANGED <<mask, mid>>
  BY DEF Select
<1>2. /\ ms \in Seq(Upward) /\ Len(ms) = 2 /\ up' \o out' = Retired(up) \o ms
      /\ down' \o reply' = Retired(r)
  BY <1>1, Selecting
<1>3. Going' = Retired(Going) \o ms /\ Coming' = Retired(r)
  <2>1. Going = up
    BY <1>1, OnTheWay
  <2> QED BY <1>2, <2>1, Zenon DEF Going, Coming
<1>4. r \in Seq(Message)
  BY Lying, Joined
<1>5. \A i \in 1..Len(r) : r[i].good /\ r[i].kind \in {"frame", "image"}
  BY Zenon DEF Conversation, Clean, Coming
<1>6. /\ ms[1].good /\ ms[1].kind = "mask" /\ ms[1].cam = c /\ ms[1].latest = FALSE
      /\ ms[2].good /\ ms[2].kind = "request" /\ ms[2].cam = c /\ ms[2].latest = TRUE
  BY DEF Selection, Msg
<1>7. mid' # "skew"
  BY <1>1 DEF Conversation, Clean
<1> HIDE DEF ms, r
<1>8. ms \in Seq(Message)
  <2>1. Upward \subseteq Message
    BY DEF Upward
  <2> QED BY <1>2, <2>1, SeqMonotonic
<1>9. Len(ms) \in Nat /\ Len(ms) >= 1
  BY <1>2
<1>10. \A i \in 1..Len(ms) : i = 1 \/ i = 2
  BY <1>2
<1>11. \A i \in 1..Len(ms) : /\ ms[i].good /\ ms[i].kind \in {"mask", "request"} /\ ms[i].cam = selected'
                             /\ ms[i].latest => i = Len(ms) /\ ms[i].kind = "request"
  <2>1. ASSUME NEW i \in 1..Len(ms)
        PROVE  /\ ms[i].good /\ ms[i].kind \in {"mask", "request"} /\ ms[i].cam = selected'
               /\ ms[i].latest => i = Len(ms) /\ ms[i].kind = "request"
    <3>1. CASE i = 1
      BY <1>1, <1>6, <3>1, Zenon
    <3>2. CASE i = 2
      BY <1>1, <1>2, <1>6, <3>2, Zenon
    <3> QED BY <1>10, <3>1, <3>2, Zenon
  <2> QED BY <2>1, Zenon
<1>12. ms[Len(ms)].latest
  BY <1>2, <1>6, Zenon
<1>13. selected' \in Cams /\ ms[1].kind = "mask" /\ completed' = FALSE /\ mask' = mask
  BY <1>1, <1>6
<1> QED BY <1>3, <1>4, <1>5, <1>7, <1>8, <1>9, <1>11, <1>12, <1>13, AskedAnew

\* A new connection starts with the mask and a retry (jc_events).
LEMMA ConnectConverses ==
  ASSUME Sound, Connect, ~slipped'
  PROVE  Conversation'
<1> DEFINE m == Msg("mask", selected, 0, FALSE)
<1>1. /\ up' = <<m>> /\ out' = <<>> /\ down' = <<>> /\ reply' = <<>> /\ selected' = selected
      /\ completed' = TRUE /\ old' = TRUE /\ mid' = IF mid = "no" THEN "no" ELSE "skew"
  BY DEF Connect, Connecting, NewChild, Fresh
<1>2. mid' = "no"
  BY <1>1 DEF Connect
<1>3. selected \in Cams /\ m.kind = "mask" /\ m.cam = selected /\ m.good /\ ~m.latest
  BY Lying DEF Msg
<1> HIDE DEF m
<1>4. Going' = <<m>> \o <<>> /\ Coming' = <<>> \o <<>>
  BY <1>1 DEF Going, Coming
<1>5. Len(Going') = 1 /\ Going'[1] = m /\ Len(Coming') = 0
  BY <1>4
<1>6. \A i \in 1..Len(Going') : Going'[i] = m
  BY ONLY <1>5
<1>10. /\ \A i \in 1..Len(Going') : Going'[i].kind = "mask" /\ Going'[i].cam = selected
                                    /\ Going'[i].good /\ ~Going'[i].latest
       /\ \A i \in 1..Len(Coming') : FALSE
  <2>1. \A i \in 1..Len(Coming') : FALSE
    BY ONLY <1>5
  <2> QED BY ONLY <1>3, <1>6, <2>1, Zenon
<1>11. 1 \in 1..Len(Going')
  BY ONLY <1>5
<1>12. /\ \A i \in 1..Len(Coming') : Coming'[i].good /\ Coming'[i].kind \in {"frame", "image"}
                                     /\ (Coming'[i].latest => Coming'[i].kind = "image")
       /\ \A i \in 1..Len(Coming') : Coming'[i].latest => Coming'[i].cam = selected'
            /\ Going' = <<>> /\ \A j \in 1..Len(Coming') : j > i => Coming'[j].kind # "image"
       /\ \A i \in 1..Len(Coming') : Coming'[i].kind # "image"
  BY ONLY <1>10, Zenon
<1>7. Clean'
  BY <1>2, <1>3, <1>10, <1>12 DEF Clean
<1>8. Last'
  <2>1. \A i \in 1..Len(Going') : Going'[i].latest => Going'[i].cam = selected' /\ i = Len(Going')
    BY <1>10, Zenon
  <2> QED BY <1>12, <2>1, Zenon DEF Last
<1>9. MaskComes'
  <2>1. ~ \A i \in 1..Len(Going') : Going'[i].kind # "mask"
    BY <1>10, <1>11, Zenon
  <2>2. \A i \in 1..Len(Going') : Going'[i].cam = selected'
    BY <1>1, <1>10, Zenon
  <2> QED BY <2>1, <2>2, Zenon DEF MaskComes
<1>13. Settled'
  <2>1. \A i \in 1..Len(Going') : Going'[i].kind # "request"
    BY <1>10
  <2> QED BY <1>1, <1>12, <2>1, Zenon DEF Settled
<1> QED BY <1>7, <1>8, <1>9, <1>13 DEF Conversation

\* What is written goes on where it was, in either direction (jc_sockwrite).
LEMMA FlushConverses ==
  ASSUME Sound, Conversation, Flush \/ ChildFlush
  PROVE  Conversation'
<1>4. UNCHANGED <<mask, selected, completed, old, mid, ver, moved>> /\ UNCHANGED <<waiting, work, shown>>
  <2>1. Flush => UNCHANGED <<mask, selected, completed, old, mid, ver, moved>> /\ UNCHANGED <<waiting, work, shown>>
    BY DEF Flush, child, decoder
  <2>2. ChildFlush => UNCHANGED <<mask, selected, completed, old, mid, ver, moved>>
                      /\ UNCHANGED <<waiting, work, shown>>
    BY DEF ChildFlush, view, decoder
  <2> QED BY <2>1, <2>2
<1>1. UNCHANGED <<mask, selected, completed, old, mid, ver, moved>> /\ Pic' = Pic
  BY <1>4 DEF Pic
<1>2. Going' = Going /\ Coming' = Coming
  <2>1. CASE Flush
    <3>1. Writes(out, FALSE) /\ link = "live" /\ UNCHANGED <<down, reply>>
      BY <2>1 DEF Flush, child
    <3>2. /\ up \in Seq(Upward) /\ up = (IF FALSE THEN Retired(up) ELSE up)
          /\ out \in Seq(Upward) /\ Len(out) <= 2 /\ FALSE \in BOOLEAN
      BY Lying
    <3>3. up' \o out' = up \o out
      BY <3>1, <3>2, ViewerWriting, Zenon
    <3> QED BY <3>1, <3>3 DEF Going, Coming
  <2>2. CASE ChildFlush
    <3>1. ChildWrites(reply) /\ UNCHANGED <<up, out>>
      BY <2>2 DEF ChildFlush, view
    <3>2. reply \in Seq(Message) /\ Len(reply) <= 2
      BY Lying
    <3>3. down' \o reply' = down \o reply
      BY <3>1, <3>2, ChildWriting, Zenon
    <3> QED BY <3>1, <3>3 DEF Going, Coming
  <2> QED BY <2>1, <2>2
<1>3. mid' # "skew" /\ moved \subseteq moved' /\ (old => old')
  BY <1>1 DEF Conversation, Clean
<1> QED BY <1>1, <1>2, <1>3, QuietStep

\* The answer is written when its copy is complete, as what it was (CopyEnd).
LEMMA CopyConverses ==
  ASSUME Sound, Copying, Conversation, CopyEnd
  PROVE  Conversation'
<1>1. UNCHANGED <<mask, selected, completed, old, mid, ver, moved, up, out>> /\ Pic' = Pic
  <2>1. UNCHANGED <<mask, selected, completed, old, mid, ver, moved, up, out, waiting, work, shown>>
    BY DEF CopyEnd, view, decoder
  <2> QED BY <2>1 DEF Pic
<1>2. Going' = Going
  BY <1>1 DEF Going
<1>3. PICK m \in Message : /\ ChildWrites(<<m>>)
                           /\ m.kind = reply[1].kind /\ m.cam = reply[1].cam
                           /\ m.ver = reply[1].ver /\ m.good = reply[1].good
                           /\ m.latest = reply[1].latest
  BY Copied, Zenon
<1>4. Len(reply) = 1 /\ down \in Seq(Message) /\ reply \in Seq(Message)
  BY Copied, Lying
<1>5. <<m>> \in Seq(Message) /\ Len(<<m>>) = 1 /\ <<m>>[1] = m
  OBVIOUS
<1>6. Coming' = down \o <<m>>
  <2>1. Len(<<m>>) <= 2
    OBVIOUS
  <2> QED BY <1>3, <1>5, <2>1, ChildWriting, Zenon DEF Coming
<1>7. /\ Len(Coming) = Len(down) + 1 /\ \A i \in 1..Len(down) : Coming[i] = down[i]
      /\ Coming[Len(down) + 1] = reply[1]
  <2>1. /\ Len(down \o reply) = Len(down) + Len(reply)
        /\ \A i \in 1..Len(down) : (down \o reply)[i] = down[i]
        /\ \A i \in 1..Len(reply) : (down \o reply)[Len(down) + i] = reply[i]
    <3>1. down \in Seq(Message) /\ reply \in Seq(Message)
      BY <1>4
    <3> QED BY ONLY <3>1, Joined
  <2>2. 1 \in 1..Len(reply)
    BY <1>4
  <2> QED BY <1>4, <2>1, <2>2 DEF Coming
<1>8. /\ Len(Coming') = Len(down) + 1 /\ \A i \in 1..Len(down) : Coming'[i] = down[i]
      /\ Coming'[Len(down) + 1] = m
  BY <1>4, <1>5, <1>6, Joined
<1>9. Len(down) \in Nat
  BY <1>4
<1> HIDE DEF Coming
<1>10. Len(Coming') = Len(Coming)
  BY <1>7, <1>8
<1>11. \A i \in 1..Len(Coming) : /\ Coming'[i].kind = Coming[i].kind /\ Coming'[i].cam = Coming[i].cam
                                 /\ Coming'[i].ver = Coming[i].ver /\ Coming'[i].good = Coming[i].good
                                 /\ Coming'[i].latest = Coming[i].latest
  <2> SUFFICES ASSUME NEW i \in 1..Len(Coming)
               PROVE  /\ Coming'[i].kind = Coming[i].kind /\ Coming'[i].cam = Coming[i].cam
                      /\ Coming'[i].ver = Coming[i].ver /\ Coming'[i].good = Coming[i].good
                      /\ Coming'[i].latest = Coming[i].latest
    OBVIOUS
  <2>1. i \in 1..Len(down) \/ i = Len(down) + 1
    BY <1>7, <1>9
  <2>2. CASE i \in 1..Len(down)
    BY <1>7, <1>8, <2>2, Zenon
  <2>3. CASE i = Len(down) + 1
    BY <1>3, <1>7, <1>8, <2>3, Zenon
  <2> QED BY <2>1, <2>2, <2>3
<1>12. Clean'
  BY <1>1, <1>2, <1>10, <1>11 DEF Conversation, Clean
<1>13. Last'
  BY <1>1, <1>2, <1>10, <1>11 DEF Conversation, Last
<1>14. MaskComes'
  BY <1>1, <1>2 DEF Conversation, MaskComes
<1>15. \A k : NoticeAfter(k) => NoticeAfter(k)'
  BY <1>1, <1>10, <1>11 DEF NoticeAfter
<1>16. Asked => Asked'
  BY <1>1, <1>2 DEF Asked
<1>17. Answered => Answered'
  BY <1>1, <1>10, <1>11, <1>15 DEF Answered
<1>18. Settled => Settled'
  BY <1>1, <1>2, <1>10, <1>11, <1>15 DEF Settled
<1> QED BY <1>12, <1>13, <1>14, <1>16, <1>17, <1>18 DEF Conversation

\* A turn of the child (the loop of the child).
LEMMA ServeConverses ==
  ASSUME Sound, Conversation, Serve
  PROVE  Conversation'
<1>1. CASE up = <<>>
  <2>1. /\ UNCHANGED <<mask, selected, completed, old, mid, ver, moved, up, out, down, reply>> /\ Pic' = Pic
    BY <1>1 DEF Serve, view, decoder, Pic
  <2>2. Going' = Going /\ Coming' = Coming
    BY <2>1 DEF Going, Coming
  <2>3. mid' # "skew" /\ moved \subseteq moved' /\ (old => old')
    BY <2>1 DEF Conversation, Clean
  <2> QED BY <2>1, <2>2, <2>3, QuietStep
<1>2. CASE up # <<>>
  <2>1. Head(up).kind = "mask" \/ Head(up).kind = "request"
    BY <1>2, FirstGoing
  <2> QED BY <1>2, <2>1, MaskConverses, AnswerConverses
<1> QED BY <1>1, <1>2

\* What slipped stays, and a connection lives only from Connect on (Next).
LEMMA SteadyBefore ==
  ASSUME [Next]_vars, ~Connect, Steady'
  PROVE  Steady
<1>1. link' = "live" /\ ~slipped'
  BY DEF Steady
<1>2. ASSUME NEW c \in Cams, Store(c) \/ StoreEnd(c) \/ Clobber(c) \/ Select(c)
      PROVE  link' = link /\ (slipped => slipped')
  <2>1. link' = link
    BY <1>2 DEF Store, StoreEnd, Clobber, Select, conn
  <2>2. slipped' = slipped \/ slipped' = (slipped \/ c \in moved)
    BY <1>2 DEF Store, StoreEnd, Clobber, Select, marks
  <2>3. slipped => slipped'
    BY <2>2, Zenon
  <2> QED BY <2>1, <2>3
<1>3. ChildStep \/ ChildSpoils \/ ViewerSpoils \/ Flush \/ Wake \/ Tick \/ Wait \/ Slave \/ SlaveDies
        \/ UNCHANGED vars => link' = link /\ (slipped => slipped')
  <2> SUFFICES ASSUME ChildStep \/ ChildSpoils \/ ViewerSpoils \/ Flush \/ Wake \/ Tick \/ Wait \/ Slave \/ SlaveDies
                        \/ UNCHANGED vars
               PROVE  link' = link /\ (slipped => slipped')
    OBVIOUS
  <2>1. link' = link /\ (slipped' = slipped \/ slipped' = TRUE)
    <3>1. ChildStep => link' = link /\ slipped' = slipped
      BY DEF ChildStep, Scan, Serve, CopyEnd, ChildFlush, conn, marks
    <3>2. ChildSpoils \/ ViewerSpoils => link' = link /\ slipped' = TRUE
      BY DEF ChildSpoils, ViewerSpoils, conn
    <3>3. Flush \/ Wake \/ Tick => link' = link /\ slipped' = slipped
      BY DEF Flush, Wake, Tick, conn, marks
    <3>4. Wait => link' = link /\ (slipped' = slipped \/ slipped' = TRUE)
      BY DEF Wait, Decoded, DecodedLate, EndWait, conn
    <3>5. Slave \/ SlaveDies \/ UNCHANGED vars => link' = link /\ slipped' = slipped
      BY DEF Slave, SlaveStart, SlaveDone, SlaveDies, vars, conn, marks
    <3> QED BY <3>1, <3>2, <3>3, <3>4, <3>5
  <2>2. slipped => slipped'
    BY <2>1
  <2> QED BY <2>1, <2>2
<1>4. ReadNothing \/ ReadMessage => link' = link /\ (slipped => slipped')
  <2> SUFFICES ASSUME ReadNothing \/ ReadMessage PROVE link' = link /\ (slipped => slipped')
    OBVIOUS
  <2>1. \E n, rest : Ask(n, rest)
    BY DEF ReadNothing, ReadMessage, ReadFrame, ReadDebris, ReadSkewed, ReadBadImage, ReadImage,
       GoodImage, EndTurn
  <2>2. link' = link
    BY DEF ReadNothing, ReadMessage, ReadFrame, ReadDebris, ReadSkewed, ReadBadImage, ReadImage,
       GoodImage, Idle, conn
  <2> QED BY <2>1, <2>2, SlippedStays
<1>5. Refuse \/ Break => link' # "live"
  BY DEF Refuse, Break
<1>6. WriteToDead \/ ReadEnd \/ ReadClosed => link' # "live"
  BY DEF WriteToDead, ReadEnd, ReadClosed
<1> QED BY <1>1, <1>2, <1>3, <1>4, <1>5, <1>6 DEF Next, ViewerStep, Write, Reconnect, Steady

\* Every step keeps the conversation what it is, while nothing slips (Next).
LEMMA NextConversing == Sound /\ Copying /\ Decoding /\ Conversing /\ [Next]_vars => Conversing'
<1> SUFFICES ASSUME Sound, Copying, Decoding, Conversing, [Next]_vars, Steady' PROVE Conversation'
  BY DEF Conversing
<1>0. CASE Connect
  BY <1>0, ConnectConverses DEF Steady
<1>1. ~Connect => Steady
  BY SteadyBefore
<1> SUFFICES ASSUME Steady, ~Connect PROVE Conversation'
  BY <1>0, <1>1
<1>2. Conversation /\ link = "live" /\ link' = "live" /\ ~slipped' /\ ~slipped
  BY DEF Conversing, Steady
<1>3. mid # "skew"
  BY <1>2 DEF Conversation, Clean
<1>4. CASE UNCHANGED vars
  <2>1. /\ UNCHANGED <<mask, selected, completed, old, mid, ver, moved, up, out, down, reply>> /\ Pic' = Pic
    BY <1>4 DEF vars, child, view, decoder, Pic
  <2>2. Going' = Going /\ Coming' = Coming
    BY <2>1 DEF Going, Coming
  <2> QED BY <1>2, <1>3, <2>1, <2>2, QuietStep
<1>5. ASSUME NEW c \in Cams, Store(c) \/ StoreEnd(c) \/ Clobber(c) \/ Select(c) PROVE Conversation'
  <2>1. CASE Clobber(c)
    <3>1. /\ UNCHANGED <<mask, selected, completed, old, mid, ver, up, out, down, reply>> /\ Pic' = Pic
      BY <2>1 DEF Clobber, view, decoder, Pic
    <3>2. Going' = Going /\ Coming' = Coming
      BY <3>1 DEF Going, Coming
    <3>3. moved \subseteq moved'
      <4>1. slipped' = (slipped \/ c \in moved)
        BY <2>1 DEF Clobber
      <4>2. c \notin moved
        BY <1>2, <4>1, Zenon
      <4> QED BY <2>1, <4>2 DEF Clobber
    <3> QED BY <1>2, <1>3, <3>1, <3>2, <3>3, QuietStep
  <2>2. CASE Store(c)
    BY <1>2, <2>2, StoreConverses
  <2>3. CASE Select(c)
    BY <1>2, <2>3, SelectConverses
  <2>4. CASE StoreEnd(c)
    <3>1. /\ UNCHANGED <<mask, selected, completed, old, mid, ver, moved, up, out, down, reply>>
          /\ UNCHANGED <<waiting, work, shown>>
      BY <2>4 DEF StoreEnd, child, view, decoder
    <3>2. Going' = Going /\ Coming' = Coming /\ Pic' = Pic
      BY <3>1 DEF Going, Coming, Pic
    <3> QED BY <1>2, <1>3, <3>1, <3>2, QuietStep
  <2> QED BY <1>5, <2>1, <2>2, <2>3, <2>4
<1>6. CASE ChildStep
  BY <1>2, <1>6, ScanConverses, ServeConverses, CopyConverses, FlushConverses DEF ChildStep
<1>7. CASE ReadNothing \/ ReadMessage
  BY <1>2, <1>7, TurnConverses
<1>8. CASE Flush
  BY <1>2, <1>8, FlushConverses
<1>9. CASE Slave \/ SlaveDies \/ Decoded \/ Wake \/ Tick
  <2>1. /\ UNCHANGED <<mask, selected, completed, mid, ver, moved, up, out, down, reply>> /\ (old => old')
    BY <1>9 DEF Slave, SlaveStart, SlaveDone, SlaveDies, Decoded, EndWait, Wake, Tick, child, view
  <2>2. Going' = Going /\ Coming' = Coming
    BY <2>1 DEF Going, Coming
  <2>3. Pic' = Pic
    <3>1. CASE Decoded
      BY <3>1 DEF Decoded, EndWait, Pic
    <3>2. CASE Slave \/ SlaveDies \/ Wake \/ Tick
      BY <3>2 DEF Slave, SlaveStart, SlaveDone, SlaveDies, Wake, Tick, view, decoder, Pic
    <3> QED BY <1>9, <3>1, <3>2
  <2> QED BY <1>2, <1>3, <2>1, <2>2, <2>3, QuietStep
<1>10. ChildSpoils \/ ViewerSpoils \/ DecodedLate => slipped'
  BY DEF ChildSpoils, ViewerSpoils, DecodedLate
<1>11. Refuse \/ Break \/ WriteToDead \/ ReadEnd \/ ReadClosed => link' # "live"
  BY DEF Refuse, Break, WriteToDead, ReadEnd, ReadClosed
<1> QED BY <1>2, <1>4, <1>5, <1>6, <1>7, <1>8, <1>9, <1>10, <1>11 DEF Next, ViewerStep, Wait, Write, Reconnect

\* The conversation is what it is in every state.
LEMMA AlwaysConversing == Spec => [](Sound /\ Copying /\ Decoding /\ Conversing)
<1>1. Init => Conversing
  BY DEF Init, Conversing, Steady
<1> QED BY <1>1, AlwaysDecoding, NextConversing, PTL DEF Spec

\* How many messages of a direction carry sent_reqid.
LEMMA LatestCounted ==
  ASSUME NEW q \in Seq(Message)
  PROVE  /\ (\A i \in 1..Len(q) : ~q[i].latest) => LatestIn(q) = 0
         /\ \A k \in 1..Len(q) : q[k].latest /\ (\A i \in 1..Len(q) : q[i].latest => i = k) => LatestIn(q) = 1
<1>1. DOMAIN q = 1..Len(q)
  BY LenProperties
<1>2. LatestIn(q) = Cardinality({i \in 1..Len(q) : q[i].latest})
  BY <1>1, Zenon DEF LatestIn
<1>3. ASSUME \A i \in 1..Len(q) : ~q[i].latest PROVE LatestIn(q) = 0
  <2>1. {i \in 1..Len(q) : q[i].latest} = {}
    BY <1>3
  <2> QED BY <1>2, <2>1, FS_EmptySet
<1>4. ASSUME NEW k \in 1..Len(q), q[k].latest, \A i \in 1..Len(q) : q[i].latest => i = k PROVE LatestIn(q) = 1
  <2>1. {i \in 1..Len(q) : q[i].latest} = {k}
    BY <1>4, Zenon
  <2> QED BY <1>2, <2>1, FS_Singleton
<1> QED BY <1>3, <1>4

\* And how many of the two parts of what is on its way.
LEMMA LatestTogether ==
  ASSUME NEW q \in Seq(Message), NEW r \in Seq(Message)
  PROVE  /\ (\A i \in 1..Len(q \o r) : ~(q \o r)[i].latest) => LatestIn(q) = 0 /\ LatestIn(r) = 0
         /\ \A k \in 1..Len(q \o r) :
              (q \o r)[k].latest /\ (\A i \in 1..Len(q \o r) : (q \o r)[i].latest => i = k) =>
                LatestIn(q) + LatestIn(r) = 1
<1> DEFINE p == q \o r
           n == Len(q)
           m == Len(r)
<1>1. n \in Nat /\ m \in Nat /\ Len(p) = n + m
      /\ (\A i \in 1..n : p[i] = q[i]) /\ (\A i \in 1..m : p[n + i] = r[i])
  BY Joined, LenProperties
<1> HIDE DEF p, n, m
<1>2. /\ \A i \in 1..n : i \in 1..(n + m)
      /\ \A i \in 1..m : n + i \in 1..(n + m)
      /\ \A i \in 1..(n + m) : i \in 1..n \/ (i > n /\ i - n \in 1..m /\ n + (i - n) = i)
      /\ \A i \in 1..n : \A j \in 1..m : i # n + j
      /\ \A i \in 1..m : \A j \in 1..m : n + i = n + j => i = j
  BY ONLY <1>1
<1>3. /\ (\A i \in 1..n : ~q[i].latest) => LatestIn(q) = 0
      /\ \A k \in 1..n : q[k].latest /\ (\A i \in 1..n : q[i].latest => i = k) => LatestIn(q) = 1
  BY LatestCounted, Zenon DEF n
<1>4. /\ (\A i \in 1..m : ~r[i].latest) => LatestIn(r) = 0
      /\ \A k \in 1..m : r[k].latest /\ (\A i \in 1..m : r[i].latest => i = k) => LatestIn(r) = 1
  BY LatestCounted, Zenon DEF m
<1>5. ASSUME \A i \in 1..(n + m) : ~p[i].latest PROVE LatestIn(q) = 0 /\ LatestIn(r) = 0
  <2>1. ASSUME NEW i \in 1..n PROVE ~q[i].latest
    <3>1. i \in 1..(n + m) /\ p[i] = q[i]
      BY <1>1, <1>2, Zenon
    <3>2. ~p[i].latest
      BY <1>5, <3>1, Zenon
    <3> QED BY ONLY <3>1, <3>2, Zenon
  <2>2. ASSUME NEW i \in 1..m PROVE ~r[i].latest
    <3>1. n + i \in 1..(n + m) /\ p[n + i] = r[i]
      BY <1>1, <1>2, Zenon
    <3>2. ~p[n + i].latest
      BY <1>5, <3>1, Zenon
    <3> QED BY ONLY <3>1, <3>2, Zenon
  <2> QED BY <1>3, <1>4, <2>1, <2>2, Zenon
<1>6. ASSUME NEW k \in 1..(n + m), p[k].latest, \A i \in 1..(n + m) : p[i].latest => i = k
      PROVE  LatestIn(q) + LatestIn(r) = 1
  <2>3. ASSUME NEW i \in 1..n, q[i].latest PROVE i = k
    <3>1. i \in 1..(n + m) /\ p[i] = q[i]
      BY <1>1, <1>2, Zenon
    <3>2. p[i].latest
      BY ONLY <2>3, <3>1, Zenon
    <3> QED BY <1>6, <3>1, <3>2, Zenon
  <2>4. ASSUME NEW i \in 1..m, r[i].latest PROVE n + i = k
    <3>1. n + i \in 1..(n + m) /\ p[n + i] = r[i]
      BY <1>1, <1>2, Zenon
    <3>2. p[n + i].latest
      BY ONLY <2>4, <3>1, Zenon
    <3> QED BY <1>6, <3>1, <3>2, Zenon
  <2>1. CASE k \in 1..n
    <3>1. p[k] = q[k]
      BY <1>1, <2>1, Zenon
    <3>2. q[k].latest
      BY ONLY <1>6, <3>1, Zenon
    <3>3. LatestIn(q) = 1
      BY <1>3, <2>1, <2>3, <3>2, Zenon
    <3>4. LatestIn(r) = 0
      BY <1>2, <1>4, <2>1, <2>4, Zenon
    <3> QED BY ONLY <3>3, <3>4
  <2>2. CASE k > n /\ k - n \in 1..m /\ n + (k - n) = k
    <3> DEFINE j == k - n
    <3>1. j \in 1..m /\ n + j = k
      BY <2>2, Zenon
    <3> HIDE DEF j
    <3>2. p[n + j] = r[j]
      BY <1>1, <3>1, Zenon
    <3>3. r[j].latest
      BY ONLY <1>6, <3>1, <3>2, Zenon
    <3>4. \A i \in 1..m : r[i].latest => i = j
      BY <1>2, <2>4, <3>1, Zenon
    <3>5. LatestIn(r) = 1
      BY <1>4, <3>1, <3>3, <3>4, Zenon
    <3>6. LatestIn(q) = 0
      BY <1>2, <1>3, <2>3, <3>1, Zenon
    <3> QED BY ONLY <3>5, <3>6
  <2> QED BY <1>2, <2>1, <2>2, Zenon
<1>7. (\A i \in 1..Len(p) : ~p[i].latest) => LatestIn(q) = 0 /\ LatestIn(r) = 0
  BY <1>1, <1>5, Zenon
<1>8. \A k \in 1..Len(p) :
        p[k].latest /\ (\A i \in 1..Len(p) : p[i].latest => i = k) => LatestIn(q) + LatestIn(r) = 1
  BY <1>1, <1>6, Zenon
<1> QED BY <1>7, <1>8, Zenon DEF p

\* What each form of the conversation has on its way.
LEMMA ExpectedOnce ==
  ASSUME Sound, Conversation
  PROVE  LatestIn(out) + LatestIn(up) + LatestIn(reply) + LatestIn(down) = (IF completed THEN 0 ELSE 1)
<1>1. /\ up \in Seq(Message) /\ out \in Seq(Message) /\ down \in Seq(Message) /\ reply \in Seq(Message)
      /\ completed \in BOOLEAN /\ Len(Going) \in Nat /\ Len(Coming) \in Nat /\ Going \in Seq(Message)
  BY Lying, SoundParts, OnTheWay DEF ViewerPart
<1>2. /\ (\A i \in 1..Len(Going) : ~Going[i].latest) => LatestIn(up) = 0 /\ LatestIn(out) = 0
      /\ \A k \in 1..Len(Going) :
           Going[k].latest /\ (\A i \in 1..Len(Going) : Going[i].latest => i = k) =>
             LatestIn(up) + LatestIn(out) = 1
  BY <1>1, LatestTogether, Zenon DEF Going
<1>3. /\ (\A i \in 1..Len(Coming) : ~Coming[i].latest) => LatestIn(down) = 0 /\ LatestIn(reply) = 0
      /\ \A k \in 1..Len(Coming) :
           Coming[k].latest /\ (\A i \in 1..Len(Coming) : Coming[i].latest => i = k) =>
             LatestIn(down) + LatestIn(reply) = 1
  BY <1>1, LatestTogether, Zenon DEF Coming
<1>4. \A q \in Seq(Message) : LatestIn(q) \in Nat
  <2> SUFFICES ASSUME NEW q \in Seq(Message) PROVE LatestIn(q) \in Nat
    OBVIOUS
  <2>1. DOMAIN q = 1..Len(q) /\ Len(q) \in Nat
    BY LenProperties
  <2>2. IsFiniteSet(1..Len(q))
    BY <2>1, FS_Interval
  <2>3. IsFiniteSet({i \in DOMAIN q : q[i].latest})
    BY <2>1, <2>2, FS_Subset
  <2> QED BY <2>3, FS_CardinalityType DEF LatestIn
<1>5. LatestIn(out) \in Nat /\ LatestIn(up) \in Nat /\ LatestIn(reply) \in Nat /\ LatestIn(down) \in Nat
  BY <1>1, <1>4
<1>6. CASE Asked
  <2>1. ~completed /\ Going # <<>> /\ Going[Len(Going)].latest
    BY <1>6 DEF Asked
  <2>2. \A i \in 1..Len(Coming) : ~Coming[i].latest
    BY <2>1, Zenon DEF Conversation, Last
  <2>3. Len(Going) \in 1..Len(Going)
    <3>1. Len(Going) # 0
      BY <1>1, <2>1
    <3> QED BY ONLY <1>1, <3>1
  <2>4. \A i \in 1..Len(Going) : Going[i].latest => i = Len(Going)
    BY Zenon DEF Conversation, Last
  <2>5. LatestIn(up) + LatestIn(out) = 1
    BY <1>2, <2>1, <2>3, <2>4, Zenon
  <2>6. LatestIn(down) = 0 /\ LatestIn(reply) = 0
    BY <1>3, <2>2, Zenon
  <2> QED BY ONLY <1>5, <2>1, <2>5, <2>6
<1>7. CASE Answered
  <2>1. PICK k \in 1..Len(Coming) : Coming[k].latest
    BY <1>7, Zenon DEF Answered
  <2>2. Going = <<>>
    BY <2>1, Zenon DEF Conversation, Last
  <2>3. ASSUME NEW i \in 1..Len(Coming), Coming[i].latest PROVE i = k
    <3>1. Coming[i].kind = "image" /\ Coming[k].kind = "image"
      BY <2>1, <2>3, Zenon DEF Conversation, Clean
    <3>2. ~(k > i)
      BY <2>3, <3>1, Zenon DEF Conversation, Last
    <3>3. ~(i > k)
      BY <2>1, <3>1, Zenon DEF Conversation, Last
    <3> QED BY <1>1, <3>2, <3>3
  <2>4. LatestIn(down) + LatestIn(reply) = 1
    BY <1>3, <2>1, <2>3, Zenon
  <2>5. \A i \in 1..Len(Going) : ~Going[i].latest
    BY <2>2
  <2>6. LatestIn(up) = 0 /\ LatestIn(out) = 0
    BY <1>2, <2>5, Zenon
  <2>7. ~completed
    BY <1>7 DEF Answered
  <2> QED BY ONLY <1>5, <2>4, <2>6, <2>7
<1>8. CASE Settled
  <2>1. \A i \in 1..Len(Coming) : ~Coming[i].latest
    BY <1>8, Zenon DEF Settled, Conversation, Clean
  <2>2. \A i \in 1..Len(Going) : ~Going[i].latest
    <3>1. CASE Going = <<>>
      BY <3>1
    <3>2. CASE \A i \in 1..Len(Going) : Going[i].kind # "request"
      BY <3>2, Zenon DEF Conversation, Clean
    <3> QED BY <1>8, <3>1, <3>2 DEF Settled
  <2>3. LatestIn(up) = 0 /\ LatestIn(out) = 0 /\ LatestIn(down) = 0 /\ LatestIn(reply) = 0
    BY <1>2, <1>3, <2>1, <2>2, Zenon
  <2>4. completed
    BY <1>8 DEF Settled
  <2> QED BY ONLY <1>5, <2>3, <2>4
<1> QED BY <1>6, <1>7, <1>8 DEF Conversation

\* While nothing slipped, the viewer that waits has exactly one request or answer in
\* flight and the viewer that does not has none, whatever room the directions have and
\* however often the retry and the user ask (do_image_request, JC_MSG_IMAGE).
THEOREM AnswersExpected == Spec => []AnswerExpected
<1>1. Sound /\ Decoding /\ Conversing => AnswerExpected
  <2> SUFFICES ASSUME Sound, Conversing, link = "live", ~slipped PROVE AnswerExpected
    BY DEF AnswerExpected
  <2>1. Conversation
    BY DEF Conversing, Steady
  <2>2. LatestIn(out) + LatestIn(up) + LatestIn(reply) + LatestIn(down) = (IF completed THEN 0 ELSE 1)
    BY <2>1, ExpectedOnce, Zenon
  <2> QED BY <2>2, Zenon DEF AnswerExpected
<1> QED BY <1>1, AlwaysConversing, PTL

\* A viewer with nothing to do shows the selected camera's picture under the newest frame
\* number, without the help of the one-second retry, wherever the copies and the stores of
\* pictures overlap; what it shows may be a mixture (JC_MSG_FRAME_NUMBER).
THEOREM CurrentWhenAtRest == Spec => []CurrentAtRest
<1>1. Sound /\ Decoding /\ Conversing => CurrentAtRest
  <2> SUFFICES ASSUME Sound, Conversing, Rest, ~slipped PROVE shown.cam = selected /\ shown.ver = ver[selected] /\ shown.whole
    BY DEF CurrentAtRest
  <2>1. /\ Conversation /\ completed /\ ~old /\ ~waiting /\ selected \notin moved
        /\ up = <<>> /\ down = <<>> /\ reply = <<>> /\ out = <<>>
    BY DEF Conversing, Steady, Rest
  <2>2. Coming = <<>> /\ Len(Coming) = 0
    BY <2>1, OnTheWay
  <2>3. Settled
    BY <2>1 DEF Conversation, Asked, Answered
  <2>4. ~NoticeAfter(0)
    <3>1. 1..Len(Coming) = {}
      BY <2>2
    <3> QED BY <2>1, <3>1 DEF NoticeAfter
  <2> QED BY <2>1, <2>3, <2>4 DEF Settled, Pic
<1> QED BY <1>1, AlwaysConversing, PTL

-----------------------------------------------------------------------------
(* How much is on its way to the child.  Without requests made while one was    *)
(* out there is one request at most, the last message; before it there is at   *)
(* most one mask, and the first mask of the connection, which the child has   *)
(* read before it writes anything.                                            *)

Queue ==
  /\ \A i \in 1..Len(Going) : Going[i].kind = "request" => i = Len(Going)
  /\ Going # <<>> /\ Going[Len(Going)].kind # "request" => mask = None /\ Len(Going) = 1
  /\ Len(Going) <= 3 /\ (mask # None => Len(Going) <= 2)
  /\ mask = None => Going # <<>> /\ Going[1].kind = "mask" /\ reply = <<>>

Queueing == Steady /\ ~forced => Queue

\* Steps that write nothing to the child, nor to the viewer before the first mask is read.
LEMMA QueueKept ==
  ASSUME Queue, Going' = Going, mask' = mask, mask = None => reply' = <<>>
  PROVE  Queue'
BY DEF Queue

\* A child that has nothing to write writes nothing (ChildWrites).
LEMMA NothingWritten == ASSUME Sound, ChildWrites(<<>>) PROVE reply' = <<>>
<1>1. down \in Seq(Message) /\ RoomDown \in Nat /\ Len(down) <= RoomDown
  BY Lying
<1> DEFINE b == Unsent(down, RoomDown, <<>>)
<1>2. reply' = b
  BY DEF ChildWrites
<1>3. <<>> \in Seq(Message) /\ Len(<<>>) = 0
  OBVIOUS
<1>4. b \in Seq(Message) /\ Len(b) <= Len(<<>>)
  BY <1>1, <1>3, Written
<1> HIDE DEF b
<1>5. Len(b) \in Nat /\ Len(b) <= 0
  BY <1>3, <1>4
<1>6. Len(b) = 0
  BY ONLY <1>5
<1> QED BY <1>2, <1>4, <1>6

\* Retiring nothing.
LEMMA NothingRetired == Retired(<<>>) = <<>>
<1>1. <<>> \in Seq(Message) /\ Len(<<>>) = 0
  OBVIOUS
<1>2. Retired(<<>>) \in Seq(Message) /\ Len(Retired(<<>>)) = Len(<<>>)
  BY <1>1, RetiredType, Zenon
<1> QED BY <1>1, <1>2

\* A request, with or without a mask before it, when none is out.
LEMMA QueuedAnew ==
  ASSUME Sound, Queue, NEW ms \in Seq(Message), Going' = Retired(Going) \o ms,
         \A i \in 1..Len(Going) : Going[i].kind # "request",
         Len(ms) = 1 \/ Len(ms) = 2, \A i \in 1..Len(ms) : ms[i].kind = "request" => i = Len(ms),
         ms[Len(ms)].kind = "request", mask' = mask, reply = <<>> => reply' = <<>>
  PROVE  Queue'
<1> DEFINE n == Len(Going)
           k == Len(ms)
           l == Len(Going')
<1>1. Going \in Seq(Message)
  BY OnTheWay, Zenon
<1>2. Behind(Going', Going, ms)
  <2>1. Behind(Retired(Going) \o ms, Going, ms)
    BY <1>1, BehindRetired, Zenon
  <2> QED BY <2>1, Zenon
<1>3. /\ n \in Nat /\ l = n + k
      /\ \A i \in 1..n : Going'[i].kind = Going[i].kind
      /\ \A i \in 1..k : Going'[n + i] = ms[i]
      /\ \A i \in 1..l : i > n => i - n \in 1..k /\ Going'[i] = ms[i - n]
  BY <1>2, Zenon DEF Behind
<1>4. /\ k = 1 \/ k = 2
      /\ \A i \in 1..k : ms[i].kind = "request" => i = k
      /\ ms[k].kind = "request"
      /\ \A i \in 1..n : Going[i].kind # "request"
  OBVIOUS
<1>5. Going # <<>> => n \in 1..n
  <2>1. Going # <<>> => n # 0
    BY <1>1
  <2> QED BY ONLY <1>3, <2>1
<1>6. Going = <<>> => n = 0
  OBVIOUS
<1>7. Going # <<>> => mask = None /\ n = 1
  BY <1>4, <1>5, Zenon DEF Queue
<1>8. mask = None => Going # <<>> /\ Going[1].kind = "mask" /\ reply' = <<>>
  BY DEF Queue
<1> HIDE DEF n, k, l
<1>9. ASSUME NEW i \in 1..l, Going'[i].kind = "request" PROVE i = l
  <2>1. CASE i \in 1..n
    BY <1>3, <1>4, <1>9, <2>1, Zenon
  <2>2. CASE i > n
    <3> DEFINE j == i - n
    <3>1. j \in 1..k /\ Going'[i] = ms[j]
      BY <1>3, <2>2, Zenon
    <3>2. j = k => i = l
      BY ONLY <1>3, <1>4, i \in 1..l
    <3> HIDE DEF j
    <3>3. ms[j].kind = "request"
      BY ONLY <1>9, <3>1, Zenon
    <3> QED BY <1>4, <3>1, <3>2, <3>3, Zenon
  <2>3. i \in 1..n \/ i > n
    BY ONLY <1>3, i \in 1..l
  <2> QED BY <2>1, <2>2, <2>3, Zenon
<1>10. Going'[l].kind = "request"
  <2>1. k \in 1..k
    BY ONLY <1>4
  <2> QED BY <1>3, <1>4, <2>1, Zenon
<1>11. l <= 3 /\ (mask # None => l <= 2)
  <2>1. n = 0 \/ (n = 1 /\ mask = None)
    BY <1>6, <1>7, Zenon
  <2> QED BY ONLY <1>3, <1>4, <2>1
<1>12. mask = None => Going' # <<>> /\ Going'[1].kind = "mask"
  <2> SUFFICES ASSUME mask = None PROVE Going' # <<>> /\ Going'[1].kind = "mask"
    OBVIOUS
  <2>1. n = 1 /\ Going[1].kind = "mask"
    BY <1>7, <1>8, Zenon
  <2>2. 1 \in 1..n /\ l # 0
    BY ONLY <1>3, <1>4, <2>1
  <2>3. Going'[1].kind = "mask"
    BY <1>3, <2>1, <2>2, Zenon
  <2>4. Going' # <<>>
    <3>1. Len(<<>>) = 0
      OBVIOUS
    <3> QED BY <2>2, <3>1, Zenon DEF l
  <2> QED BY <2>3, <2>4
<1>13. mask' = mask
  OBVIOUS
<1> QED BY <1>8, <1>9, <1>10, <1>11, <1>12, <1>13, Zenon DEF Queue, l

\* A turn of the child takes the first message (the loop of the child).
LEMMA ServeQueues ==
  ASSUME Sound, Conversation, Queue, Serve
  PROVE  Queue'
<1>0. reply = <<>> /\ out' = out
  BY DEF Serve, view
<1>1. CASE up = <<>>
  <2>1. Going' = Going /\ mask' = mask /\ reply' = reply
    BY <1>0, <1>1 DEF Serve, Going
  <2> QED BY <1>0, <2>1, QueueKept
<1>2. CASE up # <<>>
  <2> DEFINE m == Head(up)
             t == Tail(Going)
             n == Len(Going)
  <2>1. /\ n \in Nat /\ n >= 1 /\ Going[1] = m /\ Going # <<>> /\ Tail(up) \o out = t /\ Len(t) = n - 1
        /\ \A i \in 1..(n - 1) : t[i] = Going[i + 1]
        /\ m.kind \in {"mask", "request"} /\ m.cam \in Cams
    BY <1>2, FirstGoing, Zenon
  <2>2. m.kind # "debris"
    BY <2>1
  <2>3. /\ up' = Tail(up) /\ mask' = IF m.kind = "mask" THEN m.cam ELSE mask
    BY <1>2, <2>2 DEF Serve
  <2>4. Going' = t
    BY <1>0, <2>1, <2>3, ZenonT(40) DEF Going
  <2>5. t \in Seq(Message)
    BY <2>1, OnTheWay, Beheaded
  <2>6. /\ \A i \in 1..n : Going[i].kind = "request" => i = n
        /\ Going[n].kind # "request" => n = 1
        /\ n <= 3
    BY <2>1, ZenonT(40) DEF Queue
  <2>7. mask = None => m.kind = "mask"
    BY <2>1 DEF Queue
  <2> HIDE DEF m, t, n
  <2>8. mask' # None
    <3>1. None \notin Cams
      BY ViewerAssumption
    <3> QED BY <2>1, <2>3, <2>7, <3>1
  <2>9. Len(Going') = n - 1 /\ \A i \in 1..(n - 1) : Going'[i] = Going[i + 1]
    BY <2>1, <2>4, Zenon
  <2>10. \A i \in 1..(n - 1) : i + 1 \in 1..n /\ (i + 1 = n => i = n - 1)
    BY ONLY <2>1
  <2>11. \A i \in 1..(n - 1) : Going'[i].kind = "request" => i = n - 1
    <3>1. ASSUME NEW i \in 1..(n - 1), Going'[i].kind = "request" PROVE i = n - 1
      <4>1. Going[i + 1].kind = "request"
        BY ONLY <2>9, <3>1, Zenon
      <4> QED BY <2>6, <2>10, <4>1, Zenon
    <3> QED BY <3>1, Zenon
  <2>12. Going' # <<>> => Going'[n - 1].kind = "request"
    <3> SUFFICES ASSUME Going' # <<>> PROVE Going'[n - 1].kind = "request"
      OBVIOUS
    <3>1. n - 1 # 0
      <4>1. t = <<>> \/ Len(t) # 0
        BY <2>5
      <4> QED BY <2>1, <2>4, <4>1, Zenon
    <3>2. n # 1 /\ n - 1 \in 1..(n - 1) /\ (n - 1) + 1 = n
      BY ONLY <2>1, <3>1
    <3>3. Going'[n - 1] = Going[n]
      BY <2>9, <3>2, Zenon
    <3>4. Going[n].kind = "request"
      BY <2>6, <3>2, Zenon
    <3> QED BY ONLY <3>3, <3>4, Zenon
  <2>13. n - 1 <= 3 /\ n - 1 <= 2
    BY ONLY <2>1, <2>6
  <2> QED BY <2>8, <2>9, <2>11, <2>12, <2>13, Zenon DEF Queue
<1> QED BY <1>1, <1>2

\* A request is no request of the past only if none is out (Outstanding).
LEMMA NoneOut ==
  ASSUME Sound, ~Outstanding, out = <<>>
  PROVE  \A i \in 1..Len(Going) : Going[i].kind # "request"
<1>1. Going = up /\ DOMAIN up = 1..Len(up)
  BY OnTheWay, Lying, LenProperties
<1>2. {i \in DOMAIN up : up[i].kind = "request"} = {}
  BY Zenon DEF Outstanding
<1> QED BY <1>1, <1>2, Zenon

\* A turn of the viewer: a request is made when none is out, or counted as forced
\* (do_image_request, the retry in jc_events).
LEMMA TurnQueues ==
  ASSUME Sound, Decoding, Conversation, Queue, Steady, Steady', ~forced', ReadNothing \/ ReadMessage
  PROVE  Queue'
<1>1. /\ link = "live" /\ ~slipped /\ ~slipped' /\ out = <<>> /\ UNCHANGED <<mask, selected>>
  BY DEF ReadNothing, ReadMessage, ReadFrame, ReadDebris, ReadSkewed, ReadBadImage, ReadImage, GoodImage,
     Reads, Turn, Idle, Steady
<1>2. completed \in BOOLEAN /\ old \in BOOLEAN
  BY SoundParts DEF ViewerPart
<1>3. Going = up
  BY <1>1, OnTheWay
<1>4. ASSUME NEW rest \in Seq(Message), Len(rest) <= RoomDown, Ask(0, rest)
      PROVE  Queue'
  <2>1. up' \o out' = up
    BY <1>1, <1>4, NotAsking
  <2>2. reply' = reply
    BY <1>4 DEF Ask
  <2>3. Going' = Going
    BY <1>3, <2>1 DEF Going
  <2> QED BY <1>1, <2>2, <2>3, QueueKept DEF Queue
<1>5. ASSUME NEW ask \in BOOLEAN, NEW rest \in Seq(Message), Len(rest) <= RoomDown,
             EndTurn(ask, completed, rest), ask => completed
      PROVE  Queue'
  <2>1. /\ old /\ Outstanding => forced'
        /\ link = "live" /\ ~slipped' /\ (ask \/ old) =>
             \E n \in {1, 2} : /\ up' \o out' = Retired(up) \o Requests(n, FALSE)
                               /\ n = 2 => forced'
        /\ link = "live" /\ ~slipped' /\ ~(ask \/ old) => up' \o out' = up
    BY <1>2, <1>5, Turning, Zenon
  <2>2. reply' = reply \/ reply' = Retired(reply)
    BY <1>5 DEF EndTurn, Ask
  <2>3. reply = <<>> => reply' = <<>>
    BY <2>2, NothingRetired
  <2>4. CASE ~(ask \/ old)
    <3>1. Going' = Going
      BY <1>1, <1>3, <2>1, <2>4, Zenon DEF Going
    <3> QED BY <1>1, <2>3, <3>1, QueueKept DEF Queue
  <2>5. CASE ask \/ old
    <3>1. PICK n \in {1, 2} : /\ up' \o out' = Retired(up) \o Requests(n, FALSE)
                              /\ n = 2 => forced'
      BY <1>1, <2>1, <2>5, Zenon
    <3>2. n = 1
      BY <3>1
    <3> DEFINE ms == Requests(1, FALSE)
    <3>3. Going' = Retired(Going) \o ms
      BY <1>3, <3>1, <3>2, Zenon DEF Going
    <3>4. ms \in Seq(Message) /\ Len(ms) = 1
      <4>1. 1 \in 0..2
        OBVIOUS
      <4>2. ms \in Seq(Upward) /\ Len(ms) = 1
        BY <4>1, RequestsType, Zenon
      <4>3. Upward \subseteq Message
        BY DEF Upward
      <4> HIDE DEF ms
      <4> QED BY <4>2, <4>3, SeqMonotonic
    <3>5. ms[1].kind = "request"
      BY DEF Requests, Msg
    <3>6. \A i \in 1..Len(Going) : Going[i].kind # "request"
      <4>1. CASE old
        <5>1. ~Outstanding
          BY <2>1, <4>1
        <5> QED BY <1>1, <5>1, NoneOut
      <4>2. CASE ~old
        <5>1. completed
          BY <1>5, <2>5, <4>2, Zenon
        <5>2. Going = <<>>
          BY <4>2, <5>1 DEF Conversation, Asked, Answered, Settled
        <5> QED BY <5>2
      <4> QED BY <4>1, <4>2
    <3> HIDE DEF ms
    <3>7. /\ Len(ms) = 1 \/ Len(ms) = 2
          /\ \A i \in 1..Len(ms) : ms[i].kind = "request" => i = Len(ms)
          /\ ms[Len(ms)].kind = "request"
      <4>1. \A i \in 1..Len(ms) : i = Len(ms)
        BY <3>4
      <4> QED BY <3>4, <3>5, <4>1
    <3> QED BY <1>1, <2>3, <3>3, <3>4, <3>6, <3>7, QueuedAnew
  <2> QED BY <2>4, <2>5
<1>6. CASE ReadNothing
  <2>1. EndTurn(FALSE, completed, down) /\ FALSE \in BOOLEAN
    BY <1>6 DEF ReadNothing
  <2> QED BY <1>5, <2>1, Remaining
<1>7. CASE ReadFrame
  <2> DEFINE ask == completed /\ Head(down).cam = selected
  <2>1. EndTurn(ask, completed, Tail(down)) /\ down # <<>>
    BY <1>7 DEF ReadFrame, Reads
  <2>2. ask \in BOOLEAN /\ (ask => completed)
    BY <1>2, Zenon
  <2>3. Tail(down) \in Seq(Message) /\ Len(Tail(down)) <= RoomDown
    BY <2>1, Remaining
  <2> HIDE DEF ask
  <2> QED BY <1>5, <2>1, <2>2, <2>3
<1>8. CASE ReadImage \/ ReadBadImage
  <2>1. Ask(0, Tail(down)) /\ down # <<>>
    BY <1>8 DEF ReadImage, GoodImage, ReadBadImage, Reads
  <2>2. Tail(down) \in Seq(Message) /\ Len(Tail(down)) <= RoomDown
    BY <2>1, Remaining
  <2> QED BY <1>4, <2>1, <2>2
<1>9. CASE ReadDebris
  <2>1. EndTurn(FALSE, completed, <<>>) /\ FALSE \in BOOLEAN
    BY <1>9 DEF ReadDebris
  <2> QED BY <1>5, <2>1, Remaining
<1>10. CASE ReadSkewed
  BY <1>10 DEF ReadSkewed, Conversation, Clean
<1> QED BY <1>6, <1>7, <1>8, <1>9, <1>10 DEF ReadMessage

\* The user selects a camera when no request is out, or it is counted as forced
\* (highlight_button).
LEMMA SelectQueues ==
  ASSUME Sound, Queue, NEW c \in Cams, Select(c), link = "live", ~forced'
  PROVE  Queue'
<1> DEFINE ms == Selection(c)
<1>1. /\ link # "none" /\ out = <<>> /\ mask' = mask
      /\ forced' = (forced \/ Outstanding) /\ reply' = Retired(reply)
  BY DEF Select
<1>2. /\ ms \in Seq(Upward) /\ Len(ms) = 2 /\ up' \o out' = Retired(up) \o ms
  BY <1>1, Selecting
<1>3. Going' = Retired(Going) \o ms
  <2>1. Going = up
    BY <1>1, OnTheWay
  <2> QED BY <1>2, <2>1, Zenon DEF Going
<1>4. ms[1].kind = "mask" /\ ms[2].kind = "request"
  BY DEF Selection, Msg
<1>5. \A i \in 1..Len(Going) : Going[i].kind # "request"
  <2>1. ~Outstanding
    BY <1>1, Zenon
  <2> QED BY <1>1, <2>1, NoneOut
<1> HIDE DEF ms
<1>6. ms \in Seq(Message)
  <2>1. Upward \subseteq Message
    BY DEF Upward
  <2> QED BY <1>2, <2>1, SeqMonotonic
<1>7. /\ Len(ms) = 1 \/ Len(ms) = 2
      /\ \A i \in 1..Len(ms) : ms[i].kind = "request" => i = Len(ms)
      /\ ms[Len(ms)].kind = "request"
  <2>1. \A i \in 1..Len(ms) : i = 1 \/ i = 2
    BY <1>2
  <2> QED BY <1>2, <1>4, <2>1
<1>8. reply = <<>> => reply' = <<>>
  BY <1>1, NothingRetired
<1> QED BY <1>1, <1>3, <1>5, <1>6, <1>7, <1>8, QueuedAnew

\* A new connection starts with the mask (jc_events).
LEMMA ConnectQueues == ASSUME Sound, Connect PROVE Queue'
<1> DEFINE m == Msg("mask", selected, 0, FALSE)
<1>1. up' = <<m>> /\ out' = <<>> /\ reply' = <<>> /\ mask' = None
  BY DEF Connect, Connecting, NewChild
<1>2. m.kind = "mask"
  BY DEF Msg
<1> HIDE DEF m
<1>3. Going' = <<m>> \o <<>>
  BY <1>1 DEF Going
<1>4. Len(Going') = 1 /\ Going'[1] = m /\ Going' # <<>>
  BY <1>3
<1>5. \A i \in 1..Len(Going') : i = 1
  BY ONLY <1>4
<1>6. 1 <= 3
  OBVIOUS
<1> QED BY <1>1, <1>2, <1>4, <1>5, <1>6, Zenon DEF Queue

\* A request made while one was out stays counted until there is a new connection (forced).
LEMMA ForcedBefore == ASSUME Sound, [Next]_vars, ~Connect, ~forced' PROVE ~forced
<1>1. ASSUME NEW c \in Cams, Store(c) \/ StoreEnd(c) \/ Clobber(c) \/ Select(c) PROVE forced => forced'
  <2>1. forced' = forced \/ forced' = (forced \/ Outstanding)
    BY <1>1 DEF Store, StoreEnd, Clobber, Select, marks
  <2> QED BY <2>1, Zenon
<1>2. ReadNothing \/ ReadMessage => (forced => forced')
  <2>1. ReadNothing \/ ReadMessage =>
          forced' = forced \/ \E ask, rest : EndTurn(ask, completed, rest)
    BY DEF ReadNothing, ReadMessage, ReadFrame, ReadDebris, ReadSkewed, ReadBadImage, ReadImage, GoodImage
  <2>2. ASSUME NEW ask, NEW rest, EndTurn(ask, completed, rest) PROVE forced => forced'
    <3> DEFINE n == (IF ask THEN 1 ELSE 0) + (IF old THEN 1 ELSE 0)
               b == n = 2 \/ (old /\ Outstanding)
    <3>1. forced' = (forced \/ b)
      BY <2>2, Zenon DEF EndTurn
    <3> HIDE DEF b
    <3> QED BY <3>1, Zenon
  <2> QED BY <2>1, <2>2
<1>3. ChildStep \/ ChildSpoils \/ ViewerSpoils \/ Write \/ Wait \/ Slave \/ SlaveDies => forced' = forced
  BY DEF ChildStep, Scan, Serve, CopyEnd, ChildFlush, ChildSpoils, ViewerSpoils, Write, Flush, WriteToDead, Wait, Decoded,
     DecodedLate, EndWait, Slave, SlaveStart, SlaveDone, SlaveDies, marks
<1>4. Refuse \/ Wake \/ Break \/ Tick \/ ReadEnd \/ ReadClosed \/ UNCHANGED vars => forced' = forced
  BY DEF Refuse, Wake, Break, Tick, ReadEnd, ReadClosed, vars, marks
<1> QED BY <1>1, <1>2, <1>3, <1>4 DEF Next, ViewerStep, Reconnect

\* Every step keeps the queue what it is (Next).
LEMMA NextQueueing == Sound /\ Copying /\ Decoding /\ Conversing /\ Queueing /\ [Next]_vars => Queueing'
<1> SUFFICES ASSUME Sound, Copying, Decoding, Conversing, Queueing, [Next]_vars, Steady', ~forced'
             PROVE  Queue'
  BY DEF Queueing
<1>1. CASE Connect
  BY <1>1, ConnectQueues
<1> SUFFICES ASSUME ~Connect PROVE Queue'
  BY <1>1
<1>2. Steady /\ ~forced
  BY SteadyBefore, ForcedBefore
<1>3. Conversation /\ Queue /\ link = "live" /\ link' = "live" /\ ~slipped'
  BY <1>2 DEF Conversing, Queueing, Steady
<1>4. ASSUME NEW c \in Cams, Store(c) \/ StoreEnd(c) \/ Clobber(c) \/ Select(c) PROVE Queue'
  <2>1. CASE Store(c) \/ StoreEnd(c) \/ Clobber(c)
    <3>1. UNCHANGED <<up, out, mask, reply>>
      BY <2>1 DEF Store, StoreEnd, Clobber, child, view
    <3>2. Going' = Going
      BY <3>1 DEF Going
    <3> QED BY <1>3, <3>1, <3>2, QueueKept DEF Queue
  <2>2. CASE Select(c)
    BY <1>3, <2>2, SelectQueues
  <2> QED BY <1>4, <2>1, <2>2
<1>5. CASE Scan
  <2>1. UNCHANGED <<up, out, mask>> /\ ChildWrites(IF mask \in moved THEN <<Msg("frame", mask, 0, FALSE)>> ELSE <<>>)
    BY <1>5 DEF Scan, view
  <2>2. mask = None => reply' = <<>>
    <3> SUFFICES ASSUME mask = None PROVE reply' = <<>>
      OBVIOUS
    <3>1. mask \notin moved
      BY SoundParts, ViewerAssumption DEF ServerPart
    <3>2. ChildWrites(<<>>)
      BY <2>1, <3>1, Zenon
    <3> QED BY <3>2, NothingWritten
  <2>3. Going' = Going
    BY <2>1 DEF Going
  <2> QED BY <1>3, <2>1, <2>2, <2>3, QueueKept
<1>6. CASE Serve
  BY <1>3, <1>6, ServeQueues
<1>7. CASE ChildFlush \/ CopyEnd
  <2>1. UNCHANGED <<up, out, mask>> /\ reply # <<>>
    BY <1>7 DEF ChildFlush, CopyEnd, Copying, view
  <2>2. Going' = Going
    BY <2>1 DEF Going
  <2>3. mask # None
    BY <1>3, <2>1 DEF Queue
  <2> QED BY <1>3, <2>1, <2>2, <2>3, QueueKept
<1>8. CASE ReadNothing \/ ReadMessage
  BY <1>2, <1>3, <1>8, TurnQueues
<1>9. CASE Flush
  <2>1. Writes(out, FALSE) /\ UNCHANGED <<mask, reply>>
    BY <1>9 DEF Flush, child
  <2>2. /\ up \in Seq(Upward) /\ up = (IF FALSE THEN Retired(up) ELSE up)
        /\ out \in Seq(Upward) /\ Len(out) <= 2 /\ FALSE \in BOOLEAN
    BY Lying
  <2>3. up' \o out' = up \o out
    BY <1>3, <2>1, <2>2, ViewerWriting, Zenon
  <2>4. Going' = Going
    BY <2>3 DEF Going
  <2> QED BY <1>3, <2>1, <2>4, QueueKept DEF Queue
<1>10. CASE Wait \/ Slave \/ SlaveDies \/ Wake \/ Tick \/ UNCHANGED vars
  <2>1. UNCHANGED <<up, out, mask, reply>>
    BY <1>10 DEF Wait, Decoded, DecodedLate, EndWait, Slave, SlaveStart, SlaveDone, SlaveDies, Wake, Tick, vars,
       child, view
  <2>2. Going' = Going
    BY <2>1 DEF Going
  <2> QED BY <1>3, <2>1, <2>2, QueueKept DEF Queue
<1>11. ChildSpoils \/ ViewerSpoils => slipped'
  BY DEF ChildSpoils, ViewerSpoils
<1>12. Refuse \/ Break \/ WriteToDead \/ ReadEnd \/ ReadClosed => link' # "live"
  BY DEF Refuse, Break, WriteToDead, ReadEnd, ReadClosed
<1> QED BY <1>3, <1>4, <1>5, <1>6, <1>7, <1>8, <1>9, <1>10, <1>11, <1>12
        DEF Next, ChildStep, ViewerStep, Write, Reconnect

\* Requests made one at a time never leave the two ends writing to each other for ever,
\* as long as the direction to the server holds two headers (jc_sockwrite).  With room for
\* one alone the mask and the request that follows it would fill it.
THEOREM WedgesAreForced ==
  ASSUME RoomUp > 1
  PROVE  Spec => []WedgedByForce
<1>1. Init => Queueing
  BY DEF Init, Queueing, Steady
<1>2. Sound /\ Decoding /\ Conversing /\ Queueing => WedgedByForce
  <2> SUFFICES ASSUME Sound, Queueing, Wedged, ~forced, ~slipped PROVE FALSE
    BY DEF WedgedByForce
  <2>1. Queue /\ out # <<>> /\ Len(up) = RoomUp /\ reply # <<>>
    BY DEF Queueing, Steady, Wedged
  <2>2. Len(Going) <= 2
    BY <2>1 DEF Queue
  <2>3. Len(Going) = Len(up) + Len(out) /\ Len(out) # 0 /\ Len(out) \in Nat /\ RoomUp \in Nat
    BY <2>1, OnTheWay, Lying
  <2> QED BY <2>1, <2>2, <2>3
<1> QED BY <1>1, <1>2, AlwaysConversing, NextQueueing, PTL DEF Spec

=============================================================================
