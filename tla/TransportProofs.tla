-------------------------- MODULE TransportProofs --------------------------
(***************************************************************************)
(* Proofs about Transport, for any socket, any length of payload and any      *)
(* number of messages and breaks: its types, that what is handed over is as    *)
(* long as its header says, and that it is what was sent, in order, until a    *)
(* write is cut short or a break leaves a payload half read.                 *)
(***************************************************************************)
EXTENDS Transport, SequenceTheorems, WellFoundedInduction, TLAPS

USE TransportAssumption

-----------------------------------------------------------------------------
(* Sequences.                                                               *)

\* The units of a message are a sequence of units (jc_sockwrite).
LEMMA UnitsType ==
  ASSUME NEW m \in 1..MaxMsgs, NEW n \in 1..MaxLen, NEW first \in 0..MaxLen, NEW k \in Nat,
         first + k <= MaxLen + 1
  PROVE  /\ Units(m, n, first, k) \in Seq(Unit) /\ Len(Units(m, n, first, k)) = k
         /\ \A i \in 1..k : Units(m, n, first, k)[i] = [msg |-> m, at |-> first + i - 1, len |-> n]
BY DEF Units, Unit

\* What a read takes and what it leaves (read).
LEMMA Taken ==
  ASSUME NEW q \in Seq(Unit), NEW k \in 1..Len(q)
  PROVE  /\ SubSeq(q, 1, k) \in Seq(Unit) /\ Len(SubSeq(q, 1, k)) = k
         /\ SubSeq(q, k + 1, Len(q)) \in Seq(Unit)
         /\ Len(SubSeq(q, k + 1, Len(q))) = Len(q) - k
         /\ \A i \in 1..k : SubSeq(q, 1, k)[i] = q[i]
         /\ \A i \in 1..(Len(q) - k) : SubSeq(q, k + 1, Len(q))[i] = q[i + k]
OBVIOUS

\* A sequence behind another (write).
LEMMA Joined ==
  ASSUME NEW S, NEW q \in Seq(S), NEW r \in Seq(S)
  PROVE  /\ q \o r \in Seq(S) /\ Len(q \o r) = Len(q) + Len(r)
         /\ \A i \in 1..Len(q) : (q \o r)[i] = q[i]
         /\ \A i \in 1..Len(r) : (q \o r)[Len(q) + i] = r[i]
OBVIOUS

\* One more message handed over (jcam_read_message).
LEMMA OneMore ==
  ASSUME NEW S, NEW q \in Seq(S), NEW e \in S
  PROVE  /\ Append(q, e) \in Seq(S) /\ Len(Append(q, e)) = Len(q) + 1
         /\ \A i \in 1..Len(q) : Append(q, e)[i] = q[i]
         /\ Append(q, e)[Len(q) + 1] = e
OBVIOUS

\* A message handed over has a header and a payload.
Message == [hdr : [msg : 0..MaxMsgs, len : 0..MaxLen], body : Seq(Unit)]

-----------------------------------------------------------------------------
(* Types and lengths.                                                       *)

\* While a payload is read, what was read and what is still to come are its length.
Sized ==
  /\ state = 1 => want > 0 /\ Len(buf) + want = hdr.len /\ hdr.msg \in 1..MaxMsgs
  /\ left > 0 => msg \in 1..MaxMsgs
  /\ RightLength

Sound == TypeOK /\ Sized

\* Nothing is on its way at the start (Init).
LEMMA InitSound == Init => Sound
<1> SUFFICES ASSUME Init PROVE Sound
  OBVIOUS
<1>1. wire \in Seq(Unit) /\ Len(wire) <= Room /\ buf \in Seq(Unit) /\ Len(buf) <= MaxLen
  BY DEF Init
<1>2. got \in Seq([hdr : [msg : 0..MaxMsgs, len : 0..MaxLen], body : Seq(Unit)])
  BY DEF Init
<1>3. hdr \in [msg : 0..MaxMsgs, len : 0..MaxLen]
  BY DEF Init, NoHdr
<1>4. msg \in 0..MaxMsgs /\ size \in 1..MaxLen /\ left \in (-MaxLen)..MaxLen
  BY DEF Init
<1>5. base \in 0..MaxMsgs /\ breaks \in 0..MaxBreaks
  BY DEF Init
<1>9. spoilt \in BOOLEAN
  BY DEF Init
<1>6. want \in 0..MaxLen /\ state \in {0, 1}
  BY DEF Init
<1>8. TypeOK
  BY <1>1, <1>2, <1>3, <1>4, <1>5, <1>6, <1>9 DEF TypeOK
<1>7. Sized
  BY DEF Init, Sized, RightLength
<1> QED BY <1>7, <1>8 DEF Sound

\* A write adds units that fit (jc_send_header, jc_sockwrite).
LEMMA WriteSound == ASSUME Sound, Write PROVE Sound'
<1> USE DEF Sound
<1>1. CASE SendHeader
  <2>1. msg' \in 1..MaxMsgs /\ size' \in 1..MaxLen /\ left' = size' /\ spoilt' \in BOOLEAN
    BY <1>1 DEF SendHeader, TypeOK
  <2>2. wire' \in Seq(Unit) /\ Len(wire') <= Room
    <3> DEFINE u == Units(msg', size', 0, 1)
    <3>1. u \in Seq(Unit) /\ Len(u) = 1
      BY <2>1 DEF Units, Unit
    <3>2. wire' = IF Free > 0 THEN wire \o u ELSE wire
      BY <1>1 DEF SendHeader
    <3>3. wire \in Seq(Unit) /\ Len(wire) \in 0..Room /\ Room \in Nat
      BY DEF TypeOK
    <3> HIDE DEF u
    <3>4. wire \o u \in Seq(Unit) /\ Len(wire \o u) = Len(wire) + 1
      BY <3>1, <3>3, Joined
    <3> QED BY <3>2, <3>3, <3>4 DEF Free
  <2>3. UNCHANGED <<reader, base, breaks>>
    BY <1>1 DEF SendHeader
  <2>4. TypeOK'
    BY <2>1, <2>2, <2>3 DEF TypeOK, reader
  <2> QED BY <2>1, <2>3, <2>4 DEF Sized, RightLength, reader
<1>2. CASE WritePayload
  <2> DEFINE k == Least(size, Free)
  <2>1. k \in 1..size /\ k <= Free /\ Free \in 1..Room
    BY <1>2 DEF WritePayload, TypeOK, Free, Least
  <2>2. /\ wire' = wire \o Units(msg, size, 1, k) /\ left' = left - k
        /\ spoilt' = (spoilt \/ k < size)
        /\ UNCHANGED <<msg, size, reader, base, breaks>> /\ left > 0
    BY <1>2 DEF WritePayload
  <2> HIDE DEF k
  <2>3. msg \in 1..MaxMsgs /\ size \in 1..MaxLen
    BY <2>2 DEF Sized, TypeOK
  <2>4. Units(msg, size, 1, k) \in Seq(Unit) /\ Len(Units(msg, size, 1, k)) = k
    BY <2>1, <2>3, UnitsType
  <2>5. wire' \in Seq(Unit) /\ Len(wire') <= Room
    BY <2>1, <2>2, <2>4 DEF TypeOK, Free
  <2>6. left' \in (-MaxLen)..MaxLen /\ spoilt' \in BOOLEAN
    BY <2>1, <2>2, <2>3 DEF TypeOK
  <2>7. TypeOK'
    BY <2>2, <2>5, <2>6 DEF TypeOK, reader
  <2> QED BY <2>2, <2>3, <2>7 DEF Sized, RightLength, reader
<1> QED BY <1>1, <1>2 DEF Write

\* A read hands over what is as long as its header says (jcam_read_message).
LEMMA ReadSound == ASSUME Sound, Read PROVE Sound'
<1> USE DEF Sound
<1>1. CASE ReadHeader
  <2>1. /\ wire # <<>> /\ wire \in Seq(Unit) /\ state = 0
        /\ buf' = <<>> /\ UNCHANGED <<sender, got, base, spoilt, breaks>>
    BY <1>1 DEF ReadHeader, TypeOK
  <2>2. Head(wire) \in Unit /\ Tail(wire) \in Seq(Unit) /\ Len(Tail(wire)) = Len(wire) - 1
    BY <2>1
  <2>3. CASE Head(wire).at = 0
    <3>1. /\ state' = 1 /\ hdr' = [msg |-> Head(wire).msg, len |-> Head(wire).len]
          /\ want' = Head(wire).len /\ wire' = Tail(wire)
      BY <1>1, <2>3 DEF ReadHeader
    <3>2. /\ Head(wire).msg \in 1..MaxMsgs /\ Head(wire).len \in 1..MaxLen
      BY <2>2 DEF Unit
    <3>3. TypeOK'
      BY SMTT(30), <2>1, <2>2, <3>1, <3>2 DEF TypeOK, sender
    <3> QED BY <2>1, <3>1, <3>2, <3>3 DEF Sized, RightLength, sender
  <2>4. CASE Head(wire).at # 0
    <3>1. hdr' = NoHdr /\ want' = 0 /\ wire' = <<>> /\ state' = state
      BY <1>1, <2>4 DEF ReadHeader
    <3>2. TypeOK'
      BY <2>1, <3>1 DEF TypeOK, sender, NoHdr
    <3> QED BY <2>1, <3>1, <3>2 DEF Sized, RightLength, sender
  <2> QED BY <2>3, <2>4
<1>2. CASE ReadPayload
  <2>1. PICK k \in 1..Least(want, Len(wire)) :
          ReadPart(k) /\ wire' = SubSeq(wire, k + 1, Len(wire))
    BY <1>2 DEF ReadPayload
  <2>2. state = 1 /\ UNCHANGED <<hdr, sender, base, spoilt, breaks>>
    BY <1>2 DEF ReadPayload
  <2>3. k \in 1..Len(wire) /\ k <= want
    BY <2>1 DEF Least, TypeOK
  <2>4. wire' \in Seq(Unit) /\ Len(wire') <= Room
    BY <2>1, <2>3, Taken DEF TypeOK
  <2>5. buf' \in Seq(Unit) /\ Len(buf') = Len(buf) + k
    BY <2>1, <2>3, Taken DEF TypeOK, ReadPart, Took
  <2>6. want' = want - k /\ want' \in 0..MaxLen /\ Len(buf') + want' = hdr.len
    BY <2>1, <2>2, <2>3, <2>5 DEF TypeOK, ReadPart, Sized
  <2>7. Len(buf') <= MaxLen
    BY <2>5, <2>6 DEF TypeOK
  <2>8. CASE want' <= 0
    <3>1. state' = 0 /\ got' = Append(got, [hdr |-> hdr, body |-> buf'])
      BY <2>1, <2>8 DEF ReadPart
    <3>2. got' \in Seq([hdr : [msg : 0..MaxMsgs, len : 0..MaxLen], body : Seq(Unit)])
      BY <2>5, <3>1 DEF TypeOK
    <3>3. TypeOK'
      BY <2>2, <2>4, <2>5, <2>6, <2>7, <3>1, <3>2 DEF TypeOK, sender
    <3>4. Len(buf') = hdr.len
      BY <2>6, <2>8 DEF TypeOK
    <3>5. got \in Seq(Message) /\ [hdr |-> hdr, body |-> buf'] \in Message
      BY <2>5 DEF TypeOK, Message
    <3>6. RightLength'
      <4>1. /\ got' \in Seq(Message) /\ Len(got') = Len(got) + 1
            /\ \A i \in 1..Len(got) : got'[i] = got[i]
            /\ got'[Len(got) + 1] = [hdr |-> hdr, body |-> buf']
        BY <3>1, <3>5, OneMore
      <4>2. \A i \in 1..Len(got) : Len(got[i].body) = got[i].hdr.len
        BY <3>5 DEF Sized, RightLength
      <4>3. \A i \in 1..Len(got') : Len(got'[i].body) = got'[i].hdr.len
        BY SMTT(30), <2>2, <3>4, <3>5, <4>1, <4>2
      <4> QED BY <4>1, <4>3 DEF RightLength
    <3> QED BY <2>2, <3>1, <3>3, <3>6 DEF Sized, sender
  <2>9. CASE ~(want' <= 0)
    <3>1. UNCHANGED <<state, got>>
      BY <2>1, <2>9 DEF ReadPart
    <3>2. TypeOK'
      BY <2>2, <2>4, <2>5, <2>6, <2>7, <3>1 DEF TypeOK, sender
    <3> QED BY <2>2, <2>6, <2>9, <3>1, <3>2 DEF Sized, RightLength, sender, TypeOK
  <2> QED BY <2>8, <2>9
<1> QED BY <1>1, <1>2 DEF Read

\* A break empties the socket (socketclosed, jcam_read_message).
LEMMA BreakSound == ASSUME Sound, EndOfFile \/ SocketDied PROVE Sound'
<1> USE DEF Sound
<1>1. /\ breaks' \in 0..MaxBreaks /\ wire' = <<>> /\ left' = 0 /\ got' = <<>> /\ base' = msg
      /\ UNCHANGED <<msg, size, hdr, want, buf>>
  BY DEF EndOfFile, SocketDied, Break, TypeOK
<1>2. state' \in {0, state} /\ spoilt' \in BOOLEAN
  BY DEF EndOfFile, SocketDied
<1>3. TypeOK'
  BY <1>1, <1>2 DEF TypeOK
<1> QED BY <1>1, <1>2, <1>3 DEF Sized, RightLength, TypeOK

\* Every step keeps types and lengths (Next).
LEMMA NextSound == Sound /\ [Next]_vars => Sound'
<1>1. Sound /\ Next => Sound'
  BY WriteSound, ReadSound, BreakSound DEF Next
<1>2. Sound /\ UNCHANGED vars => Sound'
  BY DEF Sound, TypeOK, Sized, RightLength, vars, sender, reader
<1> QED BY <1>1, <1>2

\* Every variable keeps its type (the statics of jcam_read_message).
THEOREM TypeCorrect == Spec => []TypeOK
<1>1. Sound => TypeOK
  BY DEF Sound
<1> QED BY <1>1, InitSound, NextSound, PTL DEF Spec

\* Whatever breaks and however writes are cut short, what is handed over is as long
\* as its header says, for any socket and any payload (jcam_read_message).
THEOREM LengthsAreRight == Spec => []RightLength
<1>1. Sound => RightLength
  BY DEF Sound, Sized
<1> QED BY <1>1, InitSound, NextSound, PTL DEF Spec

-----------------------------------------------------------------------------
(* Messages in order.  A place is a message, where in it, and its length, which *)
(* is not known before its header was read.                                  *)

Place(u) == IF u.at = 0 THEN <<u.msg, 0, 0>> ELSE <<u.msg, u.at, u.len>>

\* The place behind a unit: in the same message, or the header of the next.
After(u) == IF u.at < u.len THEN <<u.msg, u.at + 1, u.len>> ELSE <<u.msg + 1, 0, 0>>

\* What the reader is to read next, and the writer to write.
Due == IF state = 1 THEN <<hdr.msg, Len(buf) + 1, hdr.len>> ELSE <<base + Len(got) + 1, 0, 0>>
ToWrite == IF left > 0 THEN <<msg, 1, size>> ELSE <<msg + 1, 0, 0>>

\* q runs from one place to another without a gap.
Runs(from, q, to) ==
  /\ q = <<>> => from = to
  /\ q # <<>> => Place(q[1]) = from /\ After(q[Len(q)]) = to
  /\ \A i \in 1..(Len(q) - 1) : Place(q[i + 1]) = After(q[i])

\* What is in the socket is what the reader waits for and the writer wrote, and what
\* was read of a payload is the beginning of it.
Stream ==
  ~spoilt =>
    /\ Runs(Due, wire, ToWrite)
    /\ left > 0 => left = size
    /\ state = 1 => /\ hdr.msg = base + Len(got) + 1
                    /\ \A i \in 1..Len(buf) : buf[i] = [msg |-> hdr.msg, at |-> i, len |-> hdr.len]
    /\ InOrder

\* Two runs make one (write).
LEMMA RunsJoin ==
  ASSUME NEW q \in Seq(Unit), NEW r \in Seq(Unit), NEW a, NEW b, NEW c,
         Runs(a, q, b), Runs(b, r, c)
  PROVE  Runs(a, q \o r, c)
<1>1. CASE q = <<>>
  <2>1. q \o r = r /\ a = b
    BY <1>1 DEF Runs
  <2> QED BY <2>1
<1>2. CASE r = <<>>
  <2>1. q \o r = q /\ b = c
    BY <1>2 DEF Runs
  <2> QED BY <2>1
<1>3. CASE q # <<>> /\ r # <<>>
  <2> DEFINE s == q \o r
  <2>1. /\ s \in Seq(Unit) /\ Len(s) = Len(q) + Len(r)
        /\ \A i \in 1..Len(q) : s[i] = q[i]
        /\ \A i \in 1..Len(r) : s[Len(q) + i] = r[i]
    BY Joined
  <2>2. Len(q) \in Nat \ {0} /\ Len(r) \in Nat \ {0}
    BY <1>3
  <2> HIDE DEF s
  <2>3. s[1] = q[1] /\ s[Len(s)] = r[Len(r)] /\ s # <<>>
    BY <2>1, <2>2
  <2>4. ASSUME NEW i \in 1..(Len(s) - 1) PROVE Place(s[i + 1]) = After(s[i])
    <3>1. CASE i < Len(q)
      <4>1. i \in 1..(Len(q) - 1) /\ s[i] = q[i] /\ s[i + 1] = q[i + 1]
        BY <2>1, <2>2, <3>1
      <4> QED BY <4>1 DEF Runs
    <3>2. CASE i = Len(q)
      <4>1. s[i] = q[Len(q)] /\ s[i + 1] = r[1]
        BY <2>1, <2>2, <3>2
      <4> QED BY <1>3, <4>1 DEF Runs
    <3>3. CASE i > Len(q)
      <4> DEFINE j == i - Len(q)
      <4>1. j \in 1..(Len(r) - 1) /\ i = Len(q) + j
        BY <2>1, <2>2, <3>3
      <4> HIDE DEF j
      <4>2. s[i] = r[j] /\ s[i + 1] = r[j + 1]
        <5>1. i + 1 = Len(q) + (j + 1) /\ j + 1 \in 1..Len(r) /\ j \in 1..Len(r)
          BY <2>2, <4>1
        <5> QED BY <2>1, <4>1, <5>1
      <4> QED BY <4>1, <4>2 DEF Runs
    <3> QED BY <2>2, <3>1, <3>2, <3>3
  <2>5. Place(s[1]) = a /\ After(s[Len(s)]) = c
    BY <1>3, <2>3 DEF Runs
  <2>6. Runs(a, s, c)
    BY <2>3, <2>4, <2>5 DEF Runs
  <2> QED BY <2>6 DEF s
<1> QED BY <1>1, <1>2, <1>3

\* What is left of a run when k units are taken goes on where they end (read).
LEMMA RunsCut ==
  ASSUME NEW q \in Seq(Unit), NEW a, NEW c, Runs(a, q, c), NEW k \in 1..Len(q)
  PROVE  Runs(After(q[k]), SubSeq(q, k + 1, Len(q)), c)
<1> DEFINE r == SubSeq(q, k + 1, Len(q))
<1>1. /\ r \in Seq(Unit) /\ Len(r) = Len(q) - k
      /\ \A i \in 1..(Len(q) - k) : r[i] = q[i + k]
  BY Taken
<1>2. Len(q) \in Nat \ {0} /\ q # <<>>
  OBVIOUS
<1> HIDE DEF r
<1>3. CASE k = Len(q)
  <2>1. r = <<>> /\ Len(r) = 0
    BY <1>1, <1>3
  <2>2. After(q[k]) = c
    BY <1>2, <1>3 DEF Runs
  <2>3. Runs(After(q[k]), r, c)
    BY <2>1, <2>2 DEF Runs
  <2> QED BY <2>3 DEF r
<1>4. CASE k < Len(q)
  <2>1. r # <<>> /\ r[1] = q[k + 1] /\ r[Len(r)] = q[Len(q)]
    <3>1. 1 \in 1..(Len(q) - k) /\ Len(r) \in 1..(Len(q) - k) /\ Len(r) + k = Len(q) /\ 1 + k = k + 1
      BY <1>1, <1>2, <1>4
    <3>2. Len(<<>>) = 0
      OBVIOUS
    <3>3. r # <<>>
      BY <3>1, <3>2
    <3>4. r[1] = q[1 + k] /\ r[Len(r)] = q[Len(r) + k]
      BY <1>1, <3>1
    <3> QED BY <3>1, <3>3, <3>4
  <2>2. Place(r[1]) = After(q[k])
    BY <1>2, <1>4, <2>1 DEF Runs
  <2>3. After(r[Len(r)]) = c
    BY <1>2, <2>1 DEF Runs
  <2>4. ASSUME NEW i \in 1..(Len(r) - 1) PROVE Place(r[i + 1]) = After(r[i])
    <3>1. r[i] = q[i + k] /\ r[i + 1] = q[(i + k) + 1] /\ i + k \in 1..(Len(q) - 1)
      <4>1. i \in 1..(Len(q) - k) /\ i + 1 \in 1..(Len(q) - k) /\ (i + 1) + k = (i + k) + 1
        BY <1>1, <1>2
      <4> QED BY <1>1, <1>2, <4>1
    <3> QED BY <3>1 DEF Runs
  <2>5. Runs(After(q[k]), r, c)
    BY <2>1, <2>2, <2>3, <2>4 DEF Runs
  <2> QED BY <2>5 DEF r
<1> QED BY <1>2, <1>3, <1>4

\* A run that starts in a payload goes on in it to its end (jcam_read_message).
LEMMA RunsWithin ==
  ASSUME NEW q \in Seq(Unit), NEW m \in Nat, NEW p \in Nat \ {0}, NEW n \in Nat, NEW c,
         Runs(<<m, p, n>>, q, c),
         NEW k \in 1..Len(q), p + k <= n + 1
  PROVE  \A i \in 1..k : q[i] = [msg |-> m, at |-> p + i - 1, len |-> n]
<1> DEFINE Good(i) == q[i] = [msg |-> m, at |-> p + i - 1, len |-> n]
           Bad == {i \in 1..k : ~Good(i)}
           R == OpToRel(<, Nat)
<1>1. SUFFICES ASSUME Bad # {} PROVE FALSE
  OBVIOUS
<1>2. IsWellFoundedOn(R, Nat)
  BY NatLessThanWellFounded
<1>3. \A y, x \in Nat : y < x => <<y, x>> \in R
  BY DEF OpToRel
<1>4. Bad \in SUBSET Nat
  OBVIOUS
<1> HIDE DEF R, Bad
<1>5. PICK x \in Bad : \A y \in Bad : ~(<<y, x>> \in R)
  BY <1>1, <1>2, <1>4, WFMin, Zenon
<1>6. x \in 1..k /\ ~Good(x)
  BY <1>5 DEF Bad
<1>7. x # 1
  <2>1. q # <<>> /\ q[1] \in Unit
    OBVIOUS
  <2>2. Place(q[1]) = <<m, p, n>>
    BY <2>1 DEF Runs
  <2>3. q[1] = [msg |-> m, at |-> p, len |-> n]
    BY <2>1, <2>2 DEF Place, Unit
  <2> QED BY <1>6, <2>3
<1>8. Good(x - 1)
  <2>1. x - 1 \in 1..k /\ x - 1 \in Nat /\ x \in Nat /\ x - 1 < x
    BY <1>6, <1>7
  <2>2. x - 1 \notin Bad
    BY <1>3, <1>5, <2>1
  <2> QED BY <2>1, <2>2 DEF Bad
<1>9. Good(x)
  <2>1. x - 1 \in 1..(Len(q) - 1) /\ (x - 1) + 1 = x /\ q[x] \in Unit
    BY <1>6, <1>7
  <2>2. Place(q[x]) = After(q[x - 1])
    BY <2>1 DEF Runs
  <2>3. q[x - 1] = [msg |-> m, at |-> p + x - 2, len |-> n] /\ p + x - 2 < n
    BY <1>6, <1>7, <1>8
  <2>4. After(q[x - 1]) = <<m, p + x - 1, n>>
    BY <1>6, <2>3 DEF After
  <2>5. p + x - 1 # 0
    BY <1>6
  <2>6. Place(q[x]) = <<m, p + x - 1, n>>
    BY <2>2, <2>4
  <2>7. q[x].at # 0
    <3>1. q[x].at = 0 => Place(q[x]) = <<q[x].msg, 0, 0>>
      BY DEF Place
    <3> QED BY <2>5, <2>6, <3>1
  <2>8. Place(q[x]) = <<q[x].msg, q[x].at, q[x].len>>
    BY <2>7 DEF Place
  <2>9. q[x].msg = m /\ q[x].at = p + x - 1 /\ q[x].len = n
    BY <2>6, <2>8
  <2> QED BY <2>1, <2>9 DEF Unit
<1> QED BY <1>6, <1>9

\* The units of a payload, or a header, are a run (jc_sockwrite, jc_send_header).
LEMMA UnitsRun ==
  ASSUME NEW m \in 1..MaxMsgs, NEW n \in 1..MaxLen
  PROVE  /\ Runs(<<m, 0, 0>>, Units(m, n, 0, 1), <<m, 1, n>>)
         /\ Runs(<<m, 1, n>>, Units(m, n, 1, n), <<m + 1, 0, 0>>)
<1>1. Runs(<<m, 0, 0>>, Units(m, n, 0, 1), <<m, 1, n>>)
  <2> DEFINE u == Units(m, n, 0, 1)
  <2>1. Len(u) = 1 /\ u # <<>> /\ u[1] = [msg |-> m, at |-> 0, len |-> n]
    BY DEF Units
  <2> HIDE DEF u
  <2>2. Place(u[1]) = <<m, 0, 0>> /\ After(u[1]) = <<m, 1, n>>
    BY <2>1 DEF Place, After
  <2>3. Runs(<<m, 0, 0>>, u, <<m, 1, n>>)
    BY <2>1, <2>2 DEF Runs
  <2> QED BY <2>3 DEF u
<1>2. Runs(<<m, 1, n>>, Units(m, n, 1, n), <<m + 1, 0, 0>>)
  <2> DEFINE u == Units(m, n, 1, n)
  <2>1. Len(u) = n /\ \A i \in 1..n : u[i] = [msg |-> m, at |-> i, len |-> n]
    BY DEF Units
  <2> HIDE DEF u
  <2>2. n \in Nat \ {0} /\ u # <<>>
    <3>1. n \in Nat \ {0} /\ Len(<<>>) = 0
      OBVIOUS
    <3> QED BY <2>1, <3>1
  <2>3. Place(u[1]) = <<m, 1, n>> /\ After(u[Len(u)]) = <<m + 1, 0, 0>>
    BY <2>1, <2>2 DEF Place, After
  <2>4. ASSUME NEW i \in 1..(Len(u) - 1) PROVE Place(u[i + 1]) = After(u[i])
    <3>1. i \in 1..n /\ i + 1 \in 1..n /\ i < n
      BY <2>1, <2>2
    <3>2. /\ u[i] = [msg |-> m, at |-> i, len |-> n]
          /\ u[i + 1] = [msg |-> m, at |-> i + 1, len |-> n]
      BY <2>1, <3>1
    <3>3. After(u[i]) = <<m, i + 1, n>>
      BY <3>1, <3>2 DEF After
    <3>4. Place(u[i + 1]) = <<m, i + 1, n>>
      BY <3>1, <3>2 DEF Place
    <3> QED BY <3>3, <3>4
  <2>5. Runs(<<m, 1, n>>, u, <<m + 1, 0, 0>>)
    BY <2>2, <2>3, <2>4 DEF Runs
  <2> QED BY <2>5 DEF u
<1> QED BY <1>1, <1>2

\* Nothing sent, nothing due (Init).
LEMMA InitStream == Init => Stream
<1> SUFFICES ASSUME Init PROVE Stream
  OBVIOUS
<1>1. wire = <<>> /\ got = <<>> /\ state = 0 /\ left = 0 /\ msg = 0 /\ base = 0
  BY DEF Init
<1>2. Due = <<1, 0, 0>> /\ ToWrite = <<1, 0, 0>>
  BY <1>1 DEF Due, ToWrite
<1>3. \A i \in 1..(Len(wire) - 1) : FALSE
  BY <1>1
<1>4. Runs(Due, wire, ToWrite)
  BY <1>1, <1>2, <1>3 DEF Runs
<1>5. InOrder
  BY <1>1 DEF InOrder
<1> QED BY <1>1, <1>4, <1>5 DEF Stream

\* A write that is not cut short goes on with the run (jc_send_header, jc_sockwrite).
LEMMA WriteStream == ASSUME Sound, Stream, Write PROVE Stream'
<1> SUFFICES ASSUME ~spoilt'
             PROVE  /\ Runs(Due, wire, ToWrite)'
                    /\ (left > 0 => left = size)'
                    /\ UNCHANGED <<reader, base>> /\ ~spoilt
  BY DEF Stream, InOrder, Whole, reader
<1> USE DEF Sound
<1>1. CASE SendHeader
  <2>9. Free \in Int /\ Free >= 0
    BY DEF Free, TypeOK
  <2>10. ~spoilt /\ Free # 0
    BY <1>1 DEF SendHeader
  <2>1. /\ ~spoilt /\ Free > 0 /\ wire' = wire \o Units(msg', size', 0, 1)
        /\ msg' = msg + 1 /\ size' \in 1..MaxLen /\ left' = size' /\ msg' \in 1..MaxMsgs
        /\ left <= 0
    <3>1. Free > 0
      BY <2>9, <2>10
    <3>2. wire' = wire \o Units(msg', size', 0, 1)
      BY <1>1, <3>1 DEF SendHeader
    <3>3. /\ msg' = msg + 1 /\ size' \in 1..MaxLen /\ left' = size' /\ msg' \in 1..MaxMsgs
          /\ left <= 0
      BY <1>1 DEF SendHeader, TypeOK
    <3> QED BY <2>10, <3>1, <3>2, <3>3
  <2>2. UNCHANGED <<reader, base>>
    BY <1>1 DEF SendHeader
  <2>3. Runs(Due, wire, <<msg', 0, 0>>)
    BY <2>1 DEF Stream, ToWrite, TypeOK
  <2>4. Runs(<<msg', 0, 0>>, Units(msg', size', 0, 1), <<msg', 1, size'>>)
    BY <2>1, UnitsRun
  <2>5. Units(msg', size', 0, 1) \in Seq(Unit) /\ wire \in Seq(Unit)
    BY <2>1 DEF Units, Unit, TypeOK
  <2>6. Runs(Due, wire', <<msg', 1, size'>>)
    BY <2>1, <2>3, <2>4, <2>5, RunsJoin
  <2>7. Due' = Due /\ ToWrite' = <<msg', 1, size'>>
    BY <2>1, <2>2 DEF Due, ToWrite, reader
  <2> QED BY <2>1, <2>2, <2>6, <2>7 DEF Runs
<1>2. CASE WritePayload
  <2>1. ~spoilt /\ left > 0 /\ UNCHANGED <<msg, size, reader, base>>
    BY <1>2 DEF WritePayload
  <2>2. left = size /\ msg \in 1..MaxMsgs /\ size \in 1..MaxLen
    BY <2>1 DEF Stream, Sized, TypeOK
  <2>3. ~(Least(size, Free) < size)
    BY <1>2 DEF WritePayload
  <2>4. Least(size, Free) = size
    <3>1. Free \in Int
      BY DEF Free, TypeOK
    <3>2. Least(size, Free) \in {size, Free} /\ Least(size, Free) <= size
      BY <2>2, <3>1 DEF Least
    <3> QED BY <2>2, <2>3, <3>1, <3>2
  <2>5. wire' = wire \o Units(msg, size, 1, size) /\ left' = left - size
    BY <1>2, <2>4 DEF WritePayload
  <2>6. Runs(Due, wire, <<msg, 1, size>>)
    BY <2>1 DEF Stream, ToWrite
  <2>7. Runs(<<msg, 1, size>>, Units(msg, size, 1, size), <<msg + 1, 0, 0>>)
    BY <2>2, UnitsRun
  <2>8. Units(msg, size, 1, size) \in Seq(Unit) /\ wire \in Seq(Unit)
    <3>1. 1 \in 0..MaxLen /\ size \in Nat /\ 1 + size <= MaxLen + 1
      BY <2>2
    <3> QED BY <2>2, <3>1, UnitsType DEF TypeOK
  <2>9. Runs(Due, wire', <<msg + 1, 0, 0>>)
    BY <2>5, <2>6, <2>7, <2>8, RunsJoin
  <2>10. left' = 0
    BY <2>2, <2>5
  <2>11. Due' = Due /\ ToWrite' = <<msg + 1, 0, 0>>
    BY <2>1, <2>10 DEF Due, ToWrite, reader
  <2> QED BY <2>1, <2>9, <2>10, <2>11 DEF Runs
<1> QED BY <1>1, <1>2 DEF Write

\* A header read is the one that was due (jcam_read_message).
LEMMA HeaderStream == ASSUME Sound, Stream, ReadHeader PROVE Stream'
<1> SUFFICES ASSUME ~spoilt' PROVE Stream'
  BY DEF Stream
<1> USE DEF Sound
<1>1. /\ state = 0 /\ wire # <<>> /\ wire \in Seq(Unit) /\ buf' = <<>> /\ ~spoilt
      /\ UNCHANGED <<sender, got, base, spoilt>>
  BY DEF ReadHeader, TypeOK
<1>2. 1 \in 1..Len(wire) /\ Head(wire) = wire[1] /\ wire[1] \in Unit
      /\ Tail(wire) = SubSeq(wire, 2, Len(wire))
  BY <1>1
<1>3. Place(wire[1]) = <<base + Len(got) + 1, 0, 0>>
  BY <1>1 DEF Stream, Runs, Due
<1>4. wire[1].at = 0 /\ wire[1].msg = base + Len(got) + 1 /\ wire[1].len \in 1..MaxLen
  BY <1>2, <1>3 DEF Place, Unit
<1>5. /\ state' = 1 /\ hdr' = [msg |-> wire[1].msg, len |-> wire[1].len]
      /\ wire' = SubSeq(wire, 1 + 1, Len(wire))
  BY SMTT(30), <1>2, <1>4 DEF ReadHeader
<1>6. After(wire[1]) = <<wire[1].msg, 1, wire[1].len>>
  BY <1>4 DEF After
<1>7. Due' = After(wire[1]) /\ ToWrite' = ToWrite
  BY <1>1, <1>5, <1>6 DEF Due, ToWrite, sender
<1>8. Runs(After(wire[1]), wire', ToWrite)
  <2>1. Runs(Due, wire, ToWrite)
    BY <1>1 DEF Stream
  <2> QED BY <1>1, <1>2, <1>5, <2>1, RunsCut
<1>9. Runs(Due, wire, ToWrite)'
  BY <1>7, <1>8 DEF Runs
<1>10. InOrder' /\ (left > 0 => left = size)'
  BY <1>1 DEF Stream, InOrder, Whole, sender
<1>11. \A i \in 1..Len(buf') : FALSE
  BY <1>1
<1> QED BY <1>1, <1>4, <1>5, <1>9, <1>10, <1>11 DEF Stream

\* A payload read to its end is the one that was sent (jcam_read_message).
LEMMA PayloadStream == ASSUME Sound, Stream, ReadPayload PROVE Stream'
<1> SUFFICES ASSUME ~spoilt' PROVE Stream'
  BY DEF Stream
<1> USE DEF Sound
<1> DEFINE m == hdr.msg
           n == hdr.len
<1>1. PICK k \in 1..Least(want, Len(wire)) :
        ReadPart(k) /\ wire' = SubSeq(wire, k + 1, Len(wire))
  BY DEF ReadPayload
<1>2. state = 1 /\ ~spoilt /\ UNCHANGED <<hdr, sender, base, spoilt>>
  BY DEF ReadPayload
<1>3. k \in 1..Len(wire) /\ k <= want /\ want \in Nat /\ wire \in Seq(Unit) /\ buf \in Seq(Unit)
  BY <1>1 DEF Least, TypeOK
<1>16. k \in Nat \ {0} /\ Len(wire) \in Nat /\ Len(buf) \in Nat /\ k <= Len(wire)
  BY <1>3
<1>4. /\ m = base + Len(got) + 1 /\ m \in 1..MaxMsgs /\ n \in Nat /\ Len(buf) + want = n
      /\ \A i \in 1..Len(buf) : buf[i] = [msg |-> m, at |-> i, len |-> n]
  BY <1>2 DEF Stream, Sized, TypeOK
<1>5. Runs(<<m, Len(buf) + 1, n>>, wire, ToWrite)
  BY <1>2 DEF Stream, Due
<1> HIDE DEF m, n
<1>6. \A i \in 1..k : wire[i] = [msg |-> m, at |-> Len(buf) + i, len |-> n]
  <2>1. Len(buf) + 1 \in Nat \ {0} /\ (Len(buf) + 1) + k <= n + 1 /\ m \in Nat
    BY <1>3, <1>4
  <2>2. \A i \in 1..k : wire[i] = [msg |-> m, at |-> (Len(buf) + 1) + i - 1, len |-> n]
    <3>1. Len(buf) + 1 \in Nat \ {0} /\ n \in Nat
      BY <1>4, <1>16
    <3> QED BY SMTT(30), <1>3, <1>5, <2>1, <3>1, RunsWithin
  <2>3. \A i \in 1..k : (Len(buf) + 1) + i - 1 = Len(buf) + i
    BY <1>3
  <2> QED BY <2>2, <2>3
<1>7. /\ buf' \in Seq(Unit) /\ Len(buf') = Len(buf) + k
      /\ \A i \in 1..Len(buf') : buf'[i] = [msg |-> m, at |-> i, len |-> n]
  <2> DEFINE t == SubSeq(wire, 1, k)
  <2>1. t \in Seq(Unit) /\ Len(t) = k /\ \A i \in 1..k : t[i] = wire[i]
    BY <1>3, Taken
  <2>2. buf' = buf \o t
    BY <1>1 DEF ReadPart, Took
  <2> HIDE DEF t
  <2>3. /\ buf' \in Seq(Unit) /\ Len(buf') = Len(buf) + k
        /\ \A i \in 1..Len(buf) : buf'[i] = buf[i]
        /\ \A i \in 1..k : buf'[Len(buf) + i] = t[i]
    <3>1. /\ buf \o t \in Seq(Unit) /\ Len(buf \o t) = Len(buf) + Len(t)
          /\ \A i \in 1..Len(buf) : (buf \o t)[i] = buf[i]
          /\ \A i \in 1..Len(t) : (buf \o t)[Len(buf) + i] = t[i]
      <4>1. buf \in Seq(Unit) /\ t \in Seq(Unit)
        BY <1>3, <2>1
      <4> QED BY <4>1, Joined
    <3> QED BY <2>1, <2>2, <3>1
  <2>4. ASSUME NEW i \in 1..Len(buf') PROVE buf'[i] = [msg |-> m, at |-> i, len |-> n]
    <3>1. CASE i <= Len(buf)
      <4>1. i \in 1..Len(buf)
        BY <1>16, <2>3, <3>1
      <4> QED BY <1>4, <2>3, <4>1
    <3>2. CASE i > Len(buf)
      <4>1. i - Len(buf) \in 1..k /\ Len(buf) + (i - Len(buf)) = i
        BY <1>3, <2>3, <3>2
      <4> DEFINE j == i - Len(buf)
      <4>2. j \in 1..k /\ Len(buf) + j = i
        BY <4>1
      <4> HIDE DEF j
      <4>3. buf'[Len(buf) + j] = t[j] /\ t[j] = wire[j]
        BY <2>1, <2>3, <4>2
      <4>4. wire[j] = [msg |-> m, at |-> Len(buf) + j, len |-> n]
        BY <1>6, <4>2
      <4> QED BY <4>2, <4>3, <4>4
    <3> QED BY <1>3, <2>3, <3>1, <3>2
  <2> QED BY <2>3, <2>4
<1>8. want' = want - k /\ Len(buf') + want' = n
  <2>1. want' = want - k
    BY <1>1 DEF ReadPart
  <2>2. want \in Nat /\ Len(buf) + want = n /\ Len(buf') = Len(buf) + k
    BY <1>3, <1>4, <1>7
  <2> QED BY <1>16, <2>1, <2>2
<1>9. Runs(After(wire[k]), wire', ToWrite)
  BY <1>1, <1>3, <1>5, RunsCut
<1>10. ToWrite' = ToWrite /\ (left > 0 => left = size)'
  BY <1>2 DEF ToWrite, sender, Stream
<1>11. got \in Seq(Message) /\ Len(got) \in Nat /\ base \in Nat
       /\ \A i \in 1..Len(got) : Whole(got[i], base + i)
  <2>1. got \in Seq(Message) /\ base \in Nat
    BY DEF TypeOK, Message
  <2>2. InOrder
    BY <1>2 DEF Stream
  <2> QED BY <1>2, <2>1, <2>2 DEF InOrder
<1>12. hdr'.msg = m /\ hdr'.len = n /\ base' = base
  BY <1>2 DEF m, n
<1>13. wire[k].at = Len(buf) + k /\ wire[k].len = n /\ wire[k].msg = m
  <2>1. k \in 1..k
    BY <1>16
  <2>2. wire[k] = [msg |-> m, at |-> Len(buf) + k, len |-> n]
    BY <1>6, <2>1
  <2> QED BY <2>2
<1>14. CASE want' <= 0
  <2>1. state' = 0 /\ got' = Append(got, [hdr |-> hdr, body |-> buf'])
    BY <1>1, <1>14 DEF ReadPart
  <2>2. [hdr |-> hdr, body |-> buf'] \in Message
    BY <1>7 DEF TypeOK, Message
  <2>3. /\ got' \in Seq(Message) /\ Len(got') = Len(got) + 1
        /\ \A i \in 1..Len(got) : got'[i] = got[i]
        /\ got'[Len(got) + 1] = [hdr |-> hdr, body |-> buf']
    BY <1>11, <2>1, <2>2, OneMore
  <2>4. Len(buf') = n
    BY <1>3, <1>8, <1>14
  <2>5. buf' = Units(m, n, 1, n)
    BY <1>4, <1>7, <2>4 DEF Units
  <2>6. Whole(got'[Len(got) + 1], base + (Len(got) + 1))
    BY <1>4, <1>11, <1>12, <2>3, <2>5 DEF Whole, m, n
  <2>7. InOrder'
    <3>1. \A i \in 1..Len(got') : Whole(got'[i], base + i)
      BY SMTT(30), <1>11, <2>3, <2>6
    <3> QED BY <1>12, <2>3, <3>1 DEF InOrder, Whole
  <2>8. After(wire[k]) = <<m + 1, 0, 0>>
    BY <1>3, <1>4, <1>7, <1>13, <2>4 DEF After
  <2>9. Due' = <<m + 1, 0, 0>>
    BY <1>4, <1>11, <1>12, <2>1, <2>3 DEF Due
  <2>10. Runs(Due, wire, ToWrite)'
    BY <1>9, <1>10, <2>8, <2>9 DEF Runs
  <2> QED BY <1>10, <2>1, <2>7, <2>10 DEF Stream
<1>15. CASE ~(want' <= 0)
  <2>1. state' = 1 /\ got' = got
    BY <1>1, <1>2, <1>15 DEF ReadPart
  <2>2. Len(buf) + k < n
    BY <1>3, <1>7, <1>8, <1>15
  <2>3. After(wire[k]) = <<m, Len(buf) + k + 1, n>>
    BY <1>13, <2>2 DEF After
  <2>4. Due' = <<m, Len(buf) + k + 1, n>>
    BY <1>7, <1>12, <2>1 DEF Due
  <2>5. Runs(Due, wire, ToWrite)'
    BY <1>9, <1>10, <2>3, <2>4 DEF Runs
  <2>6. InOrder'
    BY <1>2, <1>12, <2>1 DEF Stream, InOrder, Whole
  <2>7. (hdr.msg = base + Len(got) + 1)'
    BY <1>4, <1>12, <2>1
  <2>8. (\A i \in 1..Len(buf) : buf[i] = [msg |-> hdr.msg, at |-> i, len |-> hdr.len])'
    BY <1>7, <1>12
  <2> QED BY <1>10, <2>5, <2>6, <2>7, <2>8 DEF Stream
<1> QED BY <1>14, <1>15

\* A break that leaves no payload half read starts anew (socketclosed).
LEMMA BreakStream == ASSUME Sound, Stream, EndOfFile \/ SocketDied PROVE Stream'
<1> SUFFICES ASSUME ~spoilt' PROVE Stream'
  BY DEF Stream
<1>1. /\ wire' = <<>> /\ left' = 0 /\ got' = <<>> /\ base' = msg /\ msg' = msg
  BY DEF EndOfFile, SocketDied, Break
<1>2. state' = 0
  BY DEF EndOfFile, SocketDied, Sound, TypeOK
<1>3. Due' = <<msg + 1, 0, 0>> /\ ToWrite' = <<msg + 1, 0, 0>>
  BY <1>1, <1>2 DEF Due, ToWrite, Sound, TypeOK
<1>4. Runs(Due, wire, ToWrite)'
  <2>1. Len(wire') = 0
    BY <1>1
  <2> QED BY <1>1, <1>3, <2>1 DEF Runs
<1>5. InOrder'
  BY <1>1 DEF InOrder
<1> QED BY <1>1, <1>2, <1>4, <1>5 DEF Stream

\* Until a write is cut short or a break leaves a payload half read, the messages
\* handed over are those that were sent, whole and in order, for any socket, any
\* lengths and wherever reads stop (jc_sockwrite, jcam_read_message).
THEOREM MessagesInOrder == Spec => []InOrder
<1>1. Init => Sound /\ Stream
  BY InitSound, InitStream
<1>2. Sound /\ Stream /\ [Next]_vars => (Sound /\ Stream)'
  <2>1. ASSUME Sound, Stream, Next PROVE Stream'
    BY <2>1, WriteStream, HeaderStream, PayloadStream, BreakStream DEF Next, Read
  <2>2. ASSUME Stream, UNCHANGED vars PROVE Stream'
    BY <2>2 DEF Stream, Due, ToWrite, Runs, InOrder, Whole, vars, sender, reader
  <2> QED BY <2>1, <2>2, NextSound
<1>3. Stream => InOrder
  BY DEF Stream, InOrder
<1> QED BY <1>1, <1>2, <1>3, PTL DEF Spec

=============================================================================
