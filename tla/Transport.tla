------------------------------ MODULE Transport ------------------------------
(***************************************************************************)
(* One direction of a connection: jc_send_header and jc_sockwrite on one side *)
(* of a non-blocking socket, jcam_read_message on the other.                 *)
(*                                                                          *)
(* The socket holds at most Room units.  A unit is a header, or a piece of a  *)
(* payload as long as a header, named by the message and its place in it.    *)
(* A write that does not fit is written in part: a header's result is thrown  *)
(* away, and a payload is then written again from its beginning.             *)
(***************************************************************************)
EXTENDS Integers, Sequences

CONSTANTS
  Room,        \* what the socket's buffers hold
  MaxLen,      \* the longest payload
  MaxMsgs,     \* bound: messages sent
  MaxBreaks    \* bound: connections that break

ASSUME TransportAssumption ==
  /\ Room \in Nat \ {0} /\ MaxLen \in Nat \ {0}
  /\ MaxMsgs \in Nat /\ MaxBreaks \in Nat

\* The header is place 0; it carries the payload's length.
Unit == [msg : 1..MaxMsgs, at : 0..MaxLen, len : 1..MaxLen]
Units(m, n, first, k) == [i \in 1..k |-> [msg |-> m, at |-> first + i - 1, len |-> n]]

VARIABLES
  wire,      \* what lies in the socket
  msg, size, \* the message being written and its length
  left,      \* bytestowrite
  state,     \* jcam_read_message's: 0 awaits a header, 1 reads a payload
  hdr,       \* the header it read
  want,      \* bytestoread
  buf,       \* what it has read of the payload
  got,       \* the messages handed to the caller, of this connection
  base,      \* messages sent over earlier connections
  spoilt,    \* something was written in part, or a break left a payload half read
  breaks

sender == <<msg, size, left>>
reader == <<state, hdr, want, buf, got>>
vars == <<wire, sender, reader, base, spoilt, breaks>>

NoHdr == [msg |-> 0, len |-> 0]

Init ==
  /\ wire = <<>>
  /\ msg = 0 /\ size = 1 /\ left = 0
  /\ state = 0 /\ hdr = NoHdr /\ want = 0 /\ buf = <<>> /\ got = <<>>
  /\ base = 0 /\ spoilt = FALSE /\ breaks = 0

\* Mutant: one unit too many.
FreeAndOne == Room - Len(wire) + 1

Free == Room - Len(wire)
Least(a, b) == IF a < b THEN a ELSE b

-----------------------------------------------------------------------------
(* The writer.                                                              *)

\* jc_send_header: one write, whose result nobody looks at.
SendHeader ==
  /\ left <= 0 /\ msg < MaxMsgs
  /\ msg' = msg + 1
  /\ size' \in 1..MaxLen
  /\ left' = size'
  /\ wire' = IF Free > 0 THEN wire \o Units(msg', size', 0, 1) ELSE wire
  /\ spoilt' = (spoilt \/ Free = 0)
  /\ UNCHANGED <<reader, base, breaks>>

\* jc_sockwrite: every turn offers the whole payload.  A full socket is not an
\* error: it is tried again and again.
WritePayload ==
  /\ left > 0 /\ Free > 0
  /\ LET k == Least(size, Free) IN
     /\ wire' = wire \o Units(msg, size, 1, k)
     /\ left' = left - k
     /\ spoilt' = (spoilt \/ k < size)
  /\ UNCHANGED <<msg, size, reader, base, breaks>>

-----------------------------------------------------------------------------
(* The reader.                                                              *)

\* Mutant: what was read of an earlier message is not cleared.
ReadHeaderOn ==
  /\ state = 0 /\ wire # <<>> /\ Head(wire).at = 0
  /\ state' = 1
  /\ hdr' = [msg |-> Head(wire).msg, len |-> Head(wire).len]
  /\ want' = Head(wire).len
  /\ wire' = Tail(wire)
  /\ UNCHANGED <<sender, buf, got, base, spoilt, breaks>>

\* A header, if that is what comes next.  Anything else is bad magic: all that
\* can be read is thrown away, and the caller carries on.
ReadHeader ==
  /\ state = 0 /\ wire # <<>>
  /\ IF Head(wire).at = 0
       THEN /\ state' = 1
            /\ hdr' = [msg |-> Head(wire).msg, len |-> Head(wire).len]
            /\ want' = Head(wire).len
            /\ wire' = Tail(wire)
       ELSE /\ hdr' = NoHdr /\ want' = 0 /\ wire' = <<>>
            /\ UNCHANGED state
  /\ buf' = <<>>
  /\ UNCHANGED <<sender, got, base, spoilt, breaks>>

Took(k) == SubSeq(wire, 1, k)

\* Mutant: a message is complete when more than all of it has been read.
ReadBeyond(k) ==
  /\ buf' = buf \o Took(k)
  /\ want' = want - k
  /\ UNCHANGED <<state, got>>

\* A read returns k units of the payload.  The call may time out after it; the
\* next one goes on from here.
ReadPart(k) ==
  /\ buf' = buf \o Took(k)
  /\ want' = want - k
  /\ IF want' <= 0
       THEN /\ state' = 0
            /\ got' = Append(got, [hdr |-> hdr, body |-> buf'])
       ELSE UNCHANGED <<state, got>>

ReadPayload ==
  /\ state = 1 /\ wire # <<>>
  /\ \E k \in 1..Least(want, Len(wire)) :
       /\ ReadPart(k)
       /\ wire' = SubSeq(wire, k + 1, Len(wire))
  /\ UNCHANGED <<hdr, sender, base, spoilt, breaks>>

-----------------------------------------------------------------------------
(* The connection breaks and a new one is made.                             *)

Break ==
  /\ breaks < MaxBreaks
  /\ breaks' = breaks + 1
  /\ wire' = <<>> /\ left' = 0 /\ got' = <<>> /\ base' = msg

\* Mutant: end of file leaves the state alone.
EndOfFileKept ==
  /\ Break
  /\ spoilt' = FALSE
  /\ UNCHANGED <<msg, size, state, hdr, want, buf>>

\* The reader finds out by reading: end of file sets the state back.
EndOfFile ==
  /\ Break
  /\ state' = 0 /\ spoilt' = FALSE
  /\ UNCHANGED <<msg, size, hdr, want, buf>>

\* The reader's process finds out by writing: socketclosed closes the socket and
\* jcam_read_message, whose state is static, is not told.
SocketDied ==
  /\ Break
  /\ spoilt' = (state = 1)
  /\ UNCHANGED <<msg, size, state, hdr, want, buf>>

-----------------------------------------------------------------------------
Write == SendHeader \/ WritePayload
Read == ReadHeader \/ ReadPayload

Next == Write \/ Read \/ EndOfFile \/ SocketDied

Spec == Init /\ [][Next]_vars

\* Both loops run.
FairSpec == Spec /\ WF_vars(WritePayload) /\ WF_vars(Read)

-----------------------------------------------------------------------------
(* What makes it correct.                                                   *)

\* Every variable has its type (the statics of jcam_read_message).
TypeOK ==
  /\ wire \in Seq(Unit) /\ Len(wire) <= Room
  /\ msg \in 0..MaxMsgs /\ size \in 1..MaxLen /\ left \in (-MaxLen)..MaxLen
  /\ state \in {0, 1} /\ hdr \in [msg : 0..MaxMsgs, len : 0..MaxLen]
  /\ want \in 0..MaxLen /\ buf \in Seq(Unit) /\ Len(buf) <= MaxLen
  /\ got \in Seq([hdr : [msg : 0..MaxMsgs, len : 0..MaxLen], body : Seq(Unit)])
  /\ base \in 0..MaxMsgs /\ spoilt \in BOOLEAN /\ breaks \in 0..MaxBreaks

\* Message m whole: the header that was sent and its own payload in order.
Whole(r, m) ==
  /\ r.hdr.msg = m
  /\ r.body = Units(m, r.hdr.len, 1, r.hdr.len)

\* Until a write is cut short or a break leaves a payload half read, the caller is
\* handed every message of the connection whole, once and in order, however the
\* reads are split and wherever they time out.
InOrder == ~spoilt => \A i \in DOMAIN got : Whole(got[i], base + i)

\* And whatever happens, what is handed over is as long as its header says.
RightLength == \A i \in DOMAIN got : Len(got[i].body) = got[i].hdr.len

\* What was written is handed over, if the connection lasts and nothing is cut.
Arrives ==
  \A m \in 1..MaxMsgs :
    msg = m ~> (spoilt \/ base >= m \/ Len(got) >= m - base)

=============================================================================
