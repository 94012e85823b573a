------------------------------- MODULE Stream -------------------------------
(***************************************************************************)
(* One direction of a stream session of internal/session: the sender's     *)
(* half of the stream state at one end, the receiver's half at the other,  *)
(* and the carriers (lanes) between them.  A lane is one carrier           *)
(* incarnation: the dialer joins it, it carries frames in order each way,  *)
(* it may break at any moment and never comes back.                        *)
(*                                                                         *)
(* A byte is its offset.  Span lists (spanlist.go) are sets of offsets, a  *)
(* DATA frame carries the offsets off .. off + n - 1.  What a Fill puts in *)
(* one batch is one step per frame here.  Timers (ACK delay, rescue wait,  *)
(* re-advertisement) may fire at any moment.                               *)
(***************************************************************************)
EXTENDS Integers, Sequences

CONSTANTS
    Lane,          \* carrier incarnations
    First,         \* the lane of the OPEN exchange
    Fragile,       \* the lanes that may break
    None,          \* no lane, no offset
    SenderDials,   \* TRUE: the sender is the dialer, FALSE: the passive side
    Bond,          \* TRUE: bond routing, FALSE: selector routing
    OffsetLimit,   \* Params.OffsetLimit: the bytes that may be written
    SegMax,        \* DATA payload limit (segment), in bytes
    FwdMax,        \* frames a carrier holds to the receiver (back-pressure)
    BackMax,       \* frames a carrier holds to the sender
    W,             \* Params.Window: send buffer and receive window
    Floor,         \* readvertiseFloor: a smaller window is re-advertised
    Windows,       \* what AdvertiseWindow may return under memory pressure
    MayDrop,       \* TRUE: the out-of-order charge may pass recvLimit
    MayClose       \* TRUE: the receiving application may call Close

ASSUME ConstAssumption ==
    /\ First \in Lane
    /\ None \notin Lane
    /\ None \notin Nat
    /\ Fragile \subseteq Lane
    /\ SenderDials \in BOOLEAN
    /\ Bond \in BOOLEAN
    /\ MayDrop \in BOOLEAN
    /\ MayClose \in BOOLEAN
    /\ OffsetLimit \in Nat
    /\ SegMax \in Nat \ {0}
    /\ FwdMax \in Nat \ {0} /\ BackMax \in Nat \ {0}
    /\ W \in Nat \ {0}
    /\ Floor \in 1..W
    /\ Windows \subseteq {0} \cup Floor..W

VARIABLES
    \* the sender
    resEnd,        \* end of the bytes a Write has reserved room for
    wEnd,          \* end of the bytes a Write has committed (st.end)
    sNext,         \* next offset never sent
    sBase,         \* every byte below is acknowledged
    peerLimit,     \* right edge the receiver has granted
    retx,          \* offsets to send again
    infl,          \* infl[l]: offsets sent on lane l and not acknowledged
    lastAck,       \* lastAck[l]: Delivered of the last ACK read on l
    finOff,        \* offset of the FIN once requested, else None
    finAcked,      \* the receiver acknowledged the FIN
    finLane,       \* the lane that carries the FIN, else None
    rescue,        \* [off, n, holder]: the n > 0 bytes at off to duplicate
    rescuedBase,   \* sBase at the last rescue
    interleaved,   \* unacknowledged data went out while several lanes carried
    sLane,         \* sLane[l]: "none", "joining", "up" or "dead"
    data,          \* the lanes that carry DATA
    \* the receiver
    rRead,         \* bytes the application has consumed
    rTail,         \* end of the in-order bytes held
    ooq,           \* offsets held out of order
    rightEdge,     \* right edge granted to the sender
    peerFin,       \* the FIN's offset once read, else None
    lowWin,        \* the last advertised window was below Floor
    armed,         \* the actor was rung, or has its re-advertisement deadline
    discard,       \* the application called Close: what comes is discarded
    ackDue,        \* lanes that have not carried the current ACK values
    ackOnData,     \* the next in-order DATA is acknowledged at once
    rLane,         \* rLane[l]: "none", "joining", "up" or "dead"
    \* the carriers
    up,            \* up[l]: the carrier is dialed and has not broken
    fwd,           \* fwd[l]: frames on their way to the receiver
    back,          \* back[l]: frames on their way to the sender
    violation      \* a frame of the peer broke the protocol

writeVars == <<resEnd, wEnd>>
sendVars == <<sNext, sBase, peerLimit, retx, infl, lastAck>>
finVars == <<finOff, finAcked, finLane>>
rescueVars == <<rescue, rescuedBase, interleaved>>
routeVars == <<sLane, data>>
recvVars == <<rRead, rTail, ooq, rightEdge, peerFin, lowWin, armed, discard>>
ackVars == <<ackDue, ackOnData, rLane>>
netVars == <<up, fwd, back>>
vars == <<writeVars, sendVars, finVars, rescueVars, routeVars, recvVars, ackVars,
          netVars, violation>>

Offset == Nat

LaneState == {"none", "joining", "up", "dead"}

\* Frames to the receiver; a handshake frame's rxNext is about the other
\* direction.
FwdFrame ==
    [t : {"DATA"}, off : Offset, n : Nat]
        \cup [t : {"FIN"}, off : Offset]
        \cup [t : {"JOIN", "JOIN_ACK"}]

\* Frames to the sender; del + window is the right edge lim.
BackFrame ==
    [t : {"ACK"}, del : Offset, lim : Offset, fin : BOOLEAN]
        \cup [t : {"JOIN", "JOIN_ACK"}, rx : Offset]

-----------------------------------------------------------------------------
(* Operators of the code.                                                  *)

Span(off, n) == off..(off + n - 1)

OtherDataLane(l) == data \ {l} # {}

\* A broken carrier loses what is written to it.
SendFwd(l, f) == fwd' = IF up[l] THEN [fwd EXCEPT ![l] = Append(@, f)] ELSE fwd

SendBack(l, f) == back' = IF up[l] THEN [back EXCEPT ![l] = Append(@, f)] ELSE back

\* The frame of type t a reader takes off a queue next.
Reads(q, t) == q # <<>> /\ Head(q).t = t

\* bumpNowLocked: every lane owes the current ACK values.
Bump == {l \in Lane : rLane[l] = "up"}

\* The empty rescue slot; after its own duplicate it still names the holder.
NoRescue(l) == [off |-> 0, n |-> 0, holder |-> l]

\* advanceSendLocked on the rescue slot r
TrimRescue(r, to) ==
    IF r.n > 0 /\ r.off + r.n <= to THEN NoRescue(None)
    ELSE IF r.n > 0 /\ r.off < to
    THEN [off |-> to, n |-> r.off + r.n - to, holder |-> r.holder]
    ELSE r

\* Mutant: the bytes the lanes carried are dropped with them.
AdvanceAndRequeue_Forgets(to, S) ==
    /\ sBase' = to
    /\ infl' = [l \in Lane |-> IF l \in S THEN {} ELSE {x \in infl[l] : x >= to}]
    /\ retx' = {x \in retx : x >= to}

\* advanceSendLocked to to, then requeueLocked of the lanes in S: what they
\* carried and is not acknowledged goes back to retx.
AdvanceAndRequeue(to, S) ==
    /\ sBase' = to
    /\ infl' = [l \in Lane |-> IF l \in S THEN {} ELSE {x \in infl[l] : x >= to}]
    /\ retx' = {x \in retx \cup UNION {infl[l] : l \in S} : x >= to}

\* peerFinCheckLocked: the application has consumed everything up to the FIN.
FinDelivered == peerFin # None /\ rRead = peerFin

\* finDueLocked
FinDue ==
    /\ finOff # None
    /\ ~finAcked
    /\ finLane = None
    /\ retx = {}
    /\ sNext >= finOff

\* highest() > off: a byte at or after off has been received.
ReceivedFrom(off) == rTail > off \/ \E x \in ooq : x >= off

-----------------------------------------------------------------------------
Init ==
    /\ resEnd = 0 /\ wEnd = 0 /\ sNext = 0 /\ sBase = 0
    /\ peerLimit = W
    /\ retx = {}
    /\ infl = [l \in Lane |-> {}]
    /\ lastAck = [l \in Lane |-> 0]
    /\ finOff = None /\ finAcked = FALSE /\ finLane = None
    /\ rescue = NoRescue(None) /\ rescuedBase = None /\ interleaved = FALSE
    /\ sLane = [l \in Lane |-> IF l = First THEN "up" ELSE "none"]
    /\ data = {First}
    /\ rRead = 0 /\ rTail = 0 /\ ooq = {}
    /\ rightEdge = W
    /\ peerFin = None /\ lowWin = FALSE /\ armed = FALSE
    /\ discard = FALSE
    /\ ackDue = {First} /\ ackOnData = TRUE
    /\ rLane = [l \in Lane |-> IF l = First THEN "up" ELSE "none"]
    /\ up = [l \in Lane |-> l = First]
    /\ fwd = [l \in Lane |-> <<>>] /\ back = [l \in Lane |-> <<>>]
    /\ violation = FALSE

-----------------------------------------------------------------------------
(* The application's calls.                                                *)

\* Write, first half (writeRoundLocked): reserve room for k bytes.  A Write
\* past OffsetLimit ends the session instead.
WriteReserve(k) ==
    /\ finOff = None
    /\ resEnd = wEnd
    /\ resEnd + k <= OffsetLimit
    /\ resEnd + k - sBase <= W
    /\ resEnd' = resEnd + k
    /\ UNCHANGED <<wEnd, sendVars, finVars, rescueVars, routeVars, recvVars, ackVars,
                   netVars, violation>>

\* Write, second half (commitRoundLocked): the copied bytes may be sent.
WriteCommit ==
    /\ wEnd < resEnd
    /\ wEnd' = resEnd
    /\ UNCHANGED <<resEnd, sendVars, finVars, rescueVars, routeVars, recvVars, ackVars,
                   netVars, violation>>

\* Mutant: the FIN ignores a Write that is still copying.
CloseWrite_Committed ==
    /\ finOff = None
    /\ finOff' = wEnd
    /\ UNCHANGED <<writeVars, sendVars, finAcked, finLane, rescueVars, routeVars,
                   recvVars, ackVars, netVars, violation>>

\* closeWriteLocked: the FIN goes after the bytes of a Write still copying.
CloseWrite ==
    /\ finOff = None
    /\ finOff' = resEnd
    /\ UNCHANGED <<writeVars, sendVars, finAcked, finLane, rescueVars, routeVars,
                   recvVars, ackVars, netVars, violation>>

\* Read: the application consumes k of the in-order bytes.
Read(k) ==
    /\ ~discard
    /\ rRead + k <= rTail
    /\ rRead' = rRead + k
    /\ ackDue' = Bump
    /\ UNCHANGED <<writeVars, sendVars, finVars, rescueVars, routeVars, rTail, ooq,
                   rightEdge, peerFin, lowWin, armed, discard, ackOnData, rLane, netVars,
                   violation>>

\* Mutant: what Close consumes is not acknowledged.
Close_Silent ==
    /\ MayClose /\ ~discard
    /\ discard' = TRUE
    /\ rRead' = rTail
    /\ UNCHANGED <<writeVars, sendVars, finVars, rescueVars, routeVars, rTail, ooq,
                   rightEdge, peerFin, lowWin, armed, ackVars, netVars, violation>>

\* closeLocked at the receiver: what is held, and what still comes, is consumed
\* without a reader.
Close ==
    /\ MayClose /\ ~discard
    /\ discard' = TRUE
    /\ rRead' = rTail
    /\ ackDue' = IF rRead < rTail THEN Bump ELSE ackDue
    /\ UNCHANGED <<writeVars, sendVars, finVars, rescueVars, routeVars, rTail, ooq,
                   rightEdge, peerFin, lowWin, armed, ackOnData, rLane, netVars,
                   violation>>

-----------------------------------------------------------------------------
(* Fill at the sender: the writer of lane l asks for frames.               *)

\* The lane is not dead, its first response was placed, its carrier takes one
\* more frame, and it is routed to.
CarriesData(l) == sLane[l] = "up" /\ Len(fwd[l]) < FwdMax /\ l \in data

\* addDataLocked, and fillDataLocked's interleaved flag: cleared when nothing
\* was outstanding, set when another lane carries too.
AddData(l, off, n) ==
    /\ SendFwd(l, [t |-> "DATA", off |-> off, n |-> n])
    /\ infl' = [infl EXCEPT ![l] = @ \cup Span(off, n)]
    /\ interleaved' = \/ Bond /\ OtherDataLane(l)
                      \/ interleaved /\ sBase # sNext

\* rescueSenderLocked, for a rescue that is set
RescueFirst(l) ==
    /\ rescue.n > 0
    /\ l # rescue.holder \/ (interleaved /\ ~OtherDataLane(l))

\* The duplicate of the stuck head; the holder's own duplicate is remembered.
FillRescue(l) ==
    /\ CarriesData(l) /\ RescueFirst(l)
    /\ AddData(l, rescue.off, rescue.n)
    /\ rescue' = NoRescue(IF rescue.holder = l THEN l ELSE None)
    /\ UNCHANGED <<writeVars, sNext, sBase, peerLimit, retx, lastAck, finVars,
                   rescuedBase, routeVars, recvVars, ackVars, up, back, violation>>

\* Bytes to send again go first, the lowest first.
FillRetx(l, off, n) ==
    /\ CarriesData(l) /\ ~RescueFirst(l)
    /\ \A x \in retx : off <= x
    /\ Span(off, n) \subseteq retx
    /\ AddData(l, off, n)
    /\ retx' = retx \ Span(off, n)
    /\ UNCHANGED <<writeVars, sNext, sBase, peerLimit, lastAck, finVars, rescue,
                   rescuedBase, routeVars, recvVars, ackVars, up, back, violation>>

\* New bytes, up to what is written and what the receiver has granted.
FillNew(l, n) ==
    /\ CarriesData(l) /\ ~RescueFirst(l)
    /\ retx = {}
    /\ sNext + n <= wEnd /\ sNext + n <= peerLimit
    /\ AddData(l, sNext, n)
    /\ sNext' = sNext + n
    /\ UNCHANGED <<writeVars, sBase, peerLimit, retx, lastAck, finVars, rescue,
                   rescuedBase, routeVars, recvVars, ackVars, up, back, violation>>

\* Mutant: the FIN is sent at once, after what was sent so far.
FillFin_Early(l) ==
    /\ CarriesData(l)
    /\ finOff # None /\ ~finAcked /\ finLane = None
    /\ SendFwd(l, [t |-> "FIN", off |-> sNext])
    /\ finLane' = l
    /\ UNCHANGED <<writeVars, sendVars, finOff, finAcked, rescueVars, routeVars,
                   recvVars, ackVars, up, back, violation>>

\* fillLocked: the FIN, once nothing waits to be sent.
FillFin(l) ==
    /\ CarriesData(l)
    /\ FinDue
    /\ SendFwd(l, [t |-> "FIN", off |-> finOff])
    /\ finLane' = l
    /\ UNCHANGED <<writeVars, sendVars, finOff, finAcked, rescueVars, routeVars,
                   recvVars, ackVars, up, back, violation>>

\* Mutant: the rescue is not armed again when the window advances.
Rescue_Once(holder, n) ==
    /\ Bond /\ rescue.n = 0 /\ rescuedBase = None
    /\ sLane[holder] = "up" /\ Span(sBase, n) \subseteq infl[holder]
    /\ OtherDataLane(holder) \/ interleaved
    /\ rescue' = [off |-> sBase, n |-> n, holder |-> holder]
    /\ rescuedBase' = sBase
    /\ UNCHANGED <<writeVars, sendVars, finVars, interleaved, routeVars, recvVars,
                   ackVars, netVars, violation>>

\* rescueLocked: the window head sent on holder is stuck, duplicate n bytes.
\* Once per sBase, and once more after the holder's own duplicate.
Rescue(holder, n) ==
    /\ Bond /\ rescue.n = 0
    /\ sLane[holder] = "up" /\ Span(sBase, n) \subseteq infl[holder]
    /\ IF sBase # rescuedBase THEN OtherDataLane(holder) \/ interleaved
       ELSE rescue.holder = holder /\ OtherDataLane(holder)
    /\ rescue' = [off |-> sBase, n |-> n, holder |-> holder]
    /\ rescuedBase' = sBase
    /\ UNCHANGED <<writeVars, sendVars, finVars, interleaved, routeVars, recvVars,
                   ackVars, netVars, violation>>

-----------------------------------------------------------------------------
(* Fill at the receiver: ACKs.                                             *)

\* Mutant: what is held counts as delivered.
CurrentAck_Received(edge) ==
    [t |-> "ACK", del |-> rTail, lim |-> edge, fin |-> FinDelivered]

\* The current ACK values, with the right edge raised to edge.
CurrentAck(edge) == [t |-> "ACK", del |-> rRead, lim |-> edge, fin |-> FinDelivered]

\* fillAckLocked on a lane that qualifies: raise the right edge to what the
\* advertised window w gives and place the current values.
FillAck(l, w) ==
    LET edge == IF rRead + w > rightEdge THEN rRead + w ELSE rightEdge IN
    /\ rLane[l] = "up" /\ Len(back[l]) < BackMax
    /\ l \in ackDue
    /\ SendBack(l, CurrentAck(edge))
    /\ rightEdge' = edge
    /\ lowWin' = (edge - rRead < Floor)
    /\ armed' = (armed \/ (~lowWin /\ lowWin'))
    /\ ackDue' = ackDue \ {l}
    /\ UNCHANGED <<writeVars, sendVars, finVars, rescueVars, routeVars, rRead, rTail,
                   ooq, peerFin, discard, ackOnData, rLane, up, fwd, violation>>

\* Mutant: the deadline is disarmed when the larger window is queued.
Readvertise_Disarms(w) ==
    /\ armed
    /\ armed' = (lowWin /\ rRead + w <= rightEdge)
    /\ ackDue' = IF lowWin /\ rRead + w > rightEdge THEN Bump ELSE ackDue
    /\ UNCHANGED <<writeVars, sendVars, finVars, rescueVars, routeVars, rRead, rTail, ooq,
                   rightEdge, peerFin, lowWin, discard, ackOnData, rLane, netVars,
                   violation>>

\* readvertiseLocked: the actor's step, while it was rung or its deadline runs.
\* The deadline stays armed until an ACK with a large enough window was placed.
Readvertise(w) ==
    /\ armed
    /\ armed' = lowWin
    /\ ackDue' = IF lowWin /\ rRead + w > rightEdge THEN Bump ELSE ackDue
    /\ UNCHANGED <<writeVars, sendVars, finVars, rescueVars, routeVars, rRead, rTail, ooq,
                   rightEdge, peerFin, lowWin, discard, ackOnData, rLane, netVars,
                   violation>>

-----------------------------------------------------------------------------
(* Data and Control: the reader of lane l hands over the next frame.  A     *)
(* frame that breaks the protocol kills the carrier (violation).           *)

ReadFwd(l, t) == Reads(fwd[l], t) /\ fwd' = [fwd EXCEPT ![l] = Tail(@)]

ReadBack(l, t) == Reads(back[l], t) /\ back' = [back EXCEPT ![l] = Tail(@)]

\* errWindow and errDataBeyondFin
BadData(f) ==
    \/ f.off + f.n > rightEdge
    \/ peerFin # None /\ f.off + f.n > peerFin

\* recvDataLocked: place the new bytes, which makes tail the in-order end;
\* out-of-order bytes from cut on are dropped when the receive charge passes
\* recvLimit: the arriving ones (copyPiecesLocked), or, once in-order bytes
\* came, the highest held (shedLocked).
PlaceData(f, tail, cut) ==
    LET held == ooq \cup {x \in Span(f.off, f.n) : x >= rTail}
        more == tail > rTail
    IN
    /\ tail >= rTail /\ tail \notin held /\ rTail..(tail - 1) \subseteq held
    /\ rTail' = tail
    /\ ooq' = {x \in held : /\ x > tail
                            /\ ~MayDrop \/ x < cut \/ (~more /\ x \in ooq)}
    /\ rRead' = IF discard THEN tail ELSE rRead
    /\ ackDue' = IF more /\ (discard \/ ackOnData) THEN Bump ELSE ackDue
    /\ ackOnData' = (ackOnData /\ (discard \/ ~more))
    /\ UNCHANGED <<rightEdge, peerFin, lowWin, armed, discard, rLane>>

RecvData(l, tail, cut) ==
    LET f == Head(fwd[l]) IN
    /\ ReadFwd(l, "DATA")
    /\ \/ BadData(f) /\ violation' = TRUE /\ UNCHANGED <<recvVars, ackVars>>
       \/ ~BadData(f) /\ PlaceData(f, tail, cut) /\ UNCHANGED violation
    /\ UNCHANGED <<writeVars, sendVars, finVars, rescueVars, routeVars, up, back>>

\* errFinConflict, errFinBelowData, errFinBeyondWindow
BadFin(off) ==
    IF peerFin # None THEN off # peerFin
    ELSE ReceivedFrom(off) \/ off > rightEdge

\* finLocked
RecvFin(l) ==
    LET off == Head(fwd[l]).off IN
    /\ ReadFwd(l, "FIN")
    /\ \/ BadFin(off) /\ violation' = TRUE /\ UNCHANGED <<peerFin, ackDue>>
       \/ /\ ~BadFin(off)
          /\ peerFin' = off
          /\ ackDue' = IF rRead = off THEN Bump ELSE ackDue
          /\ UNCHANGED violation
    /\ UNCHANGED <<writeVars, sendVars, finVars, rescueVars, routeVars, rRead, rTail,
                   ooq, rightEdge, lowWin, armed, discard, ackOnData, rLane, up, back>>

\* errAckBeyondSent, errAckRegression, errFinDeliveredEarly
BadAck(l, f) ==
    \/ f.del > sNext
    \/ f.del < lastAck[l]
    \/ f.fin /\ (finOff = None \/ f.del < finOff)

\* ackLocked
ApplyAck(l, f) ==
    LET to == IF f.del > sBase THEN f.del ELSE sBase IN
    /\ lastAck' = [lastAck EXCEPT ![l] = f.del]
    /\ AdvanceAndRequeue(to, {})
    /\ rescue' = TrimRescue(rescue, to)
    /\ peerLimit' = IF f.lim > peerLimit THEN f.lim ELSE peerLimit
    /\ finAcked' = (finAcked \/ f.fin)
    /\ finLane' = IF f.fin THEN None ELSE finLane
    /\ UNCHANGED <<sNext, finOff, rescuedBase, interleaved>>

RecvAck(l) ==
    LET f == Head(back[l]) IN
    /\ ReadBack(l, "ACK")
    /\ \/ /\ BadAck(l, f) /\ violation' = TRUE
          /\ UNCHANGED <<sendVars, finVars, rescueVars>>
       \/ ~BadAck(l, f) /\ ApplyAck(l, f) /\ UNCHANGED violation
    /\ UNCHANGED <<writeVars, routeVars, recvVars, ackVars, up, fwd>>

-----------------------------------------------------------------------------
(* Lanes: join, attach, break, death, routing.                             *)

\* startAttemptLocked: the dialer dials a new carrier; its JOIN carries rxNext.
Join(l) ==
    /\ up' = [up EXCEPT ![l] = TRUE]
    /\ IF SenderDials
       THEN /\ sLane[l] = "none"
            /\ sLane' = [sLane EXCEPT ![l] = "joining"]
            /\ fwd' = [fwd EXCEPT ![l] = <<[t |-> "JOIN"]>>]
            /\ UNCHANGED <<back, rLane>>
       ELSE /\ rLane[l] = "none"
            /\ rLane' = [rLane EXCEPT ![l] = "joining"]
            /\ back' = [back EXCEPT ![l] = <<[t |-> "JOIN", rx |-> rRead]>>]
            /\ UNCHANGED <<fwd, sLane>>
    /\ UNCHANGED <<writeVars, sendVars, finVars, rescueVars, data, recvVars, ackDue,
                   ackOnData, violation>>

\* newLaneLocked at the receiver: re-ACK at once, and on the first DATA after.
ReceiverGains(l) ==
    /\ rLane' = [rLane EXCEPT ![l] = "up"]
    /\ ackDue' = Bump \cup {l}
    /\ ackOnData' = TRUE

\* Mutant: the lane a switch replaces keeps its bytes.
ReplacedBy_Keeps(switch) == {}

\* The lanes that stop carrying DATA at a planned switch.
ReplacedBy(switch) == IF switch THEN data ELSE {}

\* newLaneLocked at the sender with the peer's rxNext (applyRxNextLocked): a
\* bond dialer adds the lane to its members; a lane becomes the one that carries
\* when none does or on a planned switch (switch), and the lane it replaces is
\* requeued (qualitySwitchLocked).
SenderGains(l, rx, switch) ==
    LET to == IF rx > sBase THEN rx ELSE sBase IN
    IF rx > sNext
    THEN violation' = TRUE /\ UNCHANGED <<sendVars, rescueVars, routeVars>>
    ELSE /\ AdvanceAndRequeue(to, ReplacedBy(switch))
         /\ rescue' = TrimRescue(rescue, to)
         /\ sLane' = [sLane EXCEPT ![l] = "up"]
         /\ data' = IF switch \/ data = {} THEN {l}
                    ELSE IF Bond /\ SenderDials THEN data \cup {l} ELSE data
         /\ UNCHANGED <<sNext, peerLimit, lastAck, rescuedBase, interleaved, violation>>

\* Join, onAdoptLocked and lanesConfirmedLocked: the passive side takes the lane
\* and answers JOIN_ACK first.
Adopt(l) ==
    /\ IF SenderDials
       THEN /\ ReadFwd(l, "JOIN")
            /\ ReceiverGains(l)
            /\ SendBack(l, [t |-> "JOIN_ACK", rx |-> rRead])
            /\ UNCHANGED <<sendVars, rescueVars, routeVars, violation>>
       ELSE /\ ReadBack(l, "JOIN")
            /\ SenderGains(l, Head(back[l]).rx, FALSE)
            /\ SendFwd(l, [t |-> "JOIN_ACK"])
            /\ UNCHANGED ackVars
    /\ UNCHANGED <<writeVars, finVars, recvVars, up>>

\* joinOKLocked and attachLocked: the dialer's lane is up.
Attach(l, switch) ==
    /\ IF SenderDials
       THEN /\ sLane[l] = "joining" /\ ReadBack(l, "JOIN_ACK")
            /\ SenderGains(l, Head(back[l]).rx, switch)
            /\ UNCHANGED <<ackVars, fwd>>
       ELSE /\ rLane[l] = "joining" /\ ReadFwd(l, "JOIN_ACK")
            /\ ReceiverGains(l)
            /\ UNCHANGED <<sendVars, rescueVars, routeVars, violation, back>>
    /\ UNCHANGED <<writeVars, finVars, recvVars, up>>

\* The carrier of lane l fails or is retired; what its readers have not
\* dispatched may still come or not.
Break(l) ==
    /\ l \in Fragile /\ up[l]
    /\ up' = [up EXCEPT ![l] = FALSE]
    /\ UNCHANGED <<writeVars, sendVars, finVars, rescueVars, routeVars, recvVars, ackVars,
                   fwd, back, violation>>

\* onDialResultLocked on a failed attempt
AttemptFailed(l) ==
    /\ ~up[l]
    /\ \/ /\ sLane[l] = "joining" /\ sLane' = [sLane EXCEPT ![l] = "dead"]
          /\ back' = [back EXCEPT ![l] = <<>>] /\ UNCHANGED <<rLane, fwd>>
       \/ /\ rLane[l] = "joining" /\ rLane' = [rLane EXCEPT ![l] = "dead"]
          /\ fwd' = [fwd EXCEPT ![l] = <<>>] /\ UNCHANGED <<sLane, back>>
    /\ UNCHANGED <<writeVars, sendVars, finVars, rescueVars, data, recvVars, ackDue,
                   ackOnData, up, violation>>

\* The lane that carries the FIN once lane l is dead.
FinWithout(l) == IF finLane = l THEN None ELSE finLane

\* laneDiedLocked at the sender: the lane's bytes are requeued and its FIN is due
\* again; fb is the lane that carries DATA if it was the last one (lostActiveLocked,
\* passiveRouteLocked).
SenderReaps(l, fb) ==
    LET rest == data \ {l}
        usable == {k \in Lane \ {l} : sLane[k] = "up"}
    IN
    /\ sLane[l] = "up" /\ ~up[l]
    /\ sLane' = [sLane EXCEPT ![l] = "dead"]
    /\ fb \in IF rest = {} /\ usable # {} THEN usable ELSE {None}
    /\ data' = (rest \cup {fb}) \ {None}
    /\ AdvanceAndRequeue(sBase, {l})
    /\ finLane' = FinWithout(l)
    /\ rescue' = IF rescue.holder = l THEN NoRescue(None) ELSE rescue
    /\ UNCHANGED <<writeVars, sNext, peerLimit, lastAck, finOff, finAcked, rescuedBase,
                   interleaved, recvVars, ackVars, netVars, violation>>

\* laneDiedLocked at the receiver: the ACK is owed again on the lanes that remain.
ReceiverReaps(l) ==
    /\ rLane[l] = "up" /\ ~up[l]
    /\ rLane' = [rLane EXCEPT ![l] = "dead"]
    /\ ackDue' = Bump \ {l}
    /\ UNCHANGED <<writeVars, sendVars, finVars, rescueVars, routeVars, recvVars,
                   ackOnData, netVars, violation>>

\* applySchedLocked and passiveRouteLocked: a passive sender's data lanes become
\* S; the lanes that leave are requeued.
Route(S) ==
    /\ ~SenderDials
    /\ S # {} /\ S # data
    /\ \A l \in S : sLane[l] = "up"
    /\ Bond \/ \A l, k \in S : l = k
    /\ data' = S
    /\ AdvanceAndRequeue(sBase, data \ S)
    /\ UNCHANGED <<writeVars, sNext, peerLimit, lastAck, finVars, rescueVars, sLane,
                   recvVars, ackVars, netVars, violation>>

-----------------------------------------------------------------------------
App ==
    \/ \E k \in 1..OffsetLimit : WriteReserve(k)
    \/ WriteCommit
    \/ CloseWrite
    \/ \E k \in 1..OffsetLimit : Read(k)
    \/ Close

SenderFill(l) ==
    \/ FillRescue(l)
    \/ \E n \in 1..SegMax, off \in retx : FillRetx(l, off, n)
    \/ \E n \in 1..SegMax : FillNew(l, n)
    \/ FillFin(l)

ReceiverFill(l) == \E w \in Windows : FillAck(l, w)

Recv(l) ==
    \/ \E tail \in rTail..rightEdge :
           \E cut \in {c \in tail..rightEdge : MayDrop \/ c = tail} : RecvData(l, tail, cut)
    \/ RecvFin(l)
    \/ RecvAck(l)

Carrier(l) ==
    \/ Join(l)
    \/ Adopt(l)
    \/ \E switch \in IF Bond THEN {FALSE} ELSE BOOLEAN : Attach(l, switch)
    \/ Break(l)
    \/ AttemptFailed(l)
    \/ \E fb \in Lane \cup {None} : SenderReaps(l, fb)
    \/ ReceiverReaps(l)

Act ==
    \/ \E holder \in Lane, n \in 1..SegMax : Rescue(holder, n)
    \/ \E w \in Windows : Readvertise(w)
    \/ \E S \in SUBSET Lane : Route(S)

Next ==
    \/ App
    \/ Act
    \/ \E l \in Lane : SenderFill(l) \/ ReceiverFill(l) \/ Recv(l) \/ Carrier(l)

Spec == Init /\ [][Next]_vars

\* The actors' own work: join and take lanes, handle deaths, the rescue and
\* re-advertisement deadlines.
Actors ==
    \/ \E l \in Lane :
           \/ Join(l) \/ Adopt(l) \/ ReceiverReaps(l)
           \/ \E switch \in BOOLEAN : Attach(l, switch)
           \/ \E fb \in Lane \cup {None} : SenderReaps(l, fb)
    \/ \E holder \in Lane, n \in 1..SegMax : Rescue(holder, n)
    \/ \E w \in Windows : Readvertise(w)

\* What the code's scheduling gives: a Write in progress commits, the reading
\* application keeps reading, the writer and the readers of every lane and the
\* actors keep working.
Fairness ==
    /\ WF_vars(WriteCommit)
    /\ WF_vars(\E k \in 1..OffsetLimit : Read(k))
    /\ \A l \in Lane : WF_vars(SenderFill(l)) /\ WF_vars(ReceiverFill(l)) /\ WF_vars(Recv(l))
    /\ WF_vars(Actors)

FairSpec == Spec /\ Fairness

-----------------------------------------------------------------------------
(* Properties.                                                             *)

TypeOK ==
    /\ resEnd \in Offset /\ wEnd \in Offset /\ sNext \in Offset /\ sBase \in Offset
    /\ peerLimit \in Offset /\ rRead \in Offset /\ rTail \in Offset
    /\ rightEdge \in Offset
    /\ finOff \in Offset \cup {None} /\ peerFin \in Offset \cup {None}
    /\ rescuedBase \in Offset \cup {None}
    /\ retx \subseteq Offset /\ ooq \subseteq Offset
    /\ infl \in [Lane -> SUBSET Offset]
    /\ lastAck \in [Lane -> Offset]
    /\ finLane \in Lane \cup {None}
    /\ rescue \in [off : Offset, n : Nat, holder : Lane \cup {None}]
    /\ ackDue \subseteq Lane /\ data \subseteq Lane
    /\ sLane \in [Lane -> LaneState] /\ rLane \in [Lane -> LaneState]
    /\ up \in [Lane -> BOOLEAN]
    /\ fwd \in [Lane -> Seq(FwdFrame)] /\ back \in [Lane -> Seq(BackFrame)]
    /\ finAcked \in BOOLEAN /\ interleaved \in BOOLEAN /\ lowWin \in BOOLEAN
    /\ armed \in BOOLEAN /\ discard \in BOOLEAN /\ ackOnData \in BOOLEAN /\ violation \in BOOLEAN

\* A byte leaves the sender's window only once the receiving application has
\* consumed it (advanceSendLocked), whichever lanes the ACKs, JOINs and JOIN_ACKs
\* that say so took and however late they came; and nothing is consumed that
\* was not sent.
AckedIsDelivered == sBase <= rRead /\ rRead <= rTail /\ rTail <= sNext

\* Every byte sent and not acknowledged is queued to be sent again, or was sent
\* on a lane whose death the sender has yet to handle, which requeues it
\* (requeueLocked): switches, deaths and rescues never forget a byte.
NoByteForgotten ==
    \A x \in sBase..(sNext - 1) :
        x \in retx \/ \E l \in Lane : sLane[l] = "up" /\ x \in infl[l]

\* Two ends that follow the code never see each other break the protocol: no
\* DATA beyond the window or the FIN, no ACK beyond what was sent or behind an
\* earlier one on its lane, no early FIN_DELIVERED, no conflicting FIN, no rxNext
\* beyond what was sent.
NoViolation == ~violation

\* gapAckLocked relies on it: a selector receiver never holds out-of-order
\* data, across switches, fallbacks and requeued bytes.
SelectorInOrder == ~Bond => ooq = {}

\* The FIN the receiver takes for the end of the stream is the sender's, after
\* everything written; it is acknowledged only when all of it was consumed.
FinIsEnd ==
    /\ peerFin # None => peerFin = finOff
    /\ finAcked => rRead = finOff /\ sBase = finOff

\* An ACK is never lost: while the sender's window lags behind what the
\* application consumed, an ACK or a handshake with the current value is owed or
\* on its way, or a broken lane waits to be reaped, which owes it again (laneGoneLocked,
\* laneAddedLocked).
AckNotLost ==
    sBase < rRead =>
        \/ ackDue # {}
        \/ \E l \in Lane : \E i \in DOMAIN back[l] : LET f == back[l][i] IN
               up[l] /\ rRead = IF f.t = "ACK" THEN f.del ELSE f.rx
        \/ \E l \in Lane : rLane[l] = "up" /\ ~up[l]
        \/ \A l \in Lane : rLane[l] # "up"

\* readvertiseLocked's promise: the sender is never left at window 0 "with nothing
\* left to wake either side".  When everything sent was consumed and nothing more
\* may be sent, a larger window is owed or on its way, or the actor will look again,
\* or a lane waits to be reaped or joined.
NoWindowStall ==
    rRead = sNext /\ peerLimit = sNext =>
        \/ armed
        \/ ackDue # {}
        \/ \E l \in Lane : \E i \in DOMAIN back[l] :
               up[l] /\ back[l][i].t = "ACK" /\ back[l][i].lim > peerLimit
        \/ \E l \in Lane : rLane[l] = "up" /\ ~up[l]
        \/ \A l \in Lane : rLane[l] # "up"

\* Once the sender has closed its direction, every byte and the FIN reach the
\* receiving application and their acknowledgement comes back, as long as one
\* carrier can be joined and stays up: lane deaths, out-of-order bytes dropped
\* at recvLimit and a stuck window head delay it and do not stop it.
Delivered == finOff # None ~> finAcked

=============================================================================
