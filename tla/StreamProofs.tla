---------------------------- MODULE StreamProofs ----------------------------
(***************************************************************************)
(* What Stream guarantees for every number of lanes and bytes, every window*)
(* and every routing, proved from one inductive invariant.                 *)
(***************************************************************************)
EXTENDS Stream, TLAPS

\* The offsets of both halves lie in one order; what the sender may send is
\* within what the receiver granted.
OrderInv ==
    /\ sBase <= rRead /\ rRead <= rTail /\ rTail <= sNext
    /\ sNext <= wEnd /\ wEnd <= resEnd
    /\ sNext <= peerLimit /\ peerLimit <= rightEdge

\* Every set of offsets holds only bytes that were sent.
SentInv ==
    /\ \A x \in ooq : x < sNext
    /\ \A x \in retx : x < sNext
    /\ \A l \in Lane : \A x \in infl[l] : x < sNext
    /\ rescue.n > 0 => rescue.off + rescue.n <= sNext

\* The FIN's offset is the end of everything written; it goes out, and is
\* read, only once all of it was sent.
FinInv ==
    /\ finOff # None => finOff = resEnd
    /\ peerFin # None => peerFin = finOff /\ sNext = finOff
    /\ finAcked => peerFin # None /\ rRead = peerFin /\ sBase = peerFin

\* A frame to the receiver carries what was sent, up to next.
GoodFwd(f, next, fin) ==
    /\ f.t = "DATA" => f.off \in Nat /\ f.n \in Nat /\ f.off + f.n <= next
    /\ f.t = "FIN" => fin # None /\ f.off = fin /\ next = fin

FwdInv ==
    \A l \in Lane : \A i \in 1..Len(fwd[l]) : GoodFwd(fwd[l][i], sNext, finOff)

\* A frame to the sender carries what the receiver has consumed and granted; the
\* ACKs of one lane are in order.
GoodBack(f, last, read, edge, fin) ==
    /\ f.t = "ACK" => /\ f.del \in Nat /\ last <= f.del /\ f.del <= read
                      /\ f.lim \in Nat /\ f.lim <= edge
                      /\ f.fin => fin # None /\ f.del = fin
    /\ f.t # "ACK" => f.rx \in Nat /\ f.rx <= read

BackInv ==
    \A l \in Lane :
        /\ lastAck[l] <= rRead
        /\ \A i \in 1..Len(back[l]) :
               GoodBack(back[l][i], lastAck[l], rRead, rightEdge, peerFin)
        /\ \A i, j \in 1..Len(back[l]) :
               i < j /\ back[l][i].t = "ACK" /\ back[l][j].t = "ACK"
               => back[l][i].del <= back[l][j].del

\* Only live lanes hold bytes in flight or are routed to.
LaneInv ==
    /\ \A l \in data : sLane[l] = "up"
    /\ \A l \in Lane : sLane[l] # "up" => infl[l] = {}

\* TypeOK in two parts: the provers treat Boolean flags apart.
Shapes ==
    /\ resEnd \in Offset /\ wEnd \in Offset /\ sNext \in Offset /\ sBase \in Offset
    /\ peerLimit \in Offset /\ rRead \in Offset /\ rTail \in Offset
    /\ rightEdge \in Offset
    /\ finOff \in Offset \cup {None} /\ peerFin \in Offset \cup {None}
    /\ rescuedBase \in Offset \cup {None}
    /\ retx \subseteq Offset /\ ooq \subseteq Offset
    /\ infl \in [Lane -> SUBSET Offset]
    /\ lastAck \in [Lane -> Offset]
    /\ finLane \in Lane \cup {None}
    /\ rescue \in [off : Offset, n : Nat, holder : Lane \cup {None}]
    /\ ackDue \subseteq Lane /\ data \subseteq Lane
    /\ sLane \in [Lane -> LaneState] /\ rLane \in [Lane -> LaneState]

Wires ==
    /\ fwd \in [Lane -> Seq(FwdFrame)]
    /\ back \in [Lane -> Seq(BackFrame)]

Flags ==
    /\ up \in [Lane -> BOOLEAN]
    /\ finAcked \in BOOLEAN /\ interleaved \in BOOLEAN /\ lowWin \in BOOLEAN
    /\ armed \in BOOLEAN /\ discard \in BOOLEAN /\ ackOnData \in BOOLEAN /\ violation \in BOOLEAN

IInv ==
    /\ Shapes /\ Wires /\ Flags
    /\ OrderInv /\ SentInv /\ FinInv /\ FwdInv /\ BackInv /\ LaneInv
    /\ NoByteForgotten /\ NoViolation

-----------------------------------------------------------------------------
LEMMA ConstFacts == None \notin Nat /\ None \notin Lane
  BY ConstAssumption

LEMMA SegFact == \A n \in 1..SegMax : n \in Nat /\ n > 0
  BY ConstAssumption

LEMMA LenNat == \A S : \A q \in Seq(S) : Len(q) \in Nat
  OBVIOUS

LEMMA WindowFact == Windows \subseteq Nat
  BY ConstAssumption

LEMMA InitIInv == Init => IInv
  <1> SUFFICES ASSUME Init PROVE IInv
    OBVIOUS
  <1>1. Shapes /\ Wires
    BY ConstAssumption DEF Init, Shapes, Wires, Offset, NoRescue, LaneState
  <1>2. Flags
    BY Zenon DEF Init, Flags
  <1>3. OrderInv /\ SentInv /\ FinInv /\ NoByteForgotten /\ NoViolation
    BY ConstAssumption DEF Init, OrderInv, SentInv, FinInv, NoByteForgotten,
       NoViolation, NoRescue
  <1>4. FwdInv /\ BackInv
    BY ConstAssumption DEF Init, FwdInv, BackInv, Shapes
  <1>5. LaneInv
    BY ConstAssumption DEF Init, LaneInv
  <1> QED
    BY <1>1, <1>2, <1>3, <1>4, <1>5 DEF IInv

-----------------------------------------------------------------------------
(* Facts about the queues and the windows.                                 *)

\* What stays good when the receiver consumes, grants or reads the FIN.
LEMMA GoodBackMono ==
    ASSUME NEW f, NEW last \in Nat, NEW read \in Nat, NEW edge \in Nat, NEW fin,
           NEW read2 \in Nat, NEW edge2 \in Nat, NEW fin2,
           GoodBack(f, last, read, edge, fin),
           read <= read2, edge <= edge2, fin # None => fin2 = fin
    PROVE  GoodBack(f, last, read2, edge2, fin2)
  BY DEF GoodBack

LEMMA GoodFwdMono ==
    ASSUME NEW f, NEW next \in Nat, NEW next2 \in Nat, NEW fin, NEW fin2,
           GoodFwd(f, next, fin), next <= next2,
           fin # None => fin2 = fin /\ (next = fin => next2 = next)
    PROVE  GoodFwd(f, next2, fin2)
  BY DEF GoodFwd

LEMMA Below ==
    ASSUME NEW a \in Nat, NEW b \in Nat, NEW c \in Nat, NEW x \in a..(c - 1),
           x \notin b..(c - 1)
    PROVE  x \in a..(b - 1)
  OBVIOUS

LEMMA Above ==
    \A a, b, c \in Nat : a <= b => \A x \in b..(c - 1) : x \in a..(c - 1) /\ x >= b
  OBVIOUS

LEMMA ZeroIsNone == ~(0 > 0)
  OBVIOUS

\* Consuming, granting or reading the FIN leaves the frames to the sender good.
LEMMA BackMono ==
    ASSUME IInv, UNCHANGED <<lastAck, back>>, rRead' \in Nat, rightEdge' \in Nat,
           rRead <= rRead', rightEdge <= rightEdge', peerFin # None => peerFin' = peerFin
    PROVE  BackInv'
  <1>1. rRead \in Nat /\ rightEdge \in Nat /\ \A l \in Lane : lastAck[l] \in Nat
    BY DEF IInv, Shapes, Offset
  <1>2. ASSUME NEW l \in Lane
        PROVE  /\ lastAck[l] <= rRead'
               /\ \A i \in 1..Len(back[l]) :
                      GoodBack(back[l][i], lastAck[l], rRead', rightEdge', peerFin')
    <2>1. lastAck[l] <= rRead /\ lastAck[l] \in Nat
      BY <1>1 DEF IInv, BackInv
    <2> QED
      BY <1>1, <2>1, GoodBackMono DEF IInv, BackInv
  <1> QED
    BY <1>2 DEF IInv, BackInv

\* Appending f to the queue of l, unless its carrier is down.
LEMMA SentFwd ==
    ASSUME Wires, NEW l \in Lane, NEW f \in FwdFrame, SendFwd(l, f)
    PROVE  /\ fwd' \in [Lane -> Seq(FwdFrame)]
           /\ \A k \in Lane : \A i \in 1..Len(fwd'[k]) :
                  \/ i \in 1..Len(fwd[k]) /\ fwd'[k][i] = fwd[k][i]
                  \/ k = l /\ i = Len(fwd[k]) + 1 /\ fwd'[k][i] = f
  <1>1. CASE fwd' = fwd
    BY <1>1 DEF Wires
  <1>2. CASE fwd' = [fwd EXCEPT ![l] = Append(@, f)]
    <2>1. fwd'[l] = Append(fwd[l], f) /\ fwd[l] \in Seq(FwdFrame)
      BY <1>2 DEF Wires
    <2>2. fwd' \in [Lane -> Seq(FwdFrame)] /\ \A k \in Lane \ {l} : fwd'[k] = fwd[k]
      BY <1>2 DEF Wires
    <2>3. \A i \in 1..Len(fwd'[l]) : \/ i \in 1..Len(fwd[l]) /\ fwd'[l][i] = fwd[l][i]
                                     \/ i = Len(fwd[l]) + 1 /\ fwd'[l][i] = f
      BY <2>1
    <2> QED
      BY <2>2, <2>3
  <1> QED
    BY <1>1, <1>2 DEF SendFwd

LEMMA SentBack ==
    ASSUME Wires, NEW l \in Lane, NEW f \in BackFrame, SendBack(l, f)
    PROVE  /\ back' \in [Lane -> Seq(BackFrame)]
           /\ \A k \in Lane : \A i \in 1..Len(back'[k]) :
                  \/ i \in 1..Len(back[k]) /\ back'[k][i] = back[k][i]
                  \/ k = l /\ i = Len(back[k]) + 1 /\ back'[k][i] = f
  <1>1. CASE back' = back
    BY <1>1 DEF Wires
  <1>2. CASE back' = [back EXCEPT ![l] = Append(@, f)]
    <2>1. back'[l] = Append(back[l], f) /\ back[l] \in Seq(BackFrame)
      BY <1>2 DEF Wires
    <2>2. back' \in [Lane -> Seq(BackFrame)] /\ \A k \in Lane \ {l} : back'[k] = back[k]
      BY <1>2 DEF Wires
    <2>3. \A i \in 1..Len(back'[l]) :
              \/ i \in 1..Len(back[l]) /\ back'[l][i] = back[l][i]
              \/ i = Len(back[l]) + 1 /\ back'[l][i] = f
      BY <2>1
    <2> QED
      BY <2>2, <2>3
  <1> QED
    BY <1>1, <1>2 DEF SendBack

\* Taking the head off the queue of l.
LEMMA TakenFwd ==
    ASSUME Wires, NEW l \in Lane, NEW t, ReadFwd(l, t)
    PROVE  /\ fwd' \in [Lane -> Seq(FwdFrame)]
           /\ 1 \in 1..Len(fwd[l]) /\ Head(fwd[l]) = fwd[l][1] /\ Head(fwd[l]) \in FwdFrame
           /\ Head(fwd[l]).t = t
           /\ \A i \in 1..Len(fwd'[l]) :
                  i + 1 \in 1..Len(fwd[l]) /\ fwd'[l][i] = fwd[l][i + 1]
           /\ \A k \in Lane \ {l} : fwd'[k] = fwd[k]
  <1>1. fwd'[l] = Tail(fwd[l]) /\ fwd[l] \in Seq(FwdFrame) /\ fwd[l] # <<>> /\ Head(fwd[l]).t = t
    BY DEF ReadFwd, Reads, Wires
  <1>2. fwd' \in [Lane -> Seq(FwdFrame)] /\ \A k \in Lane \ {l} : fwd'[k] = fwd[k]
    BY <1>1 DEF ReadFwd, Wires
  <1> QED
    BY <1>1, <1>2

LEMMA TakenBack ==
    ASSUME Wires, NEW l \in Lane, NEW t, ReadBack(l, t)
    PROVE  /\ back' \in [Lane -> Seq(BackFrame)]
           /\ 1 \in 1..Len(back[l]) /\ Head(back[l]) = back[l][1] /\ Head(back[l]) \in BackFrame
           /\ Head(back[l]).t = t
           /\ \A i \in 1..Len(back'[l]) :
                  i + 1 \in 1..Len(back[l]) /\ back'[l][i] = back[l][i + 1]
           /\ \A k \in Lane \ {l} : back'[k] = back[k]
  <1>1. back'[l] = Tail(back[l]) /\ back[l] \in Seq(BackFrame) /\ back[l] # <<>> /\ Head(back[l]).t = t
    BY DEF ReadBack, Reads, Wires
  <1>2. back' \in [Lane -> Seq(BackFrame)] /\ \A k \in Lane \ {l} : back'[k] = back[k]
    BY <1>1 DEF ReadBack, Wires
  <1> QED
    BY <1>1, <1>2

-----------------------------------------------------------------------------
(* The application. *)

\* A step that only moves a Write along, or asks for the FIN.
LEMMA WriterIInv ==
    ASSUME IInv,
           (\E k \in 1..OffsetLimit : WriteReserve(k)) \/ WriteCommit \/ CloseWrite
    PROVE  IInv'
  <1> USE ConstFacts DEF IInv
  <1>1. /\ resEnd' \in Nat /\ wEnd' \in Nat /\ sNext <= wEnd' /\ wEnd' <= resEnd'
        /\ finOff' \in Nat \cup {None}
        /\ finOff' # None => finOff' = resEnd'
        /\ finOff # None => finOff' = finOff
        /\ UNCHANGED <<sendVars, finAcked, finLane, rescueVars, routeVars, recvVars,
                       ackVars, netVars, violation>>
    BY DEF WriteReserve, WriteCommit, CloseWrite, Shapes, OrderInv, FinInv, Offset,
           finVars, writeVars
  <1> USE <1>1 DEF sendVars, rescueVars, routeVars, recvVars, ackVars, netVars
  <1>2. Shapes'
    BY DEF Shapes, Offset
  <1>3. Wires' /\ Flags' /\ LaneInv' /\ NoByteForgotten' /\ NoViolation' /\ BackInv'
    BY Zenon DEF Wires, Flags, LaneInv, NoByteForgotten, NoViolation, BackInv
  <1>4. OrderInv' /\ SentInv'
    BY DEF OrderInv, SentInv, Shapes, Offset
  <1>5. FinInv' /\ FwdInv'
    BY GoodFwdMono DEF FinInv, FwdInv, Shapes, Offset
  <1> QED
    BY <1>2, <1>3, <1>4, <1>5

\* The reading application only moves rRead towards rTail.
LEMMA ReaderIInv ==
    ASSUME IInv, (\E k \in 1..OffsetLimit : Read(k)) \/ Close
    PROVE  IInv'
  <1> USE ConstFacts DEF IInv
  <1>1. /\ rRead' \in Nat /\ rRead <= rRead' /\ rRead' <= rTail
        /\ ackDue' \subseteq Lane
        /\ UNCHANGED <<writeVars, sendVars, finVars, rescueVars, routeVars, rTail, ooq,
                       rightEdge, peerFin, lowWin, armed, ackOnData, rLane, netVars,
                       violation>>
    BY DEF Read, Close, Shapes, OrderInv, Offset, Bump
  <1> USE <1>1 DEF writeVars, sendVars, finVars, rescueVars, routeVars, netVars
  <1>2. Shapes'
    BY DEF Shapes, Offset
  <1>3. Wires' /\ FwdInv' /\ LaneInv' /\ NoByteForgotten' /\ NoViolation'
    BY DEF Wires, FwdInv, LaneInv, NoByteForgotten, NoViolation
  <1>4. Flags'
    BY Zenon DEF Flags, Read, Close
  <1>5. OrderInv' /\ SentInv'
    BY DEF OrderInv, SentInv, Shapes, Offset
  <1>7. FinInv'
    <2>1. finAcked' => finAcked
      BY Zenon
    <2>2. ASSUME finAcked PROVE rRead' = peerFin
      <3>1. rRead = peerFin /\ sNext = rRead
        BY <2>2 DEF FinInv
      <3> QED
        BY <3>1 DEF OrderInv, Shapes, Offset
    <2> QED
      BY <2>1, <2>2 DEF FinInv
  <1>6. BackInv'
    BY BackMono DEF Shapes, Offset
  <1> QED
    BY <1>2, <1>3, <1>4, <1>5, <1>6, <1>7

-----------------------------------------------------------------------------
(* Fill at the sender. *)

\* Sending the n bytes at off on a live lane: what is sent stays below sNext, and
\* what leaves retx or enters the window is in flight.
LEMMA DataSent ==
    ASSUME IInv, NEW l \in Lane, NEW off \in Nat, NEW n \in Nat,
           AddData(l, off, n), l \in data,
           sNext' \in Nat, sNext <= sNext', off + n <= sNext',
           sNext' <= wEnd, sNext' <= peerLimit,
           finOff # None /\ sNext = finOff => sNext' = sNext,
           retx' \subseteq retx,
           \A x \in retx : x \in retx' \/ x \in Span(off, n),
           \A x \in sNext..(sNext' - 1) : x \in Span(off, n),
           rescue' \in [off : Offset, n : Nat, holder : Lane \cup {None}],
           rescue'.n > 0 => rescue' = rescue,
           UNCHANGED <<writeVars, sBase, peerLimit, lastAck, finVars, rescuedBase,
                       routeVars, recvVars, ackVars, up, back, violation>>
    PROVE  IInv'
  <1> USE ConstFacts DEF IInv, writeVars, finVars, routeVars, recvVars, ackVars
  <1>1. infl' = [infl EXCEPT ![l] = @ \cup Span(off, n)]
    BY DEF AddData
  <1>2. \A x \in Span(off, n) : x \in Nat /\ x < sNext'
    BY DEF Span, Shapes, Offset
  <1>3. Shapes'
    BY <1>1, <1>2 DEF Shapes, Offset
  <1>4. Wires' /\ FwdInv'
    <2> DEFINE f == [t |-> "DATA", off |-> off, n |-> n]
    <2>1. f \in FwdFrame
      BY DEF FwdFrame, Offset
    <2>2. SendFwd(l, f)
      BY DEF AddData
    <2>3. GoodFwd(f, sNext', finOff')
      BY DEF GoodFwd
    <2> HIDE DEF f
    <2>4. /\ fwd' \in [Lane -> Seq(FwdFrame)]
          /\ \A k \in Lane : \A i \in 1..Len(fwd'[k]) :
                 \/ i \in 1..Len(fwd[k]) /\ fwd'[k][i] = fwd[k][i]
                 \/ fwd'[k][i] = f
      BY <2>1, <2>2, SentFwd
    <2>5. \A k \in Lane : \A i \in 1..Len(fwd[k]) : GoodFwd(fwd[k][i], sNext', finOff')
      BY GoodFwdMono DEF FwdInv, Shapes, Offset
    <2> QED
      BY <2>3, <2>4, <2>5, Zenon DEF Wires, FwdInv
  <1>5. Flags'
    BY Zenon DEF Flags, AddData
  <1>6. OrderInv'
    BY DEF OrderInv, Shapes, Offset
  <1>7. SentInv'
    BY <1>1, <1>2 DEF SentInv, Shapes, Offset
  <1>8. FinInv'
    BY DEF FinInv
  <1>9. BackInv' /\ NoViolation'
    BY Zenon DEF BackInv, NoViolation
  <1>10. LaneInv'
    BY <1>1 DEF LaneInv, Shapes
  <1>11. NoByteForgotten'
    <2> SUFFICES ASSUME NEW x \in sBase..(sNext' - 1)
                 PROVE  x \in retx' \/ \E k \in Lane : sLane[k] = "up" /\ x \in infl'[k]
      BY Zenon DEF NoByteForgotten
    <2>1. CASE x \in Span(off, n)
      BY <1>1, <2>1 DEF LaneInv, Shapes
    <2>2. CASE x \notin Span(off, n)
      <3>1. sBase \in Nat /\ sNext \in Nat
        BY DEF Shapes, Offset
      <3>2. x \in sNext..(sNext' - 1) => x \in Span(off, n)
        BY Zenon
      <3>3. x \in sBase..(sNext - 1)
        BY <3>1, <3>2, <2>2, Below, Zenon
      <3> QED
        BY <1>1, <2>2, <3>3 DEF NoByteForgotten, Shapes
    <2> QED
      BY <2>1, <2>2, Zenon
  <1> QED
    BY <1>3, <1>4, <1>5, <1>6, <1>7, <1>8, <1>9, <1>10, <1>11

LEMMA FillDataIInv ==
    ASSUME IInv, NEW l \in Lane,
           \/ FillRescue(l)
           \/ \E n \in 1..SegMax, off \in retx : FillRetx(l, off, n)
           \/ \E n \in 1..SegMax : FillNew(l, n)
    PROVE  IInv'
  <1> USE ConstFacts DEF IInv
  <1> sNext \in Nat /\ sNext <= wEnd /\ sNext <= peerLimit /\ sNext <= sNext
      /\ rescue \in [off : Offset, n : Nat, holder : Lane \cup {None}]
    BY DEF Shapes, Offset, OrderInv
  <1>0. \A x \in sNext..(sNext - 1) : FALSE
    BY DEF Shapes, Offset
  <1>1. CASE FillRescue(l)
    <2>1. rescue.off \in Nat /\ rescue.n \in Nat /\ rescue.off + rescue.n <= sNext
      BY <1>1 DEF FillRescue, RescueFirst, SentInv, Shapes, Offset
    <2>2. /\ rescue' \in [off : Offset, n : Nat, holder : Lane \cup {None}]
          /\ ~(rescue'.n > 0)
      BY <1>1 DEF FillRescue, NoRescue, Offset
    <2>3. /\ AddData(l, rescue.off, rescue.n) /\ l \in data
          /\ sNext' = sNext /\ retx' = retx
          /\ UNCHANGED <<writeVars, sBase, peerLimit, lastAck, finVars, rescuedBase,
                         routeVars, recvVars, ackVars, up, back, violation>>
      BY <1>1, Zenon DEF FillRescue, CarriesData
    <2> QED
      BY <1>0, <2>1, <2>2, <2>3, DataSent, Zenon
  <1>2. ASSUME NEW n \in 1..SegMax, NEW off \in retx, FillRetx(l, off, n) PROVE IInv'
    <2> n \in Nat /\ n > 0
      BY SegFact
    <2>1. off \in Nat /\ n \in Nat /\ off + n <= sNext
      <3>1. off + n - 1 \in Span(off, n)
        BY DEF Span, Shapes, Offset
      <3> QED
        BY <1>2, <3>1 DEF FillRetx, SentInv, Shapes, Offset
    <2>2. /\ retx' \subseteq retx /\ \A x \in retx : x \in retx' \/ x \in Span(off, n)
          /\ AddData(l, off, n) /\ l \in data /\ sNext' = sNext /\ rescue' = rescue
          /\ UNCHANGED <<writeVars, sBase, peerLimit, lastAck, finVars, rescuedBase,
                         routeVars, recvVars, ackVars, up, back, violation>>
      BY <1>2 DEF FillRetx, CarriesData
    <2> QED
      BY <1>0, <2>1, <2>2, DataSent, Zenon
  <1>3. ASSUME NEW n \in 1..SegMax, FillNew(l, n) PROVE IInv'
    <2> n \in Nat /\ n > 0
      BY SegFact
    <2>1. /\ sNext' = sNext + n /\ sNext' \in Nat /\ sNext <= sNext'
          /\ sNext + n <= sNext'
      BY <1>3 DEF FillNew
    <2>2. \A x \in sNext..(sNext' - 1) : x \in Span(sNext, n)
      BY <2>1 DEF Span
    <2>3. finOff # None => sNext # finOff
      BY <1>3 DEF FillNew, OrderInv, FinInv, Shapes, Offset
    <2>4. sNext' <= wEnd /\ sNext' <= peerLimit
      BY <1>3, <2>1 DEF FillNew
    <2>5. /\ retx' = retx /\ AddData(l, sNext, n) /\ l \in data /\ rescue' = rescue
          /\ UNCHANGED <<writeVars, sBase, peerLimit, lastAck, finVars, rescuedBase,
                         routeVars, recvVars, ackVars, up, back, violation>>
      BY <1>3, Zenon DEF FillNew, CarriesData
    <2> QED
      BY <2>1, <2>2, <2>3, <2>4, <2>5, DataSent, Zenon
  <1> QED
    BY <1>1, <1>2, <1>3

\* The FIN goes out only once everything written was sent.
LEMMA FillFinIInv ==
    ASSUME IInv, NEW l \in Lane, FillFin(l)
    PROVE  IInv'
  <1> USE ConstFacts DEF IInv, FillFin, writeVars, sendVars, rescueVars, routeVars,
          recvVars, ackVars
  <1> DEFINE f == [t |-> "FIN", off |-> finOff]
  <1>1. finOff # None /\ finOff \in Nat /\ sNext = finOff
    BY DEF FinDue, FinInv, OrderInv, Shapes, Offset
  <1>2. f \in FwdFrame /\ GoodFwd(f, sNext, finOff)
    BY <1>1 DEF FwdFrame, Offset, GoodFwd
  <1>3. SendFwd(l, f)
    OBVIOUS
  <1>4. Wires' /\ FwdInv'
    <2> HIDE DEF f
    <2>1. /\ fwd' \in [Lane -> Seq(FwdFrame)]
          /\ \A k \in Lane : \A i \in 1..Len(fwd'[k]) :
                 \/ i \in 1..Len(fwd[k]) /\ fwd'[k][i] = fwd[k][i]
                 \/ fwd'[k][i] = f
      BY <1>2, <1>3, SentFwd
    <2> QED
      BY <1>2, <2>1, Zenon DEF Wires, FwdInv
  <1>5. Shapes' /\ OrderInv' /\ SentInv' /\ BackInv' /\ LaneInv'
    BY Zenon DEF Shapes, OrderInv, SentInv, BackInv, LaneInv
  <1>6. FinInv' /\ NoByteForgotten' /\ NoViolation'
    BY Zenon DEF FinInv, NoByteForgotten, NoViolation
  <1>7. Flags'
    BY Zenon DEF Flags
  <1> QED
    BY <1>4, <1>5, <1>6, <1>7

-----------------------------------------------------------------------------
(* The actors' own steps, and Fill at the receiver. *)

LEMMA ActIInv ==
    ASSUME IInv, (\E holder \in Lane, n \in 1..SegMax : Rescue(holder, n))
                 \/ (\E w \in Windows : Readvertise(w))
    PROVE  IInv'
  <1> USE ConstFacts DEF IInv
  <1>1. /\ UNCHANGED <<writeVars, sendVars, finVars, interleaved, routeVars, rRead, rTail,
                       ooq, rightEdge, peerFin, lowWin, discard, ackOnData, rLane, netVars,
                       violation>>
        /\ ackDue' \subseteq Lane
        /\ rescuedBase' \in Nat \cup {None}
    BY DEF Rescue, Readvertise, Bump, Shapes, Offset, ackVars, rescueVars, recvVars
  <1>2. /\ rescue' \in [off : Offset, n : Nat, holder : Lane \cup {None}]
        /\ rescue'.n > 0 => rescue'.off + rescue'.n <= sNext
    <2>1. CASE \E w \in Windows : Readvertise(w)
      BY <2>1, Zenon DEF Readvertise, rescueVars, SentInv, Shapes
    <2>2. ASSUME NEW holder \in Lane, NEW n \in 1..SegMax, Rescue(holder, n)
          PROVE  <1>2!1 /\ <1>2!2
      <3> n \in Nat /\ n > 0
        BY SegFact
      <3>1. rescue' = [off |-> sBase, n |-> n, holder |-> holder] /\ sBase \in Nat /\ n \in Nat
        BY <2>2 DEF Rescue, Shapes, Offset
      <3>2. sBase + n - 1 \in infl[holder]
        BY <2>2 DEF Rescue, Span, Shapes, Offset
      <3>3. sBase + n - 1 < sNext
        BY <3>2 DEF SentInv
      <3> QED
        BY <3>1, <3>3 DEF Offset, Shapes
    <2> QED
      BY <2>1, <2>2
  <1> USE <1>1 DEF writeVars, sendVars, finVars, routeVars, netVars
  <1>3. Shapes'
    BY <1>2 DEF Shapes, Offset
  <1>4. Wires' /\ FwdInv' /\ BackInv' /\ LaneInv' /\ NoByteForgotten' /\ NoViolation'
    BY Zenon DEF Wires, FwdInv, BackInv, LaneInv, NoByteForgotten, NoViolation
  <1>5. OrderInv' /\ FinInv'
    BY DEF OrderInv, FinInv
  <1>6. SentInv'
    BY <1>2, Zenon DEF SentInv
  <1>7. Flags'
    <2>1. armed' \in BOOLEAN
      BY Zenon DEF Flags, Rescue, Readvertise, recvVars
    <2> QED
      BY <2>1, Zenon DEF Flags
  <1> QED
    BY <1>3, <1>4, <1>5, <1>6, <1>7

LEMMA ReceiverFillIInv ==
    ASSUME IInv, NEW l \in Lane, NEW w \in Windows, FillAck(l, w)
    PROVE  IInv'
  <1> USE ConstFacts DEF IInv, writeVars, sendVars, finVars, rescueVars, routeVars
  <1> DEFINE edge == IF rRead + w > rightEdge THEN rRead + w ELSE rightEdge
             f == [t |-> "ACK", del |-> rRead, lim |-> edge, fin |-> FinDelivered]
  <1> w \in Nat
    BY WindowFact
  <1>1. edge \in Nat /\ rightEdge <= edge /\ rightEdge' = edge
    BY DEF FillAck, Shapes, Offset
  <1>2. f \in BackFrame
    <2>1. FinDelivered \in BOOLEAN
      BY DEF FinDelivered
    <2> HIDE DEF edge
    <2> QED
      BY <1>1, <2>1, Zenon DEF BackFrame, Shapes, Offset
  <1>3. SendBack(l, f)
    BY DEF FillAck, CurrentAck
  <1>4. GoodBack(f, lastAck[l], rRead, edge, peerFin)
    <2>1. f.t = "ACK" /\ f.del = rRead /\ f.lim = edge
      OBVIOUS
    <2>2. f.fin => peerFin # None /\ rRead = peerFin
      BY Zenon DEF FinDelivered
    <2>3. lastAck[l] <= rRead /\ rRead \in Nat
      BY DEF BackInv, Shapes, Offset
    <2> HIDE DEF f, edge
    <2> QED
      BY <1>1, <2>1, <2>2, <2>3 DEF GoodBack
  <1>5. /\ UNCHANGED <<writeVars, sendVars, finVars, rescueVars, routeVars, rRead, rTail,
                       ooq, peerFin, discard, ackOnData, rLane, up, fwd, violation>>
        /\ ackDue' \subseteq Lane
    BY Zenon DEF FillAck, Shapes
  <1>6. Shapes'
    BY <1>1, <1>5 DEF Shapes, Offset
  <1>7. Wires' /\ BackInv'
    <2> f.t = "ACK" /\ f.del = rRead
      OBVIOUS
    <2> HIDE DEF f, edge
    <2>1. /\ back' \in [Lane -> Seq(BackFrame)]
          /\ \A k \in Lane : \A i \in 1..Len(back'[k]) :
                 \/ i \in 1..Len(back[k]) /\ back'[k][i] = back[k][i]
                 \/ k = l /\ i = Len(back[k]) + 1 /\ back'[k][i] = f
      BY <1>2, <1>3, SentBack
    <2>2. \A k \in Lane : \A i \in 1..Len(back[k]) :
              GoodBack(back[k][i], lastAck[k], rRead, edge, peerFin)
      BY <1>1, GoodBackMono DEF BackInv, Shapes, Offset
    <2>3. \A k \in Lane : \A i \in 1..Len(back'[k]) :
              GoodBack(back'[k][i], lastAck[k], rRead, edge, peerFin)
      BY <1>4, <2>1, <2>2, Zenon
    <2>4. \A k \in Lane : \A i, j \in 1..Len(back'[k]) :
              i < j /\ back'[k][i].t = "ACK" /\ back'[k][j].t = "ACK"
              => back'[k][i].del <= back'[k][j].del
      <3> SUFFICES ASSUME NEW k \in Lane, NEW i \in 1..Len(back'[k]),
                          NEW j \in 1..Len(back'[k]), i < j,
                          back'[k][i].t = "ACK", back'[k][j].t = "ACK"
                   PROVE  back'[k][i].del <= back'[k][j].del
        OBVIOUS
      <3> back[k] \in Seq(BackFrame) /\ back'[k] \in Seq(BackFrame)
        BY <2>1, Zenon DEF Wires
      <3> Len(back[k]) \in Nat
        BY LenNat
      <3> Len(back'[k]) \in Nat
        BY LenNat
      <3>0. j <= Len(back[k]) + 1
        BY <2>1
      <3>1. i \in 1..Len(back[k]) /\ back'[k][i] = back[k][i]
        BY <2>1, <3>0
      <3>2. CASE j \in 1..Len(back[k]) /\ back'[k][j] = back[k][j]
        BY <3>1, <3>2 DEF BackInv
      <3>3. CASE back'[k][j] = f
        BY <3>1, <3>3, <2>2 DEF GoodBack
      <3> QED
        BY <2>1, <3>2, <3>3, Zenon
    <2> QED
      BY <1>1, <1>5, <2>1, <2>3, <2>4, Zenon DEF Wires, BackInv
  <1>8. Flags'
    <2>1. lowWin' \in BOOLEAN /\ armed' \in BOOLEAN
      BY DEF FillAck
    <2> QED
      BY <1>5, <2>1, Zenon DEF Flags
  <1>9. OrderInv' /\ SentInv' /\ FinInv'
    BY <1>1, <1>5 DEF OrderInv, SentInv, FinInv, Shapes, Offset
  <1>10. FwdInv' /\ LaneInv' /\ NoByteForgotten' /\ NoViolation'
    BY <1>5, Zenon DEF FwdInv, LaneInv, NoByteForgotten, NoViolation
  <1> QED
    BY <1>6, <1>7, <1>8, <1>9, <1>10

-----------------------------------------------------------------------------
(* What the readers hand over. *)

LEMMA RecvDataIInv ==
    ASSUME IInv, NEW l \in Lane, NEW tail \in rTail..rightEdge, NEW cut,
           RecvData(l, tail, cut)
    PROVE  IInv'
  <1> USE ConstFacts DEF IInv, writeVars, sendVars, finVars, rescueVars, routeVars
  <1> DEFINE f == Head(fwd[l])
             held == ooq \cup {x \in Span(f.off, f.n) : x >= rTail}
  <1>1. /\ fwd' \in [Lane -> Seq(FwdFrame)]
        /\ 1 \in 1..Len(fwd[l]) /\ f = fwd[l][1] /\ f.t = "DATA"
        /\ \A i \in 1..Len(fwd'[l]) : i + 1 \in 1..Len(fwd[l]) /\ fwd'[l][i] = fwd[l][i + 1]
        /\ \A k \in Lane \ {l} : fwd'[k] = fwd[k]
    BY TakenFwd, Zenon DEF RecvData
  <1>2. /\ UNCHANGED <<writeVars, sendVars, finVars, rescueVars, routeVars, up, back>>
        /\ \/ BadData(f)
           \/ PlaceData(f, tail, cut) /\ UNCHANGED violation
    BY DEF RecvData
  <1> HIDE DEF f
  <1>3. f.off \in Nat /\ f.n \in Nat /\ f.off + f.n <= sNext
    BY <1>1 DEF FwdInv, GoodFwd
  <1>4. ~BadData(f)
    BY <1>3 DEF BadData, OrderInv, FinInv, Shapes, Offset
  <1>5. \A x \in held : x \in Nat /\ x < sNext
    BY <1>3 DEF Span, SentInv, Shapes, Offset
  <1>6. /\ tail \notin held /\ rTail..(tail - 1) \subseteq held
        /\ rTail' = tail /\ ooq' \subseteq held
        /\ rRead' = (IF discard THEN tail ELSE rRead)
        /\ ackDue' \subseteq Lane
        /\ UNCHANGED <<rightEdge, peerFin, lowWin, armed, discard, rLane, violation>>
    BY <1>2, <1>4 DEF PlaceData, Bump, Shapes
  <1> HIDE DEF held
  <1>7. tail \in Nat /\ rTail <= tail /\ tail <= sNext
    <2>1. tail \in Nat /\ rTail <= tail /\ rTail \in Nat /\ sNext \in Nat /\ rTail <= sNext
      BY DEF Shapes, Offset, OrderInv
    <2>2. CASE tail = rTail
      BY <2>1, <2>2
    <2>3. CASE tail > rTail
      <3>1. tail - 1 \in rTail..(tail - 1)
        BY <2>1, <2>3
      <3>2. tail - 1 < sNext
        BY <3>1, <1>5, <1>6
      <3> QED
        BY <2>1, <3>2
    <2> QED
      BY <2>1, <2>2, <2>3
  <1>8. rRead' \in Nat /\ rRead <= rRead' /\ rRead' <= tail
    BY <1>6, <1>7 DEF Shapes, Offset, OrderInv
  <1>9. Shapes'
    BY <1>2, <1>5, <1>6, <1>7, <1>8 DEF Shapes, Offset
  <1>10. Wires' /\ FwdInv'
    BY <1>1, <1>2, Zenon DEF Wires, FwdInv
  <1>11. Flags'
    <2>1. ackOnData' \in BOOLEAN
      BY <1>2, <1>4, Zenon DEF PlaceData
    <2> QED
      BY <1>2, <1>6, <2>1, Zenon DEF Flags
  <1>12. OrderInv' /\ SentInv'
    BY <1>2, <1>5, <1>6, <1>7, <1>8 DEF OrderInv, SentInv, Shapes, Offset
  <1>13. FinInv'
    <2>1. finAcked' => finAcked
      BY <1>2, Zenon
    <2>2. ASSUME finAcked PROVE rRead' = peerFin
      <3>1. rRead = peerFin /\ sNext = rRead
        BY <2>2 DEF FinInv
      <3> QED
        BY <3>1, <1>7, <1>8 DEF Shapes, Offset
    <2> QED
      BY <1>2, <1>6, <2>1, <2>2, Zenon DEF FinInv
  <1>14. BackInv'
    BY <1>2, <1>6, <1>8, BackMono DEF Shapes, Offset, OrderInv
  <1>15. LaneInv' /\ NoByteForgotten' /\ NoViolation'
    BY <1>2, <1>6, Zenon DEF LaneInv, NoByteForgotten, NoViolation
  <1> QED
    BY <1>9, <1>10, <1>11, <1>12, <1>13, <1>14, <1>15

LEMMA RecvFinIInv ==
    ASSUME IInv, NEW l \in Lane, RecvFin(l)
    PROVE  IInv'
  <1> USE ConstFacts DEF IInv, writeVars, sendVars, finVars, rescueVars, routeVars
  <1> DEFINE f == Head(fwd[l])
  <1>1. /\ fwd' \in [Lane -> Seq(FwdFrame)]
        /\ 1 \in 1..Len(fwd[l]) /\ f = fwd[l][1] /\ f.t = "FIN"
        /\ \A i \in 1..Len(fwd'[l]) : i + 1 \in 1..Len(fwd[l]) /\ fwd'[l][i] = fwd[l][i + 1]
        /\ \A k \in Lane \ {l} : fwd'[k] = fwd[k]
    BY TakenFwd DEF RecvFin
  <1>2. /\ UNCHANGED <<writeVars, sendVars, finVars, rescueVars, routeVars, rRead, rTail,
                       ooq, rightEdge, lowWin, armed, discard, ackOnData, rLane, up, back>>
        /\ \/ BadFin(f.off)
           \/ peerFin' = f.off /\ UNCHANGED violation
        /\ ackDue' \subseteq Lane
    BY DEF RecvFin, Bump, Shapes
  <1> HIDE DEF f
  <1>3. finOff # None /\ f.off = finOff /\ sNext = finOff /\ finOff \in Nat
    BY <1>1, Zenon DEF FwdInv, GoodFwd, Shapes, Offset
  <1>4. ~BadFin(f.off)
    BY <1>3 DEF BadFin, ReceivedFrom, OrderInv, SentInv, FinInv, Shapes, Offset
  <1>5. peerFin' = finOff /\ UNCHANGED violation /\ (peerFin # None => peerFin' = peerFin)
    BY <1>2, <1>3, <1>4 DEF FinInv
  <1>6. Shapes'
    BY <1>2, <1>3, <1>5 DEF Shapes, Offset
  <1>7. Wires' /\ FwdInv'
    BY <1>1, <1>2, Zenon DEF Wires, FwdInv
  <1>8. Flags'
    BY <1>2, <1>5, Zenon DEF Flags
  <1>9. OrderInv' /\ SentInv' /\ LaneInv' /\ NoByteForgotten' /\ NoViolation'
    BY <1>2, <1>5, Zenon DEF OrderInv, SentInv, LaneInv, NoByteForgotten, NoViolation
  <1>10. FinInv'
    <2>1. finAcked' => finAcked
      BY <1>2, Zenon
    <2> QED
      BY <1>2, <1>3, <1>5, <2>1 DEF FinInv
  <1>11. BackInv'
    BY <1>2, <1>5, BackMono DEF Shapes, Offset
  <1> QED
    BY <1>6, <1>7, <1>8, <1>9, <1>10, <1>11

\* Advancing the window to what the receiver has consumed and requeueing the lanes
\* in S forgets no byte, as long as only lanes of S stop being up.
LEMMA Advance ==
    ASSUME IInv, NEW to \in Nat, sBase <= to, NEW S \in SUBSET Lane,
           AdvanceAndRequeue(to, S), sNext' = sNext,
           \A k \in Lane : sLane[k] = "up" => k \in S \/ sLane'[k] = "up"
    PROVE  /\ sBase' = to
           /\ retx' \subseteq Nat /\ \A x \in retx' : x < sNext
           /\ infl' \in [Lane -> SUBSET Nat]
           /\ \A k \in Lane : infl'[k] \subseteq infl[k]
           /\ \A k \in Lane : sLane'[k] # "up" => infl'[k] = {}
           /\ NoByteForgotten'
  <1> USE DEF IInv
  <1>1. /\ sBase' = to
        /\ infl' = [k \in Lane |-> IF k \in S THEN {} ELSE {x \in infl[k] : x >= to}]
        /\ retx' = {x \in retx \cup UNION {infl[k] : k \in S} : x >= to}
    BY Zenon DEF AdvanceAndRequeue
  <1>2. /\ retx \subseteq Nat /\ infl \in [Lane -> SUBSET Nat]
        /\ sNext \in Nat /\ sBase \in Nat
        /\ \A x \in retx : x < sNext
        /\ \A k \in Lane : \A x \in infl[k] : x < sNext
    BY DEF Shapes, Offset, SentInv
  <1>3. \A x : x \in retx' <=> x >= to /\ (x \in retx \/ \E k \in S : x \in infl[k])
    BY <1>1, Zenon
  <1>4. /\ retx' \subseteq Nat /\ \A x \in retx' : x < sNext
        /\ infl' \in [Lane -> SUBSET Nat]
        /\ \A k \in Lane : infl'[k] \subseteq infl[k]
    BY <1>1, <1>2, <1>3, Zenon
  <1>5. \A k \in Lane : sLane'[k] # "up" => infl'[k] = {}
    BY <1>1, Zenon DEF LaneInv
  <1>6. NoByteForgotten'
    <2> SUFFICES ASSUME NEW x \in to..(sNext - 1)
                 PROVE  x \in retx' \/ \E k \in Lane : sLane'[k] = "up" /\ x \in infl'[k]
      BY <1>1, Zenon DEF NoByteForgotten
    <2>1. x \in sBase..(sNext - 1) /\ x >= to
      <3>1. sNext \in Nat /\ sBase \in Nat
        BY <1>2, Zenon
      <3> QED BY <3>1, Above, Zenon
    <2>2. CASE x \in retx
      BY <2>1, <2>2, <1>3
    <2>3. ASSUME NEW k \in Lane, sLane[k] = "up", x \in infl[k]
          PROVE  x \in retx' \/ (sLane'[k] = "up" /\ x \in infl'[k])
      BY <2>1, <2>3, <1>1, <1>3
    <2> QED
      BY <2>1, <2>2, <2>3, Zenon DEF NoByteForgotten
  <1> QED
    BY <1>1, <1>4, <1>5, <1>6, Zenon

LEMMA Trimmed ==
    ASSUME IInv, NEW to \in Nat
    PROVE  /\ TrimRescue(rescue, to) \in [off : Nat, n : Nat, holder : Lane \cup {None}]
           /\ TrimRescue(rescue, to).n > 0
              => TrimRescue(rescue, to).off + TrimRescue(rescue, to).n <= sNext
  <1>1. /\ rescue \in [off : Nat, n : Nat, holder : Lane \cup {None}]
        /\ rescue.n > 0 => rescue.off + rescue.n <= sNext
        /\ sNext \in Nat
    BY DEF IInv, Shapes, Offset, SentInv
  <1>2. CASE rescue.n > 0 /\ rescue.off + rescue.n <= to
    BY <1>2 DEF TrimRescue, NoRescue
  <1>3. CASE rescue.n > 0 /\ ~(rescue.off + rescue.n <= to) /\ rescue.off < to
    BY <1>1, <1>3 DEF TrimRescue
  <1>4. CASE ~(rescue.n > 0) \/ (~(rescue.off + rescue.n <= to) /\ ~(rescue.off < to))
    BY <1>1, <1>4 DEF TrimRescue
  <1> QED
    BY <1>2, <1>3, <1>4

LEMMA RecvAckIInv ==
    ASSUME IInv, NEW l \in Lane, RecvAck(l)
    PROVE  IInv'
  <1> USE ConstFacts DEF IInv
  <1> DEFINE f == Head(back[l])
             to == IF f.del > sBase THEN f.del ELSE sBase
  <1>1. /\ back' \in [Lane -> Seq(BackFrame)]
        /\ 1 \in 1..Len(back[l]) /\ f = back[l][1] /\ f.t = "ACK"
        /\ \A i \in 1..Len(back'[l]) :
               i + 1 \in 1..Len(back[l]) /\ back'[l][i] = back[l][i + 1]
        /\ \A k \in Lane \ {l} : back'[k] = back[k]
        /\ f \in BackFrame
    BY TakenBack, Zenon DEF RecvAck
  <1>2. /\ UNCHANGED <<writeVars, routeVars, recvVars, ackVars, up, fwd>>
        /\ \/ BadAck(l, f)
           \/ ApplyAck(l, f) /\ UNCHANGED violation
    BY DEF RecvAck
  <1> HIDE DEF f
  <1>3. /\ f.del \in Nat /\ lastAck[l] <= f.del /\ f.del <= rRead
        /\ f.lim \in Nat /\ f.lim <= rightEdge
        /\ f.fin => peerFin # None /\ f.del = peerFin
    BY <1>1, Zenon DEF BackInv, GoodBack
  <1>4. ~BadAck(l, f)
    BY <1>3 DEF BadAck, OrderInv, FinInv, Shapes, Offset
  <1>5. /\ ApplyAck(l, f) /\ AdvanceAndRequeue(to, {}) /\ rescue' = TrimRescue(rescue, to)
        /\ lastAck' = [lastAck EXCEPT ![l] = f.del]
        /\ peerLimit' = (IF f.lim > peerLimit THEN f.lim ELSE peerLimit)
        /\ finLane' = (IF f.fin THEN None ELSE finLane)
        /\ UNCHANGED <<sNext, finOff, rescuedBase, interleaved, violation>>
    BY <1>2, <1>4 DEF ApplyAck
  <1>6. to \in Nat /\ sBase <= to /\ to <= rRead /\ f.del <= to
    BY <1>3 DEF Shapes, Offset, OrderInv
  <1> HIDE DEF to
  <1> USE <1>2 DEF writeVars, routeVars, recvVars, ackVars
  <1>7. /\ sBase' = to
        /\ retx' \subseteq Nat /\ \A x \in retx' : x < sNext
        /\ infl' \in [Lane -> SUBSET Nat]
        /\ \A k \in Lane : infl'[k] \subseteq infl[k]
        /\ \A k \in Lane : sLane'[k] # "up" => infl'[k] = {}
        /\ NoByteForgotten'
    BY <1>5, <1>6, Advance, Zenon
  <1>8. /\ rescue' \in [off : Nat, n : Nat, holder : Lane \cup {None}]
        /\ rescue'.n > 0 => rescue'.off + rescue'.n <= sNext
    BY <1>5, <1>6, Trimmed
  <1>9. Shapes'
    BY <1>3, <1>5, <1>6, <1>7, <1>8, Zenon DEF Shapes, Offset
  <1>10. Wires' /\ FwdInv'
    BY <1>1, <1>5, Zenon DEF Wires, FwdInv
  <1>11. Flags'
    <2>1. f.fin \in BOOLEAN
      BY <1>1, Zenon DEF BackFrame
    <2>2. finAcked' \in BOOLEAN
      BY <1>5, Zenon DEF ApplyAck
    <2> QED
      BY <1>5, <2>2, Zenon DEF Flags
  <1>12. OrderInv'
    BY <1>3, <1>5, <1>6, <1>7 DEF OrderInv, Shapes, Offset
  <1>13. SentInv'
    BY <1>5, <1>7, <1>8, Zenon DEF SentInv
  <1>14. FinInv'
    <2>1. finAcked' => finAcked \/ f.fin
      BY <1>5, Zenon DEF ApplyAck
    <2>2. ASSUME finAcked \/ f.fin PROVE peerFin # None /\ rRead = peerFin /\ to = peerFin
      <3>1. CASE finAcked
        BY <3>1, <1>6 DEF FinInv, Shapes, Offset
      <3>2. CASE f.fin
        BY <3>2, <1>3, <1>6 DEF FinInv, OrderInv, Shapes, Offset
      <3> QED
        BY <2>2, <3>1, <3>2
    <2> QED
      BY <1>5, <1>7, <2>1, <2>2, Zenon DEF FinInv
  <1>15. BackInv'
    <2>1. lastAck'[l] = f.del /\ \A k \in Lane \ {l} : lastAck'[k] = lastAck[k]
      BY <1>5 DEF Shapes
    <2>2. back[l] \in Seq(BackFrame) /\ back'[l] \in Seq(BackFrame)
      BY <1>1, Zenon DEF Wires
    <2>3. ASSUME NEW i \in 1..Len(back'[l])
          PROVE  /\ i + 1 \in 1..Len(back[l]) /\ 1 < i + 1 /\ i \in Int
                 /\ back'[l][i] = back[l][i + 1]
      <3>1. Len(back'[l]) \in Nat
        BY <2>2, LenNat
      <3>2. i \in Int /\ 1 <= i
        BY <3>1
      <3>3. i + 1 \in 1..Len(back[l]) /\ back'[l][i] = back[l][i + 1]
        BY <1>1, Zenon
      <3>4. 1 < i + 1
        BY <3>2
      <3> QED
        BY <3>2, <3>3, <3>4, Zenon
    <2>4. ASSUME NEW i \in 1..Len(back'[l])
          PROVE  GoodBack(back'[l][i], f.del, rRead, rightEdge, peerFin)
      <3>1. GoodBack(back[l][i + 1], lastAck[l], rRead, rightEdge, peerFin)
        BY <2>3, Zenon DEF BackInv
      <3>2. back[l][i + 1].t = "ACK" => f.del <= back[l][i + 1].del
        BY <1>1, <2>3, Zenon DEF BackInv
      <3> QED
        BY <2>3, <3>1, <3>2, Zenon DEF GoodBack
    <2>5. ASSUME NEW i \in 1..Len(back'[l]), NEW j \in 1..Len(back'[l]), i < j,
                 back'[l][i].t = "ACK", back'[l][j].t = "ACK"
          PROVE  back'[l][i].del <= back'[l][j].del
      <3>1. i \in Int /\ j \in Int
        BY <2>3, Zenon
      <3>2. i + 1 < j + 1
        BY <2>5, <3>1
      <3> QED
        BY <2>3, <2>5, <3>2, Zenon DEF BackInv
    <2>6. /\ lastAck'[l] <= rRead
          /\ \A i \in 1..Len(back'[l]) :
                 GoodBack(back'[l][i], lastAck'[l], rRead, rightEdge, peerFin)
      BY <1>3, <2>1, <2>4, Zenon
    <2>7. UNCHANGED <<rRead, rightEdge, peerFin>>
      OBVIOUS
    <2>8. ASSUME NEW k \in Lane \ {l}
          PROVE  back'[k] = back[k] /\ lastAck'[k] = lastAck[k]
      BY <1>1, <2>1, Zenon
    <2> SUFFICES ASSUME NEW k \in Lane
                 PROVE  /\ lastAck'[k] <= rRead
                        /\ \A i \in 1..Len(back'[k]) :
                             GoodBack(back'[k][i], lastAck'[k], rRead, rightEdge, peerFin)
                        /\ \A i, j \in 1..Len(back'[k]) :
                             i < j /\ back'[k][i].t = "ACK" /\ back'[k][j].t = "ACK"
                             => back'[k][i].del <= back'[k][j].del
      BY <2>7, Zenon DEF BackInv
    <2>9. CASE k = l
      BY <2>5, <2>6, <2>9, Zenon
    <2>10. CASE k # l
      BY <2>8, <2>10, Zenon DEF BackInv
    <2> QED
      BY <2>9, <2>10, Zenon
  <1>16. LaneInv' /\ NoViolation'
    BY <1>5, <1>7, Zenon DEF LaneInv, NoViolation
  <1> QED
    BY <1>7, <1>9, <1>10, <1>11, <1>12, <1>13, <1>14, <1>15, <1>16, Zenon

-----------------------------------------------------------------------------
(* Handshake frames on the queues. *)

LEMMA TookFwd ==
    ASSUME IInv, NEW l \in Lane, NEW t, ReadFwd(l, t), UNCHANGED <<sNext, finOff>>
    PROVE  fwd' \in [Lane -> Seq(FwdFrame)] /\ FwdInv'
  <1>1. /\ fwd' \in [Lane -> Seq(FwdFrame)]
        /\ \A i \in 1..Len(fwd'[l]) : i + 1 \in 1..Len(fwd[l]) /\ fwd'[l][i] = fwd[l][i + 1]
        /\ \A k \in Lane \ {l} : fwd'[k] = fwd[k]
    BY TakenFwd DEF IInv
  <1> QED
    BY <1>1, Zenon DEF IInv, FwdInv

LEMMA PutFwd ==
    ASSUME IInv, NEW l \in Lane, SendFwd(l, [t |-> "JOIN_ACK"]), UNCHANGED <<sNext, finOff>>
    PROVE  fwd' \in [Lane -> Seq(FwdFrame)] /\ FwdInv'
  <1> DEFINE f == [t |-> "JOIN_ACK"]
  <1>1. f \in FwdFrame /\ GoodFwd(f, sNext, finOff) /\ SendFwd(l, f)
    BY DEF FwdFrame, GoodFwd
  <1> HIDE DEF f
  <1>2. /\ fwd' \in [Lane -> Seq(FwdFrame)]
        /\ \A k \in Lane : \A i \in 1..Len(fwd'[k]) :
               \/ i \in 1..Len(fwd[k]) /\ fwd'[k][i] = fwd[k][i]
               \/ fwd'[k][i] = f
    BY <1>1, SentFwd, Zenon DEF IInv
  <1> QED
    BY <1>1, <1>2, Zenon DEF IInv, FwdInv

LEMMA TookBack ==
    ASSUME IInv, NEW l \in Lane, NEW t, ReadBack(l, t), t # "ACK",
           UNCHANGED <<lastAck, rRead, rightEdge, peerFin>>
    PROVE  /\ back' \in [Lane -> Seq(BackFrame)] /\ BackInv'
           /\ Head(back[l]).rx \in Nat /\ Head(back[l]).rx <= rRead
  <1>1. /\ back' \in [Lane -> Seq(BackFrame)]
        /\ 1 \in 1..Len(back[l]) /\ Head(back[l]) = back[l][1] /\ Head(back[l]).t = t
        /\ \A i \in 1..Len(back'[l]) :
               i + 1 \in 1..Len(back[l]) /\ back'[l][i] = back[l][i + 1]
        /\ \A k \in Lane \ {l} : back'[k] = back[k]
    BY TakenBack, Zenon DEF IInv
  <1>2. Head(back[l]).rx \in Nat /\ Head(back[l]).rx <= rRead
    <2>1. GoodBack(back[l][1], lastAck[l], rRead, rightEdge, peerFin)
      BY <1>1, Zenon DEF IInv, BackInv
    <2> QED
      BY <1>1, <2>1, Zenon DEF GoodBack
  <1>3. back[l] \in Seq(BackFrame) /\ back'[l] \in Seq(BackFrame)
    BY <1>1 DEF IInv, Wires
  <1>4. ASSUME NEW i \in 1..Len(back'[l]), NEW j \in 1..Len(back'[l]), i < j,
               back'[l][i].t = "ACK", back'[l][j].t = "ACK"
        PROVE  back'[l][i].del <= back'[l][j].del
    <2>1. /\ i + 1 \in 1..Len(back[l]) /\ back'[l][i] = back[l][i + 1]
          /\ j + 1 \in 1..Len(back[l]) /\ back'[l][j] = back[l][j + 1]
      BY <1>1
    <2>2. i + 1 < j + 1
      BY <1>3, <1>4
    <2> QED
      BY <1>4, <2>1, <2>2, Zenon DEF IInv, BackInv
  <1>5. \A i \in 1..Len(back'[l]) :
            GoodBack(back'[l][i], lastAck[l], rRead, rightEdge, peerFin)
    BY <1>1, Zenon DEF IInv, BackInv
  <1> SUFFICES ASSUME NEW k \in Lane
               PROVE  /\ lastAck[k] <= rRead
                      /\ \A i \in 1..Len(back'[k]) :
                           GoodBack(back'[k][i], lastAck[k], rRead, rightEdge, peerFin)
                      /\ \A i, j \in 1..Len(back'[k]) :
                           i < j /\ back'[k][i].t = "ACK" /\ back'[k][j].t = "ACK"
                           => back'[k][i].del <= back'[k][j].del
    BY <1>1, <1>2, Zenon DEF BackInv
  <1>6. CASE k = l
    BY <1>4, <1>5, <1>6, Zenon DEF IInv, BackInv
  <1>7. CASE k # l
    BY <1>1, <1>7, Zenon DEF IInv, BackInv
  <1> QED
    BY <1>6, <1>7, Zenon

LEMMA PutBack ==
    ASSUME IInv, NEW l \in Lane, SendBack(l, [t |-> "JOIN_ACK", rx |-> rRead]),
           UNCHANGED <<lastAck, rRead, rightEdge, peerFin>>
    PROVE  back' \in [Lane -> Seq(BackFrame)] /\ BackInv'
  <1> DEFINE f == [t |-> "JOIN_ACK", rx |-> rRead]
  <1>1. /\ f \in BackFrame /\ f.t # "ACK" /\ SendBack(l, f)
        /\ \A k \in Lane : GoodBack(f, lastAck[k], rRead, rightEdge, peerFin)
    <2>1. rRead \in Nat /\ rRead <= rRead
      BY DEF IInv, Shapes, Offset
    <2> QED
      BY <2>1 DEF BackFrame, GoodBack, Offset
  <1> HIDE DEF f
  <1>2. /\ back' \in [Lane -> Seq(BackFrame)]
        /\ \A k \in Lane : \A i \in 1..Len(back'[k]) :
               \/ i \in 1..Len(back[k]) /\ back'[k][i] = back[k][i]
               \/ back'[k][i] = f
    BY <1>1, SentBack, Zenon DEF IInv
  <1>3. \A k \in Lane : \A i, j \in 1..Len(back'[k]) :
            i < j /\ back'[k][i].t = "ACK" /\ back'[k][j].t = "ACK"
            => back'[k][i].del <= back'[k][j].del
    BY <1>1, <1>2, Zenon DEF IInv, BackInv
  <1>4. \A k \in Lane : \A i \in 1..Len(back'[k]) :
            GoodBack(back'[k][i], lastAck[k], rRead, rightEdge, peerFin)
    BY <1>1, <1>2, Zenon DEF IInv, BackInv
  <1> QED
    BY <1>2, <1>3, <1>4, Zenon DEF IInv, BackInv

-----------------------------------------------------------------------------
(* Lanes. *)

\* The sender's half when it takes a lane or moves to another one.
LEMMA Gained ==
    ASSUME IInv, NEW l \in Lane, NEW rx \in Nat, rx <= rRead, NEW switch,
           SenderGains(l, rx, switch), UNCHANGED <<writeVars, finVars, recvVars>>
    PROVE  /\ sBase' \in Nat /\ retx' \subseteq Nat /\ infl' \in [Lane -> SUBSET Nat]
           /\ rescue' \in [off : Nat, n : Nat, holder : Lane \cup {None}]
           /\ data' \subseteq Lane /\ sLane' \in [Lane -> LaneState]
           /\ UNCHANGED <<sNext, peerLimit, lastAck, rescuedBase, interleaved, violation>>
           /\ OrderInv' /\ SentInv' /\ FinInv' /\ LaneInv' /\ NoByteForgotten'
  <1> USE DEF IInv
  <1> DEFINE old == ReplacedBy(switch)
             to == IF rx > sBase THEN rx ELSE sBase
  <1>1. ~(rx > sNext)
    BY DEF OrderInv, Shapes, Offset
  <1>2. /\ AdvanceAndRequeue(to, old) /\ rescue' = TrimRescue(rescue, to)
        /\ sLane' = [sLane EXCEPT ![l] = "up"]
        /\ data' = (IF switch \/ data = {} THEN {l}
                    ELSE IF Bond /\ SenderDials THEN data \cup {l} ELSE data)
        /\ UNCHANGED <<sNext, peerLimit, lastAck, rescuedBase, interleaved, violation>>
    BY <1>1 DEF SenderGains
  <1>3. to \in Nat /\ sBase <= to /\ to <= rRead /\ old \in SUBSET Lane
    BY DEF OrderInv, Shapes, Offset, ReplacedBy
  <1>4. /\ sLane' \in [Lane -> LaneState] /\ sLane'[l] = "up"
        /\ \A k \in Lane : sLane[k] = "up" => sLane'[k] = "up"
    BY <1>2 DEF Shapes, LaneState
  <1>5. data' \subseteq data \cup {l}
    BY <1>2
  <1> HIDE DEF old, to
  <1>6. /\ sBase' = to
        /\ retx' \subseteq Nat /\ \A x \in retx' : x < sNext
        /\ infl' \in [Lane -> SUBSET Nat]
        /\ \A k \in Lane : infl'[k] \subseteq infl[k]
        /\ \A k \in Lane : sLane'[k] # "up" => infl'[k] = {}
        /\ NoByteForgotten'
    BY <1>2, <1>3, <1>4, Advance, Zenon
  <1>7. /\ rescue' \in [off : Nat, n : Nat, holder : Lane \cup {None}]
        /\ rescue'.n > 0 => rescue'.off + rescue'.n <= sNext
    BY <1>2, <1>3, Trimmed
  <1>8. OrderInv'
    BY <1>2, <1>3, <1>6 DEF OrderInv, writeVars, recvVars, Shapes, Offset
  <1>9. SentInv'
    BY <1>2, <1>6, <1>7, Zenon DEF SentInv, recvVars
  <1>10. FinInv'
    <2>1. finAcked' => finAcked
      BY Zenon DEF finVars
    <2>2. ASSUME finAcked PROVE to = peerFin
      BY <2>2, <1>3 DEF FinInv, Shapes, Offset
    <2> QED
      BY <1>2, <1>6, <2>1, <2>2, Zenon DEF FinInv, finVars, writeVars, recvVars
  <1>11. LaneInv' /\ data' \subseteq Lane
    BY <1>4, <1>5, <1>6 DEF LaneInv, Shapes
  <1> QED
    BY <1>2, <1>3, <1>4, <1>6, <1>7, <1>8, <1>9, <1>10, <1>11, Zenon

LEMMA AdoptAttachIInv ==
    ASSUME IInv, NEW l \in Lane, NEW switch, Adopt(l) \/ Attach(l, switch)
    PROVE  IInv'
  <1> USE ConstFacts DEF IInv
  <1>1. UNCHANGED <<writeVars, finVars, recvVars, up>>
    BY Zenon DEF Adopt, Attach
  <1> USE <1>1 DEF writeVars, finVars, recvVars
  <1>2. ASSUME ReceiverGains(l), UNCHANGED <<sendVars, rescueVars, routeVars, violation>>,
               fwd' \in [Lane -> Seq(FwdFrame)], FwdInv',
               back' \in [Lane -> Seq(BackFrame)], BackInv'
        PROVE  IInv'
    <2> USE <1>2 DEF ReceiverGains, sendVars, rescueVars, routeVars
    <2>1. rLane' \in [Lane -> LaneState] /\ ackDue' \subseteq Lane
      BY DEF Shapes, LaneState, Bump
    <2>2. Shapes' /\ Wires'
      BY <2>1, Zenon DEF Shapes, Wires
    <2>3. Flags'
      BY Zenon DEF Flags
    <2>4. OrderInv' /\ SentInv' /\ FinInv' /\ LaneInv' /\ NoByteForgotten' /\ NoViolation'
      BY Zenon DEF OrderInv, SentInv, FinInv, LaneInv, NoByteForgotten, NoViolation
    <2> QED
      BY <2>2, <2>3, <2>4
  <1>3. ASSUME NEW s, NEW rx \in Nat, rx <= rRead, SenderGains(l, rx, s), UNCHANGED ackVars,
               fwd' \in [Lane -> Seq(FwdFrame)], FwdInv',
               back' \in [Lane -> Seq(BackFrame)], BackInv'
        PROVE  IInv'
    <2>1. /\ sBase' \in Nat /\ retx' \subseteq Nat /\ infl' \in [Lane -> SUBSET Nat]
          /\ rescue' \in [off : Nat, n : Nat, holder : Lane \cup {None}]
          /\ data' \subseteq Lane /\ sLane' \in [Lane -> LaneState]
          /\ UNCHANGED <<sNext, peerLimit, lastAck, rescuedBase, interleaved, violation>>
          /\ OrderInv' /\ SentInv' /\ FinInv' /\ LaneInv' /\ NoByteForgotten'
      BY <1>3, Gained
    <2>2. Shapes' /\ Wires'
      BY <1>3, <2>1, Zenon DEF Shapes, Wires, Offset, ackVars
    <2>3. Flags'
      BY <1>3, <2>1, Zenon DEF Flags, ackVars
    <2> QED
      BY <1>3, <2>1, <2>2, <2>3 DEF NoViolation
  <1>4. CASE Adopt(l) /\ SenderDials
    BY <1>2, <1>4, TookFwd, PutBack, Zenon DEF Adopt, sendVars
  <1>5. CASE Adopt(l) /\ ~SenderDials
    <2>1. /\ ReadBack(l, "JOIN") /\ SenderGains(l, Head(back[l]).rx, FALSE)
          /\ SendFwd(l, [t |-> "JOIN_ACK"]) /\ UNCHANGED ackVars
      BY <1>5, Zenon DEF Adopt
    <2>2. lastAck' = lastAck /\ sNext' = sNext
      BY <2>1 DEF SenderGains, sendVars
    <2> QED
      BY <2>1, <2>2, <1>3, TookBack, PutFwd, Zenon
  <1>6. CASE Attach(l, switch) /\ SenderDials
    <2>1. /\ ReadBack(l, "JOIN_ACK") /\ SenderGains(l, Head(back[l]).rx, switch)
          /\ UNCHANGED <<ackVars, fwd>>
      BY <1>6, Zenon DEF Attach
    <2>2. lastAck' = lastAck /\ sNext' = sNext
      BY <2>1 DEF SenderGains, sendVars
    <2>3. fwd' \in [Lane -> Seq(FwdFrame)] /\ FwdInv'
      BY <2>1, <2>2 DEF Wires, FwdInv
    <2> QED
      BY <2>1, <2>2, <2>3, <1>3, TookBack, Zenon
  <1>7. CASE Attach(l, switch) /\ ~SenderDials
    <2>1. /\ ReadFwd(l, "JOIN_ACK") /\ ReceiverGains(l)
          /\ UNCHANGED <<sendVars, rescueVars, routeVars, violation, back>>
      BY <1>7, Zenon DEF Attach
    <2>2. back' \in [Lane -> Seq(BackFrame)] /\ BackInv'
      BY <2>1, Zenon DEF Wires, BackInv, sendVars
    <2>3. fwd' \in [Lane -> Seq(FwdFrame)] /\ FwdInv'
      BY <2>1, TookFwd DEF sendVars
    <2> QED
      BY <2>1, <2>2, <2>3, <1>2
  <1> QED
    BY <1>4, <1>5, <1>6, <1>7

LEMMA JoinIInv ==
    ASSUME IInv, NEW l \in Lane, Join(l) \/ AttemptFailed(l)
    PROVE  IInv'
  <1> DEFINE fJoin == [t |-> "JOIN"]
             bJoin == [t |-> "JOIN", rx |-> rRead]
  <1>1. UNCHANGED <<writeVars, sendVars, finVars, rescueVars, data, recvVars, ackDue,
                    ackOnData, violation>>
    BY Zenon DEF Join, AttemptFailed
  <1>2. \/ sLane' = sLane
        \/ /\ sLane[l] # "up"
           /\ \E s \in {"joining", "dead"} : sLane' = [sLane EXCEPT ![l] = s]
    BY Zenon DEF Join, AttemptFailed
  <1>3. \/ rLane' = rLane
        \/ \E s \in {"joining", "dead"} : rLane' = [rLane EXCEPT ![l] = s]
    BY Zenon DEF Join, AttemptFailed
  <1>4. fwd' = fwd \/ \E q \in {<<>>, <<fJoin>>} : fwd' = [fwd EXCEPT ![l] = q]
    BY Zenon DEF Join, AttemptFailed
  <1>5. back' = back \/ \E q \in {<<>>, <<bJoin>>} : back' = [back EXCEPT ![l] = q]
    BY Zenon DEF Join, AttemptFailed
  <1>6. fJoin \in FwdFrame /\ GoodFwd(fJoin, sNext, finOff)
    BY DEF FwdFrame, GoodFwd
  <1>7. /\ bJoin \in BackFrame /\ bJoin.t # "ACK"
        /\ GoodBack(bJoin, lastAck[l], rRead, rightEdge, peerFin)
    <2>1. rRead \in Nat /\ rRead <= rRead
      BY DEF IInv, Shapes, Offset
    <2> QED
      BY <2>1 DEF BackFrame, GoodBack, Offset
  <1> HIDE DEF fJoin, bJoin
  <1>8. /\ sLane' \in [Lane -> LaneState] /\ rLane' \in [Lane -> LaneState]
        /\ \A k \in Lane : sLane'[k] = "up" <=> sLane[k] = "up"
    BY <1>2, <1>3 DEF IInv, Shapes, LaneState
  <1>9. Shapes'
    BY <1>1, <1>8 DEF IInv, Shapes, sendVars, writeVars, finVars, rescueVars, recvVars
  <1>10. LaneInv' /\ NoByteForgotten' /\ NoViolation'
    BY <1>1, <1>8 DEF IInv, LaneInv, NoByteForgotten, NoViolation, Shapes, sendVars
  <1>11. OrderInv' /\ SentInv' /\ FinInv'
    BY <1>1, Zenon DEF IInv, OrderInv, SentInv, FinInv, writeVars, sendVars, finVars, rescueVars,
           recvVars
  <1>12. fwd' \in [Lane -> Seq(FwdFrame)] /\ FwdInv'
    <2>1. sNext' = sNext /\ finOff' = finOff
      BY <1>1 DEF sendVars, finVars
    <2>2. CASE fwd' = fwd
      BY <2>1, <2>2 DEF IInv, Wires, FwdInv
    <2>3. ASSUME NEW q \in {<<>>, <<fJoin>>}, fwd' = [fwd EXCEPT ![l] = q]
          PROVE  fwd' \in [Lane -> Seq(FwdFrame)] /\ FwdInv'
      <3>1. q \in Seq(FwdFrame) /\ \A i \in 1..Len(q) : q[i] = fJoin
        <4>1. CASE q = <<>>
          BY <4>1
        <4>2. CASE q = <<fJoin>>
          BY <1>6, <4>2
        <4> QED
          BY <4>1, <4>2
      <3>2. /\ fwd' \in [Lane -> Seq(FwdFrame)] /\ fwd'[l] = q
            /\ \A k \in Lane \ {l} : fwd'[k] = fwd[k]
        BY <2>3, <3>1 DEF IInv, Wires
      <3> QED
        BY <1>6, <2>1, <3>1, <3>2, Zenon DEF IInv, FwdInv
    <2> QED
      BY <1>4, <2>2, <2>3
  <1>13. back' \in [Lane -> Seq(BackFrame)] /\ BackInv'
    <2>1. UNCHANGED <<lastAck, rRead, rightEdge, peerFin>>
      BY <1>1 DEF sendVars, recvVars
    <2>2. CASE back' = back
      BY <2>1, <2>2, Zenon DEF IInv, Wires, BackInv
    <2>3. ASSUME NEW q \in {<<>>, <<bJoin>>}, back' = [back EXCEPT ![l] = q]
          PROVE  back' \in [Lane -> Seq(BackFrame)] /\ BackInv'
      <3>1. q \in Seq(BackFrame) /\ \A i \in 1..Len(q) : q[i] = bJoin
        <4>1. CASE q = <<>>
          BY <4>1
        <4>2. CASE q = <<bJoin>>
          BY <1>7, <4>2
        <4> QED
          BY <4>1, <4>2
      <3>2. /\ back' \in [Lane -> Seq(BackFrame)] /\ back'[l] = q
            /\ \A k \in Lane \ {l} : back'[k] = back[k]
        BY <2>3, <3>1 DEF IInv, Wires
      <3> QED
        BY <1>7, <2>1, <3>1, <3>2, Zenon DEF IInv, BackInv
    <2> QED
      BY <1>5, <2>2, <2>3
  <1>14. Flags'
    <2>1. up' \in [Lane -> BOOLEAN]
      BY Zenon DEF IInv, Flags, Join, AttemptFailed
    <2> QED
      BY <1>1, <2>1, Zenon DEF IInv, Flags, finVars, rescueVars, recvVars
  <1> QED
    BY <1>9, <1>10, <1>11, <1>12, <1>13, <1>14 DEF IInv, Wires

LEMMA BreakIInv ==
    ASSUME IInv, NEW l \in Lane, Break(l) \/ ReceiverReaps(l)
    PROVE  IInv'
  <1> USE DEF IInv
  <1>1. /\ UNCHANGED <<writeVars, sendVars, finVars, rescueVars, routeVars, recvVars,
                       ackOnData, fwd, back, violation>>
        /\ ackDue' \subseteq Lane /\ rLane' \in [Lane -> LaneState]
    BY DEF Break, ReceiverReaps, ackVars, netVars, Bump, Shapes, LaneState
  <1> USE <1>1 DEF writeVars, sendVars, finVars, rescueVars, routeVars, recvVars
  <1>2. Shapes' /\ Wires' /\ FwdInv' /\ BackInv'
    BY Zenon DEF Shapes, Wires, FwdInv, BackInv
  <1>3. OrderInv' /\ SentInv' /\ FinInv' /\ LaneInv' /\ NoByteForgotten' /\ NoViolation'
    BY Zenon DEF OrderInv, SentInv, FinInv, LaneInv, NoByteForgotten, NoViolation
  <1>4. Flags'
    <2>1. up' \in [Lane -> BOOLEAN]
      BY Zenon DEF Flags, Break, ReceiverReaps, netVars
    <2> QED
      BY <2>1, Zenon DEF Flags
  <1> QED
    BY <1>2, <1>3, <1>4

\* The sender's half when lanes leave: they are requeued before they go.
LEMMA LeaveIInv ==
    ASSUME IInv, (\E l \in Lane, fb \in Lane \cup {None} : SenderReaps(l, fb))
                 \/ (\E S \in SUBSET Lane : Route(S))
    PROVE  IInv'
  <1> USE ConstFacts DEF IInv
  <1>1. PICK S \in SUBSET Lane :
            /\ AdvanceAndRequeue(sBase, S)
            /\ \A k \in Lane : sLane[k] = "up" => k \in S \/ sLane'[k] = "up"
            /\ sLane' \in [Lane -> LaneState]
            /\ data' \subseteq Lane /\ \A k \in data' : sLane'[k] = "up"
    <2>1. ASSUME NEW l \in Lane, NEW fb \in Lane \cup {None}, SenderReaps(l, fb)
          PROVE  /\ AdvanceAndRequeue(sBase, {l})
                 /\ \A k \in Lane : sLane[k] = "up" => k \in {l} \/ sLane'[k] = "up"
                 /\ sLane' \in [Lane -> LaneState]
                 /\ data' \subseteq Lane /\ \A k \in data' : sLane'[k] = "up"
      <3>1. /\ AdvanceAndRequeue(sBase, {l})
            /\ sLane' = [sLane EXCEPT ![l] = "dead"]
            /\ data' = ((data \ {l}) \cup {fb}) \ {None}
            /\ fb # None => fb \in Lane \ {l} /\ sLane[fb] = "up"
        BY <2>1, Zenon DEF SenderReaps
      <3>2. /\ sLane' \in [Lane -> LaneState]
            /\ \A k \in Lane \ {l} : sLane'[k] = sLane[k]
        BY <3>1, Zenon DEF Shapes, LaneState
      <3> QED
        BY <3>1, <3>2, Zenon DEF Shapes, LaneInv
    <2>2. ASSUME NEW S \in SUBSET Lane, Route(S)
          PROVE  /\ AdvanceAndRequeue(sBase, data \ S)
                 /\ \A k \in Lane : sLane[k] = "up" => k \in data \ S \/ sLane'[k] = "up"
                 /\ sLane' \in [Lane -> LaneState]
                 /\ data' \subseteq Lane /\ \A k \in data' : sLane'[k] = "up"
      BY <2>2, Zenon DEF Route, Shapes
    <2>3. data \subseteq Lane
      BY Zenon DEF Shapes
    <2> QED
      BY <2>1, <2>2, <2>3, Zenon
  <1>2. UNCHANGED <<writeVars, sNext, peerLimit, lastAck, finOff, finAcked, rescuedBase,
                    interleaved, recvVars, ackVars, netVars, violation>>
    BY Zenon DEF SenderReaps, Route, finVars, rescueVars
  <1>3. finLane' = finLane \/ finLane' = None
    BY Zenon DEF SenderReaps, Route, finVars, FinWithout
  <1>4. rescue' = rescue \/ rescue' = [off |-> 0, n |-> 0, holder |-> None]
    BY Zenon DEF SenderReaps, Route, rescueVars, NoRescue
  <1>5. /\ sBase' = sBase
        /\ retx' \subseteq Nat /\ \A x \in retx' : x < sNext
        /\ infl' \in [Lane -> SUBSET Nat]
        /\ \A k \in Lane : infl'[k] \subseteq infl[k]
        /\ \A k \in Lane : sLane'[k] # "up" => infl'[k] = {}
        /\ NoByteForgotten'
    <2>1. sBase \in Nat /\ sBase <= sBase
      BY DEF Shapes, Offset
    <2> QED
      BY <1>1, <1>2, <2>1, Advance
  <1>6. /\ rescue' \in [off : Nat, n : Nat, holder : Lane \cup {None}]
        /\ rescue'.n > 0 => rescue'.off + rescue'.n <= sNext
    <2>1. CASE rescue' = rescue
      BY <2>1 DEF Shapes, SentInv, Offset
    <2>2. CASE rescue' = [off |-> 0, n |-> 0, holder |-> None]
      <3>0. rescue'.n = 0
        BY <2>2, Zenon
      <3>1. ~(rescue'.n > 0)
        BY <3>0, ZeroIsNone, Zenon
      <3>2. rescue' \in [off : Nat, n : Nat, holder : Lane \cup {None}]
        BY <2>2, Zenon
      <3> QED
        BY <3>1, <3>2, Zenon
    <2> QED
      BY <1>4, <2>1, <2>2, Zenon
  <1>7. Shapes'
    <2>1. /\ resEnd' \in Offset /\ wEnd' \in Offset /\ sNext' \in Offset /\ peerLimit' \in Offset
          /\ rRead' \in Offset /\ rTail' \in Offset /\ rightEdge' \in Offset
          /\ finOff' \in Offset \cup {None} /\ peerFin' \in Offset \cup {None}
          /\ rescuedBase' \in Offset \cup {None} /\ ooq' \subseteq Offset
          /\ lastAck' \in [Lane -> Offset] /\ ackDue' \subseteq Lane /\ rLane' \in [Lane -> LaneState]
      BY <1>2 DEF Shapes, writeVars, recvVars, ackVars
    <2>2. sBase' \in Offset /\ finLane' \in Lane \cup {None}
      BY <1>3, <1>5 DEF Shapes
    <2>3. Offset = Nat
      BY DEF Offset
    <2> QED
      BY <1>1, <1>5, <1>6, <2>1, <2>2, <2>3, Zenon DEF Shapes
  <1>8. Wires' /\ FwdInv' /\ BackInv' /\ NoViolation'
    BY <1>2, Zenon DEF Wires, FwdInv, BackInv, NoViolation, netVars, recvVars
  <1>9. Flags'
    BY <1>2, Zenon DEF Flags, recvVars, ackVars, netVars
  <1>10. OrderInv' /\ FinInv'
    BY <1>2, <1>5, Zenon DEF OrderInv, FinInv, writeVars, recvVars
  <1>11. SentInv' /\ LaneInv'
    BY <1>1, <1>2, <1>5, <1>6, Zenon DEF SentInv, LaneInv, recvVars
  <1> QED
    BY <1>5, <1>7, <1>8, <1>9, <1>10, <1>11

-----------------------------------------------------------------------------
(* The theorems. *)

LEMMA StutterIInv ==
    ASSUME IInv, UNCHANGED vars
    PROVE  IInv'
  <1> USE DEF IInv, vars, writeVars, sendVars, finVars, rescueVars, routeVars, recvVars,
          ackVars, netVars
  <1>1. Shapes' /\ Wires' /\ FwdInv' /\ BackInv'
    BY Zenon DEF Shapes, Wires, FwdInv, BackInv
  <1>2. OrderInv' /\ SentInv' /\ FinInv' /\ LaneInv' /\ NoByteForgotten' /\ NoViolation'
    BY Zenon DEF OrderInv, SentInv, FinInv, LaneInv, NoByteForgotten, NoViolation
  <1>3. Flags'
    BY Zenon DEF Flags
  <1> QED
    BY <1>1, <1>2, <1>3

LEMMA NextIInv == IInv /\ [Next]_vars => IInv'
  <1> SUFFICES ASSUME IInv, [Next]_vars PROVE IInv'
    OBVIOUS
  <1>1. CASE App
    BY <1>1, WriterIInv, ReaderIInv DEF App
  <1>2. CASE Act
    BY <1>2, ActIInv, LeaveIInv DEF Act
  <1>3. ASSUME NEW l \in Lane, SenderFill(l) PROVE IInv'
    BY <1>3, FillDataIInv, FillFinIInv DEF SenderFill
  <1>4. ASSUME NEW l \in Lane, ReceiverFill(l) PROVE IInv'
    BY <1>4, ReceiverFillIInv DEF ReceiverFill
  <1>5. ASSUME NEW l \in Lane, Recv(l) PROVE IInv'
    BY <1>5, RecvDataIInv, RecvFinIInv, RecvAckIInv DEF Recv
  <1>6. ASSUME NEW l \in Lane, Carrier(l) PROVE IInv'
    BY <1>6, JoinIInv, AdoptAttachIInv, BreakIInv, LeaveIInv, Zenon DEF Carrier
  <1>7. CASE UNCHANGED vars
    BY <1>7, StutterIInv
  <1> QED
    BY <1>1, <1>2, <1>3, <1>4, <1>5, <1>6, <1>7 DEF Next

\* The inductive invariant holds in every state of every behaviour.
THEOREM Invariance == Spec => []IInv
  <1> QED
    BY InitIInv, NextIInv, PTL DEF Spec

\* Every variable of both halves keeps its type.
THEOREM TypesHold == Spec => []TypeOK
  <1>1. IInv => TypeOK
    BY Zenon DEF IInv, Shapes, Wires, Flags, TypeOK
  <1> QED
    BY <1>1, Invariance, PTL

\* advanceSendLocked drops a byte from the sender's window only once the receiving
\* application has consumed it, for any number of lanes and any losses.
THEOREM AckedIsDeliveredHolds == Spec => []AckedIsDelivered
  <1>1. IInv => AckedIsDelivered
    BY DEF IInv, OrderInv, AckedIsDelivered
  <1> QED
    BY <1>1, Invariance, PTL

\* requeueLocked on deaths, switches and reroutes: no byte sent and not
\* acknowledged is ever forgotten.
THEOREM NoByteForgottenHolds == Spec => []NoByteForgotten
  <1>1. IInv => NoByteForgotten
    BY DEF IInv
  <1> QED
    BY <1>1, Invariance, PTL

\* Two ends that follow the code never meet one of the protocol errors of
\* recvDataLocked, finLocked, ackLocked and applyRxNextLocked.
THEOREM NoViolationHolds == Spec => []NoViolation
  <1>1. IInv => NoViolation
    BY DEF IInv
  <1> QED
    BY <1>1, Invariance, PTL

\* The FIN read (finLocked) is the sender's end of stream, and its acknowledgement
\* (ackLocked) means that everything written was consumed.
THEOREM FinIsEndHolds == Spec => []FinIsEnd
  <1>1. IInv => FinIsEnd
    BY DEF IInv, FinInv, FinIsEnd
  <1> QED
    BY <1>1, Invariance, PTL

=============================================================================
