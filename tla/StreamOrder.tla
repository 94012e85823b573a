----------------------------- MODULE StreamOrder -----------------------------
(***************************************************************************)
(* The ACK and the window that are owed (AckNotLost, NoWindowStall) and the*)
(* order of the bytes under selector routing (SelectorInOrder) of Stream,  *)
(* for every number of lanes and bytes, every window and every routing.    *)
(***************************************************************************)
EXTENDS StreamProofs

\* No lane owes an ACK, one is there to carry it, and none of them is broken.
Quiet ==
    /\ ackDue = {}
    /\ \E l \in Lane : rLane[l] = "up"
    /\ \A l \in Lane : rLane[l] = "up" => up[l]

\* The frame f tells the sender that r bytes were consumed.
Tells(f, r) == (f.t = "ACK" /\ f.del = r) \/ (f.t # "ACK" /\ f.rx = r)

\* The frame f grants the right edge e.
Grants(f, e) == f.t = "ACK" /\ f.lim = e

\* A lane the receiver has taken, and whose carrier has not broken
Sound(l) == rLane[l] = "up" /\ up[l]

\* The current value is on its way: on a sound lane, for the JOIN of a lane that
\* the receiver is still dialing is lost with the lane and nothing owes it again.
AckOwed ==
    Quiet /\ sBase < rRead =>
        \E l \in Lane : Sound(l) /\ \E i \in 1..Len(back[l]) : Tells(back[l][i], rRead)

EdgeOwed ==
    Quiet /\ peerLimit < rightEdge =>
        \E l \in Lane : Sound(l) /\ \E i \in 1..Len(back[l]) : Grants(back[l][i], rightEdge)

\* A small window is seen (lowWin), and a window that is seen small is watched.
Watched ==
    /\ lowWin => armed
    /\ Quiet /\ rightEdge - rRead < Floor => lowWin

\* After Close everything held is consumed.
Drained == discard => rRead = rTail

\* A lane that was not dialed carries nothing and is nobody's.
Origin ==
    \A l \in Lane :
        /\ SenderDials /\ sLane[l] = "none" => fwd[l] = <<>> /\ rLane[l] # "up"
        /\ ~SenderDials /\ rLane[l] = "none" => back[l] = <<>> /\ sLane[l] # "up"

OwedInv == AckOwed /\ EdgeOwed /\ Watched /\ Drained /\ Origin

-----------------------------------------------------------------------------
LEMMA FloorFact == Floor \in Nat /\ Floor > 0
  BY ConstAssumption

LEMMA InitOwed == Init => OwedInv
  <1> SUFFICES ASSUME Init PROVE OwedInv
    OBVIOUS
  <1>1. ackDue # {}
    BY DEF Init
  <1>2. AckOwed /\ EdgeOwed /\ Watched
    BY <1>1, Zenon DEF AckOwed, EdgeOwed, Watched, Quiet, Init
  <1>3. Drained
    BY DEF Drained, Init
  <1>4. Origin
    BY DEF Origin, Init
  <1> QED
    BY <1>2, <1>3, <1>4 DEF OwedInv

\* A step that owes the ACK on every lane leaves nothing quiet.
LEMMA BumpIsLoud ==
    ASSUME ackDue' = Bump, rLane' = rLane
    PROVE  ~Quiet'
  BY Zenon DEF Quiet, Bump

\* A step of the sender, its application or its routing, which neither reads nor
\* writes what the receiver owes.
LEMMA SenderOwed ==
    ASSUME IInv, OwedInv,
           UNCHANGED <<sBase, peerLimit, recvVars, ackVars, up, back>>,
           \A l \in Lane : sLane'[l] = "none" => sLane[l] = "none" /\ fwd'[l] = fwd[l],
           \A l \in Lane : sLane'[l] = "up" => sLane[l] = "up"
    PROVE  OwedInv'
  <1> USE DEF OwedInv, recvVars, ackVars
  <1>1. AckOwed' /\ EdgeOwed' /\ Watched' /\ Drained'
    BY Zenon DEF AckOwed, EdgeOwed, Watched, Drained, Quiet, Sound
  <1>2. Origin'
    BY Zenon DEF Origin
  <1> QED
    BY <1>1, <1>2

\* A step of the receiver that consumes or looks at its window: it owes the ACK on
\* every lane, or it changes nothing that an ACK says.
LEMMA ReceiverOwed ==
    ASSUME IInv, OwedInv,
           UNCHANGED <<sBase, peerLimit, rightEdge, lowWin, rLane, sLane, up, back>>,
           ackDue' = Bump \/ UNCHANGED <<rRead, ackDue>>,
           lowWin => armed',
           discard' => rRead' = rTail',
           \A l \in Lane : fwd[l] = <<>> => fwd'[l] = <<>>
    PROVE  OwedInv'
  <1> USE DEF OwedInv
  <1>1. Drained' /\ (lowWin' => armed')
    BY Zenon DEF Drained
  <1>2. Origin'
    BY Zenon DEF Origin
  <1>3. CASE ackDue' = Bump
    <2>1. ~Quiet'
      BY <1>3, BumpIsLoud, Zenon
    <2> QED
      BY <1>1, <1>2, <2>1, Zenon DEF AckOwed, EdgeOwed, Watched
  <1>4. CASE UNCHANGED <<rRead, ackDue>>
    <2>1. AckOwed' /\ EdgeOwed'
      BY <1>4, Zenon DEF AckOwed, EdgeOwed, Quiet, Sound
    <2>2. Watched'
      BY <1>1, <1>4, Zenon DEF Watched, Quiet
    <2> QED
      BY <1>1, <1>2, <2>1, <2>2, Zenon
  <1> QED
    BY <1>3, <1>4, Zenon

-----------------------------------------------------------------------------
(* The steps that touch what is owed. *)

LEMMA AppOwed ==
    ASSUME IInv, OwedInv, App
    PROVE  OwedInv'
  <1>1. CASE (\E k \in 1..OffsetLimit : WriteReserve(k)) \/ WriteCommit \/ CloseWrite
    <2>1. UNCHANGED <<sendVars, routeVars, recvVars, ackVars, netVars>>
      BY <1>1, Zenon DEF WriteReserve, WriteCommit, CloseWrite
    <2> QED
      BY <2>1, SenderOwed, Zenon DEF sendVars, routeVars, netVars
  <1>2. CASE (\E k \in 1..OffsetLimit : Read(k)) \/ Close
    <2>1. UNCHANGED <<sendVars, rTail, rightEdge, lowWin, armed, rLane, routeVars, netVars>>
      BY <1>2, Zenon DEF Read, Close
    <2>2. ackDue' = Bump \/ UNCHANGED <<rRead, ackDue>>
      BY <1>2 DEF Read, Close, IInv, OrderInv, Shapes, Offset
    <2>3. discard' => rRead' = rTail'
      BY <1>2, <2>1, Zenon DEF Read, Close
    <2>4. lowWin => armed'
      BY <2>1, Zenon DEF OwedInv, Watched
    <2> QED
      BY <2>1, <2>2, <2>3, <2>4, ReceiverOwed, Zenon DEF sendVars, routeVars, netVars
  <1> QED
    BY <1>1, <1>2, Zenon DEF App

LEMMA SenderFillOwed ==
    ASSUME IInv, OwedInv, NEW l \in Lane, SenderFill(l)
    PROVE  OwedInv'
  <1>1. /\ UNCHANGED <<sBase, peerLimit, routeVars, recvVars, ackVars, up, back>>
        /\ sLane[l] = "up"
    BY Zenon DEF SenderFill, FillRescue, FillRetx, FillNew, FillFin, CarriesData, sendVars
  <1>2. \A k \in Lane \ {l} : fwd'[k] = fwd[k]
    BY DEF SenderFill, FillRescue, FillRetx, FillNew, FillFin, AddData, SendFwd, IInv, Wires
  <1>3. "up" # "none"
    OBVIOUS
  <1> QED
    BY <1>1, <1>2, <1>3, SenderOwed, Zenon DEF routeVars

LEMMA ActOwed ==
    ASSUME IInv, OwedInv, Act
    PROVE  OwedInv'
  <1>1. CASE \E holder \in Lane, n \in 1..SegMax : Rescue(holder, n)
    <2>1. UNCHANGED <<sendVars, routeVars, recvVars, ackVars, netVars>>
      BY <1>1, Zenon DEF Rescue
    <2> QED
      BY <2>1, SenderOwed, Zenon DEF sendVars, routeVars, netVars
  <1>2. CASE \E w \in Windows : Readvertise(w)
    <2>1. UNCHANGED <<sendVars, rRead, rTail, rightEdge, lowWin, discard, rLane, routeVars,
                      netVars>>
      BY <1>2, Zenon DEF Readvertise
    <2>2. ackDue' = Bump \/ UNCHANGED <<rRead, ackDue>>
      BY <1>2, <2>1, Zenon DEF Readvertise
    <2>3. discard' => rRead' = rTail'
      BY <2>1, Zenon DEF OwedInv, Drained
    <2>4. lowWin => armed'
      <3>1. armed' = lowWin
        BY <1>2, Zenon DEF Readvertise
      <3> QED
        BY <3>1
    <2> QED
      BY <2>1, <2>2, <2>3, <2>4, ReceiverOwed, Zenon DEF sendVars, routeVars, netVars
  <1>3. CASE \E S \in SUBSET Lane : Route(S)
    <2>1. UNCHANGED <<sBase, peerLimit, sLane, recvVars, ackVars, netVars>>
      BY <1>3, Zenon DEF Route, AdvanceAndRequeue
    <2> QED
      BY <2>1, SenderOwed, Zenon DEF netVars
  <1> QED
    BY <1>1, <1>2, <1>3, Zenon DEF Act

\* fillAckLocked places the current values; on a broken carrier the lane's death is
\* still to be handled.
LEMMA ReceiverFillOwed ==
    ASSUME IInv, OwedInv, NEW l \in Lane, ReceiverFill(l)
    PROVE  OwedInv'
  <1> PICK w \in Windows : FillAck(l, w)
    BY DEF ReceiverFill
  <1> DEFINE edge == IF rRead + w > rightEdge THEN rRead + w ELSE rightEdge
             f == CurrentAck(edge)
  <1>1. /\ UNCHANGED <<sendVars, routeVars, rRead, rTail, discard, rLane, up, fwd>>
        /\ rLane[l] = "up"
        /\ rightEdge' = edge /\ SendBack(l, f)
        /\ lowWin' = (edge - rRead < Floor)
        /\ armed' = (armed \/ (~lowWin /\ lowWin'))
    BY Zenon DEF FillAck
  <1>2. /\ f.t = "ACK" /\ f.del = rRead /\ f.lim = edge
    BY Zenon DEF CurrentAck
  <1> HIDE DEF f, edge
  <1>3. Tells(f, rRead) /\ Grants(f, edge)
    BY <1>2, Zenon DEF Tells, Grants
  <1>4. ASSUME up[l]
        PROVE  \E i \in 1..Len(back'[l]) : back'[l][i] = f
    <2>1. back' = [back EXCEPT ![l] = Append(@, f)]
      BY <1>1, <1>4, Zenon DEF SendBack
    <2>2. back'[l] = Append(back[l], f) /\ back[l] \in Seq(BackFrame)
      BY <2>1 DEF IInv, Wires
    <2>3. Len(back[l]) + 1 \in 1..Len(back'[l]) /\ back'[l][Len(back[l]) + 1] = f
      BY <2>2
    <2> QED
      BY <2>3, Zenon
  <1>5. Quiet' => up[l]
    BY <1>1, Zenon DEF Quiet
  <1>6. AckOwed' /\ EdgeOwed'
    BY <1>1, <1>3, <1>4, <1>5, Zenon DEF AckOwed, EdgeOwed, Sound
  <1>7. Watched'
    BY <1>1, Zenon DEF OwedInv, Watched
  <1>8. Drained'
    BY <1>1, Zenon DEF OwedInv, Drained
  <1>9. Origin'
    <2>1. \A k \in Lane \ {l} : back'[k] = back[k]
      BY <1>1 DEF SendBack, IInv, Wires
    <2>2. "up" # "none"
      OBVIOUS
    <2> QED
      BY <1>1, <2>1, <2>2, Zenon DEF OwedInv, Origin, routeVars
  <1> QED
    BY <1>6, <1>7, <1>8, <1>9 DEF OwedInv

-----------------------------------------------------------------------------
(* The readers. *)

LEMMA RecvFwdOwed ==
    ASSUME IInv, OwedInv, NEW l \in Lane,
           \/ \E tail \in rTail..rightEdge :
                  \E cut \in {c \in tail..rightEdge : MayDrop \/ c = tail} : RecvData(l, tail, cut)
           \/ RecvFin(l)
    PROVE  OwedInv'
  <1>1. /\ UNCHANGED <<sendVars, routeVars, rightEdge, lowWin, armed, discard, rLane, up, back>>
        /\ \E t : ReadFwd(l, t)
    BY Zenon DEF RecvData, PlaceData, RecvFin, recvVars, ackVars
  <1>2. \A k \in Lane : fwd[k] = <<>> => fwd'[k] = <<>>
    BY <1>1 DEF ReadFwd, Reads, IInv, Wires
  <1>3. /\ ackDue' = Bump \/ UNCHANGED <<rRead, ackDue>>
        /\ discard' => rRead' = rTail'
    <2>1. CASE RecvFin(l)
      BY <2>1, Zenon DEF RecvFin, OwedInv, Drained
    <2>2. ASSUME NEW tail \in rTail..rightEdge, NEW cut, RecvData(l, tail, cut)
          PROVE  <1>3!1 /\ <1>3!2
      <3>1. CASE UNCHANGED <<recvVars, ackVars>>
        BY <3>1, Zenon DEF recvVars, ackVars, OwedInv, Drained
      <3>2. CASE PlaceData(Head(fwd[l]), tail, cut)
        <4>1. /\ rTail' = tail /\ tail >= rTail
              /\ rRead' = IF discard THEN tail ELSE rRead
              /\ ackDue' = IF tail > rTail /\ (discard \/ ackOnData) THEN Bump ELSE ackDue
              /\ discard' = discard
          BY <3>2, Zenon DEF PlaceData
        <4>2. tail \in Nat /\ rTail \in Nat
          BY DEF IInv, Shapes, Offset
        <4>3. ~(tail > rTail) => tail = rTail
          BY <4>1, <4>2
        <4> QED
          BY <4>1, <4>3, Zenon DEF OwedInv, Drained
      <3> QED
        BY <2>2, <3>1, <3>2, Zenon DEF RecvData
    <2> QED
      BY <2>1, <2>2, Zenon
  <1>4. lowWin => armed'
    BY <1>1, Zenon DEF OwedInv, Watched
  <1> QED
    BY <1>1, <1>2, <1>3, <1>4, ReceiverOwed, Zenon DEF sendVars, routeVars

\* The sender hears the next frame of lane l: what it says is no longer owed.
LEMMA HeardOwed ==
    ASSUME IInv, OwedInv, NEW l \in Lane, NEW t, ReadBack(l, t),
           UNCHANGED <<recvVars, ackVars, up>>,
           sBase' \in Nat, sBase <= sBase', peerLimit' \in Nat, peerLimit <= peerLimit',
           Tells(Head(back[l]), rRead) => rRead <= sBase',
           Grants(Head(back[l]), rightEdge) => rightEdge <= peerLimit',
           \A k \in Lane : SenderDials /\ sLane'[k] = "none" => sLane[k] = "none" /\ fwd'[k] = fwd[k],
           \A k \in Lane : ~SenderDials /\ sLane'[k] = "up" => sLane[k] = "up" \/ k = l
    PROVE  OwedInv'
  <1> DEFINE h == Head(back[l])
  <1>1. /\ back[l] \in Seq(BackFrame) /\ back[l] # <<>>
        /\ back'[l] = Tail(back[l]) /\ \A k \in Lane \ {l} : back'[k] = back[k]
    BY DEF IInv, Wires, ReadBack, Reads
  <1>2. ASSUME NEW k \in Lane, NEW i \in 1..Len(back[k])
        PROVE  (k = l /\ back[k][i] = h) \/ \E j \in 1..Len(back'[k]) : back'[k][j] = back[k][i]
    <2>1. CASE k # l
      BY <1>1, <2>1, Zenon
    <2>2. CASE k = l /\ i = 1
      BY <1>1, <2>2
    <2>3. CASE k = l /\ i # 1
      <3>1. i - 1 \in 1..Len(back'[l]) /\ back'[l][i - 1] = back[l][i]
        BY <1>1, <2>3
      <3> QED
        BY <2>3, <3>1, Zenon
    <2> QED
      BY <2>1, <2>2, <2>3, Zenon
  <1>3. /\ sBase \in Nat /\ rRead \in Nat /\ peerLimit \in Nat /\ rightEdge \in Nat
        /\ sBase' < rRead => sBase < rRead /\ ~(rRead <= sBase')
        /\ peerLimit' < rightEdge => peerLimit < rightEdge /\ ~(rightEdge <= peerLimit')
    BY DEF IInv, Shapes, Offset
  <1> HIDE DEF h
  <1>4. (Tells(h, rRead) => rRead <= sBase') /\ (Grants(h, rightEdge) => rightEdge <= peerLimit')
    BY Zenon DEF h
  <1>5. Quiet' => Quiet
    BY Zenon DEF Quiet, ackVars
  <1>6. AckOwed'
    <2> SUFFICES ASSUME Quiet', sBase' < rRead
                 PROVE  \E k \in Lane : Sound(k) /\ \E j \in 1..Len(back'[k]) : Tells(back'[k][j], rRead)
      BY Zenon DEF AckOwed, Sound, recvVars, ackVars
    <2>1. PICK k \in Lane : Sound(k) /\ \E i \in 1..Len(back[k]) : Tells(back[k][i], rRead)
      BY <1>3, <1>5, Zenon DEF OwedInv, AckOwed
    <2>2. PICK i \in 1..Len(back[k]) : Tells(back[k][i], rRead)
      BY <2>1, Zenon
    <2>3. back[k][i] # h
      BY <1>3, <1>4, <2>2, Zenon
    <2> QED
      BY <1>2, <2>1, <2>2, <2>3, Zenon
  <1>7. EdgeOwed'
    <2> SUFFICES ASSUME Quiet', peerLimit' < rightEdge
                 PROVE  \E k \in Lane : Sound(k) /\ \E j \in 1..Len(back'[k]) : Grants(back'[k][j], rightEdge)
      BY Zenon DEF EdgeOwed, Sound, recvVars, ackVars
    <2>1. PICK k \in Lane : Sound(k) /\ \E i \in 1..Len(back[k]) : Grants(back[k][i], rightEdge)
      BY <1>3, <1>5, Zenon DEF OwedInv, EdgeOwed
    <2>2. PICK i \in 1..Len(back[k]) : Grants(back[k][i], rightEdge)
      BY <2>1, Zenon
    <2>3. back[k][i] # h
      BY <1>3, <1>4, <2>2, Zenon
    <2> QED
      BY <1>2, <2>1, <2>2, <2>3, Zenon
  <1>8. Watched' /\ Drained'
    BY <1>5, Zenon DEF OwedInv, Watched, Drained, recvVars
  <1>9. Origin'
    BY <1>1, Zenon DEF OwedInv, Origin, ackVars
  <1> QED
    BY <1>6, <1>7, <1>8, <1>9 DEF OwedInv

LEMMA RecvAckOwed ==
    ASSUME IInv, IInv', OwedInv, NEW l \in Lane, RecvAck(l)
    PROVE  OwedInv'
  <1> DEFINE f == Head(back[l])
             to == IF f.del > sBase THEN f.del ELSE sBase
  <1>1. /\ ReadBack(l, "ACK") /\ ApplyAck(l, f)
        /\ UNCHANGED <<routeVars, recvVars, ackVars, up, fwd>>
    BY DEF RecvAck, IInv, NoViolation
  <1>2. f.t = "ACK" /\ f \in BackFrame
    BY <1>1, TakenBack DEF IInv
  <1>3. f.del \in Nat /\ f.lim \in Nat
    BY <1>2 DEF BackFrame, Offset
  <1>4. sBase' = to /\ peerLimit' = IF f.lim > peerLimit THEN f.lim ELSE peerLimit
    BY <1>1 DEF ApplyAck, AdvanceAndRequeue
  <1> HIDE DEF f
  <1>5. /\ sBase' \in Nat /\ sBase <= sBase' /\ f.del <= sBase'
        /\ peerLimit' \in Nat /\ peerLimit <= peerLimit' /\ f.lim <= peerLimit'
    BY <1>3, <1>4 DEF IInv, Shapes, Offset
  <1>6. (Tells(f, rRead) => rRead <= sBase') /\ (Grants(f, rightEdge) => rightEdge <= peerLimit')
    BY <1>2, <1>5, Zenon DEF Tells, Grants
  <1> QED
    BY <1>1, <1>5, <1>6, HeardOwed, Zenon DEF routeVars, f

-----------------------------------------------------------------------------
(* The lanes. *)

\* The receiver takes lane l: the ACK is owed on it.
LEMMA GainsOwed ==
    ASSUME IInv, OwedInv, NEW l \in Lane, ReceiverGains(l),
           UNCHANGED <<recvVars, sLane>>,
           SenderDials => sLane[l] # "none",
           \A k \in Lane : SenderDials /\ fwd[k] = <<>> => fwd'[k] = <<>>,
           \A k \in Lane : ~SenderDials => back'[k] = back[k]
    PROVE  OwedInv'
  <1>1. l \in ackDue' /\ rLane'[l] = "up" /\ \A k \in Lane \ {l} : rLane'[k] = rLane[k]
    BY DEF ReceiverGains, IInv, Shapes
  <1>2. ~Quiet'
    BY <1>1, Zenon DEF Quiet
  <1>3. AckOwed' /\ EdgeOwed' /\ Watched' /\ Drained'
    BY <1>2, Zenon DEF OwedInv, AckOwed, EdgeOwed, Watched, Drained, recvVars
  <1>4. "up" # "none"
    OBVIOUS
  <1>5. Origin'
    BY <1>1, <1>4, Zenon DEF OwedInv, Origin
  <1> QED
    BY <1>3, <1>5 DEF OwedInv

\* The peer's rxNext on lane l is applied.
LEMMA RxOwed ==
    ASSUME IInv, IInv', OwedInv, NEW l \in Lane, NEW t, t # "ACK", NEW switch,
           ReadBack(l, t), SenderGains(l, Head(back[l]).rx, switch),
           UNCHANGED <<recvVars, ackVars, up>>, SenderDials => UNCHANGED fwd
    PROVE  OwedInv'
  <1> DEFINE f == Head(back[l])
             to == IF f.rx > sBase THEN f.rx ELSE sBase
  <1>1. f.t = t /\ f \in BackFrame
    BY TakenBack DEF IInv
  <1>2. f.rx \in Nat /\ f.t # "ACK"
    BY <1>1 DEF BackFrame, Offset
  <1>3. /\ sBase' = to /\ peerLimit' = peerLimit
        /\ sLane' = [sLane EXCEPT ![l] = "up"]
    BY DEF SenderGains, AdvanceAndRequeue, IInv, NoViolation
  <1> HIDE DEF f
  <1>4. sBase' \in Nat /\ sBase <= sBase' /\ f.rx <= sBase'
    BY <1>2, <1>3 DEF IInv, Shapes, Offset
  <1>5. peerLimit' \in Nat /\ peerLimit <= peerLimit'
    BY <1>3 DEF IInv, Shapes, Offset
  <1>6. (Tells(f, rRead) => rRead <= sBase') /\ (Grants(f, rightEdge) => rightEdge <= peerLimit')
    BY <1>2, <1>4, Zenon DEF Tells, Grants
  <1>7. sLane'[l] = "up" /\ "up" # "none" /\ \A k \in Lane \ {l} : sLane'[k] = sLane[k]
    BY <1>3 DEF IInv, Shapes
  <1>8. /\ \A k \in Lane : SenderDials /\ sLane'[k] = "none" => sLane[k] = "none" /\ fwd'[k] = fwd[k]
        /\ \A k \in Lane : ~SenderDials /\ sLane'[k] = "up" => sLane[k] = "up" \/ k = l
    BY <1>7, Zenon
  <1> QED
    BY <1>4, <1>5, <1>6, <1>8, HeardOwed, Zenon DEF f

LEMMA AdoptOwed ==
    ASSUME IInv, IInv', OwedInv, NEW l \in Lane, Adopt(l)
    PROVE  OwedInv'
  <1>1. UNCHANGED <<recvVars, up>>
    BY Zenon DEF Adopt
  <1>2. CASE SenderDials
    <2>1. /\ ReadFwd(l, "JOIN") /\ ReceiverGains(l) /\ UNCHANGED routeVars
      BY <1>2, Zenon DEF Adopt
    <2>2. fwd[l] # <<>> /\ \A k \in Lane : fwd[k] = <<>> => fwd'[k] = <<>>
      BY <2>1 DEF ReadFwd, Reads, IInv, Wires
    <2>3. sLane[l] # "none"
      BY <1>2, <2>2, Zenon DEF OwedInv, Origin
    <2> QED
      BY <1>1, <1>2, <2>1, <2>2, <2>3, GainsOwed, Zenon DEF routeVars
  <1>3. CASE ~SenderDials
    <2>1. ReadBack(l, "JOIN") /\ SenderGains(l, Head(back[l]).rx, FALSE) /\ UNCHANGED ackVars
      BY <1>3, Zenon DEF Adopt
    <2>2. "JOIN" # "ACK"
      OBVIOUS
    <2> QED
      BY <1>1, <1>3, <2>1, <2>2, RxOwed, Zenon
  <1> QED
    BY <1>2, <1>3, Zenon

LEMMA AttachOwed ==
    ASSUME IInv, IInv', OwedInv, NEW l \in Lane, NEW switch, Attach(l, switch)
    PROVE  OwedInv'
  <1>1. UNCHANGED <<recvVars, up>>
    BY Zenon DEF Attach
  <1>2. CASE ~SenderDials
    <2>1. ReceiverGains(l) /\ UNCHANGED <<routeVars, back>>
      BY <1>2, Zenon DEF Attach
    <2> QED
      BY <1>1, <1>2, <2>1, GainsOwed, Zenon DEF routeVars
  <1>3. CASE SenderDials
    <2>1. /\ ReadBack(l, "JOIN_ACK") /\ SenderGains(l, Head(back[l]).rx, switch)
          /\ UNCHANGED <<ackVars, fwd>>
      BY <1>3, Zenon DEF Attach
    <2>2. "JOIN_ACK" # "ACK"
      OBVIOUS
    <2> QED
      BY <1>1, <1>3, <2>1, <2>2, RxOwed, Zenon
  <1> QED
    BY <1>2, <1>3, Zenon

\* A lane that the receiver has not taken starts, breaks or fails.
LEMMA OutsideOwed ==
    ASSUME IInv, OwedInv, NEW l \in Lane,
           UNCHANGED <<sBase, peerLimit, recvVars, ackDue>>,
           \A k \in Lane : rLane'[k] = "up" <=> rLane[k] = "up",
           \A k \in Lane \ {l} : up'[k] = up[k],
           Quiet' => rLane[l] # "up" \/ up'[l] = up[l],
           \A k \in Lane : Sound(k) /\ k # l => back'[k] = back[k],
           Quiet' /\ Sound(l) => back'[l] = back[l],
           Origin'
    PROVE  OwedInv'
  <1>1. Quiet' => Quiet /\ \A k \in Lane : Sound(k) => Sound(k)' /\ back'[k] = back[k]
    BY Zenon DEF Quiet, Sound
  <1>2. AckOwed' /\ EdgeOwed'
    BY <1>1, Zenon DEF OwedInv, AckOwed, EdgeOwed, recvVars
  <1>3. Watched' /\ Drained'
    BY <1>1, Zenon DEF OwedInv, Watched, Drained, recvVars
  <1> QED
    BY <1>2, <1>3 DEF OwedInv

LEMMA JoinOwed ==
    ASSUME IInv, OwedInv, NEW l \in Lane, Join(l)
    PROVE  OwedInv'
  <1>1. UNCHANGED <<sendVars, recvVars, ackDue>>
    BY Zenon DEF Join
  <1>2. \A k \in Lane \ {l} : up'[k] = up[k]
    BY DEF Join, IInv, Flags
  <1>3. CASE SenderDials
    <2>1. /\ sLane[l] = "none" /\ UNCHANGED <<back, rLane>>
          /\ sLane' = [sLane EXCEPT ![l] = "joining"]
          /\ fwd' = [fwd EXCEPT ![l] = <<[t |-> "JOIN"]>>]
      BY <1>3, Zenon DEF Join
    <2>2. rLane[l] # "up"
      BY <1>3, <2>1, Zenon DEF OwedInv, Origin
    <2>3. /\ sLane'[l] # "none"
          /\ \A k \in Lane \ {l} : sLane'[k] = sLane[k] /\ fwd'[k] = fwd[k]
      BY <2>1 DEF IInv, Shapes, Wires
    <2>4. Origin'
      BY <1>3, <2>1, <2>3, Zenon DEF OwedInv, Origin
    <2> QED
      BY <1>1, <1>2, <2>1, <2>2, <2>4, OutsideOwed, Zenon DEF sendVars
  <1>4. CASE ~SenderDials
    <2>1. /\ rLane[l] = "none" /\ UNCHANGED <<fwd, sLane>>
          /\ rLane' = [rLane EXCEPT ![l] = "joining"]
          /\ back' = [back EXCEPT ![l] = <<[t |-> "JOIN", rx |-> rRead]>>]
      BY <1>4, Zenon DEF Join
    <2>2. /\ rLane'[l] # "none" /\ rLane'[l] # "up" /\ rLane[l] # "up"
          /\ \A k \in Lane \ {l} : rLane'[k] = rLane[k] /\ back'[k] = back[k]
      BY <2>1 DEF IInv, Shapes, Wires
    <2>3. Origin'
      BY <1>4, <2>1, <2>2, Zenon DEF OwedInv, Origin
    <2>4. ~Sound(l)
      BY <2>2 DEF Sound
    <2> QED
      BY <1>1, <1>2, <2>2, <2>3, <2>4, OutsideOwed, Zenon DEF sendVars
  <1> QED
    BY <1>3, <1>4, Zenon

LEMMA BreakOwed ==
    ASSUME IInv, OwedInv, NEW l \in Lane, Break(l)
    PROVE  OwedInv'
  <1>1. UNCHANGED <<sendVars, routeVars, recvVars, ackVars, fwd, back>>
    BY Zenon DEF Break
  <1>2. /\ \A k \in Lane \ {l} : up'[k] = up[k]
        /\ ~up'[l]
    BY DEF Break, IInv, Flags
  <1>3. Origin'
    BY <1>1, Zenon DEF OwedInv, Origin, routeVars, ackVars
  <1>4. Quiet' => rLane[l] # "up"
    BY <1>1, <1>2, Zenon DEF Quiet, ackVars
  <1> QED
    BY <1>1, <1>2, <1>3, <1>4, OutsideOwed, Zenon DEF sendVars, ackVars

LEMMA AttemptFailedOwed ==
    ASSUME IInv, OwedInv, NEW l \in Lane, AttemptFailed(l)
    PROVE  OwedInv'
  <1>1. UNCHANGED <<sendVars, recvVars, ackDue, up>> /\ ~up[l]
    BY Zenon DEF AttemptFailed
  <1>2. ~Sound(l)
    BY <1>1, Zenon DEF Sound
  <1>3. CASE /\ sLane[l] = "joining" /\ sLane' = [sLane EXCEPT ![l] = "dead"]
             /\ back' = [back EXCEPT ![l] = <<>>] /\ UNCHANGED <<rLane, fwd>>
    <2>1. /\ sLane'[l] # "none" /\ sLane'[l] # "up" /\ back'[l] = <<>>
          /\ \A k \in Lane \ {l} : sLane'[k] = sLane[k] /\ back'[k] = back[k]
      BY <1>3 DEF IInv, Shapes, Wires
    <2>2. Origin'
      BY <1>3, <2>1, Zenon DEF OwedInv, Origin
    <2> QED
      BY <1>1, <1>2, <1>3, <2>1, <2>2, OutsideOwed, Zenon DEF sendVars
  <1>4. CASE /\ rLane[l] = "joining" /\ rLane' = [rLane EXCEPT ![l] = "dead"]
             /\ fwd' = [fwd EXCEPT ![l] = <<>>] /\ UNCHANGED <<sLane, back>>
    <2>1. /\ rLane'[l] # "none" /\ rLane'[l] # "up" /\ rLane[l] # "up" /\ fwd'[l] = <<>>
          /\ \A k \in Lane \ {l} : rLane'[k] = rLane[k] /\ fwd'[k] = fwd[k]
      BY <1>4 DEF IInv, Shapes, Wires
    <2>2. Origin'
      BY <1>4, <2>1, Zenon DEF OwedInv, Origin
    <2> QED
      BY <1>1, <1>2, <1>4, <2>1, <2>2, OutsideOwed, Zenon DEF sendVars
  <1> QED
    BY <1>3, <1>4, Zenon DEF AttemptFailed

LEMMA SenderReapsOwed ==
    ASSUME IInv, OwedInv, NEW l \in Lane, NEW fb, SenderReaps(l, fb)
    PROVE  OwedInv'
  <1>1. UNCHANGED <<sBase, peerLimit, recvVars, ackVars, netVars>>
    BY Zenon DEF SenderReaps, AdvanceAndRequeue
  <1>2. /\ sLane'[l] # "none" /\ sLane'[l] # "up"
        /\ \A k \in Lane \ {l} : sLane'[k] = sLane[k]
    BY DEF SenderReaps, IInv, Shapes
  <1> QED
    BY <1>1, <1>2, SenderOwed, Zenon DEF netVars

\* laneDiedLocked owes the ACK again on every lane that remains.
LEMMA ReceiverReapsOwed ==
    ASSUME IInv, OwedInv, NEW l \in Lane, ReceiverReaps(l)
    PROVE  OwedInv'
  <1>1. /\ rLane[l] = "up" /\ ackDue' = Bump \ {l}
        /\ UNCHANGED <<sendVars, routeVars, recvVars, netVars>>
    BY Zenon DEF ReceiverReaps
  <1>2. /\ rLane'[l] # "none" /\ rLane'[l] # "up" /\ \A k \in Lane \ {l} : rLane'[k] = rLane[k]
    BY DEF ReceiverReaps, IInv, Shapes
  <1>3. ~Quiet'
    BY <1>1, <1>2, Zenon DEF Quiet, Bump
  <1>4. AckOwed' /\ EdgeOwed' /\ Watched' /\ Drained'
    BY <1>1, <1>3, Zenon DEF OwedInv, AckOwed, EdgeOwed, Watched, Drained, recvVars
  <1>5. Origin'
    BY <1>1, <1>2, Zenon DEF OwedInv, Origin, netVars, routeVars
  <1> QED
    BY <1>4, <1>5 DEF OwedInv

LEMMA StepOwed == IInv /\ OwedInv /\ [Next]_vars => OwedInv'
  <1> SUFFICES ASSUME IInv, OwedInv, [Next]_vars PROVE OwedInv'
    OBVIOUS
  <1>0. IInv'
    BY NextIInv, Zenon
  <1>1. CASE App
    BY <1>1, AppOwed, Zenon
  <1>2. CASE Act
    BY <1>2, ActOwed, Zenon
  <1>3. ASSUME NEW l \in Lane, SenderFill(l) \/ ReceiverFill(l) PROVE OwedInv'
    BY <1>3, SenderFillOwed, ReceiverFillOwed, Zenon
  <1>4. ASSUME NEW l \in Lane, Recv(l) PROVE OwedInv'
    BY <1>0, <1>4, RecvFwdOwed, RecvAckOwed, Zenon DEF Recv
  <1>5. ASSUME NEW l \in Lane, Carrier(l) PROVE OwedInv'
    BY <1>0, <1>5, JoinOwed, AdoptOwed, AttachOwed, BreakOwed, AttemptFailedOwed,
       SenderReapsOwed, ReceiverReapsOwed, Zenon DEF Carrier
  <1>6. CASE UNCHANGED vars
    BY <1>6, SenderOwed, Zenon DEF vars, sendVars, routeVars, netVars
  <1> QED
    BY <1>1, <1>2, <1>3, <1>4, <1>5, <1>6, Zenon DEF Next

LEMMA OwedAlways == Spec => [](IInv /\ OwedInv)
  <1>1. Init => IInv /\ OwedInv
    BY InitIInv, InitOwed
  <1>2. IInv /\ OwedInv /\ [Next]_vars => (IInv /\ OwedInv)'
    BY NextIInv, StepOwed, Zenon
  <1> QED
    BY <1>1, <1>2, PTL DEF Spec

\* laneGoneLocked and laneAddedLocked: an ACK is never lost, however many lanes there
\* are and whichever of them break: what the application consumed is owed or on its
\* way until the sender knows.
THEOREM AckNotLostHolds == Spec => []AckNotLost
  <1>1. IInv /\ OwedInv => AckNotLost
    <2> SUFFICES ASSUME IInv, OwedInv, sBase < rRead, ackDue = {},
                        ~ \E l \in Lane : rLane[l] = "up" /\ ~up[l],
                        ~ \A l \in Lane : rLane[l] # "up"
                 PROVE  \E l \in Lane : \E i \in DOMAIN back[l] :
                            /\ up[l]
                            /\ rRead = IF back[l][i].t = "ACK" THEN back[l][i].del ELSE back[l][i].rx
      BY Zenon DEF AckNotLost
    <2>1. Quiet
      BY Zenon DEF Quiet
    <2>2. PICK l \in Lane : Sound(l) /\ \E i \in 1..Len(back[l]) : Tells(back[l][i], rRead)
      BY <2>1, Zenon DEF OwedInv, AckOwed
    <2>3. PICK i \in 1..Len(back[l]) : Tells(back[l][i], rRead)
      BY <2>2, Zenon
    <2>4. i \in DOMAIN back[l]
      BY DEF IInv, Wires
    <2>5. rRead = IF back[l][i].t = "ACK" THEN back[l][i].del ELSE back[l][i].rx
      BY <2>3 DEF Tells
    <2> QED
      BY <2>2, <2>4, <2>5, Zenon DEF Sound
  <1> QED
    BY <1>1, OwedAlways, PTL

\* readvertiseLocked: the sender is never left at window 0 with nothing to wake either
\* side, for every window, every floor and any number of lanes.
THEOREM NoWindowStallHolds == Spec => []NoWindowStall
  <1>1. IInv /\ OwedInv => NoWindowStall
    <2> SUFFICES ASSUME IInv, OwedInv, rRead = sNext, peerLimit = sNext, ~armed, ackDue = {},
                        ~ \E l \in Lane : rLane[l] = "up" /\ ~up[l],
                        ~ \A l \in Lane : rLane[l] # "up"
                 PROVE  \E l \in Lane : \E i \in DOMAIN back[l] :
                            up[l] /\ back[l][i].t = "ACK" /\ back[l][i].lim > peerLimit
      BY Zenon DEF NoWindowStall
    <2>1. Quiet
      BY Zenon DEF Quiet
    <2>2. ~(rightEdge - rRead < Floor)
      BY <2>1, Zenon DEF OwedInv, Watched
    <2>3. peerLimit < rightEdge /\ rightEdge > peerLimit
      BY <2>2, FloorFact DEF IInv, Shapes, Offset
    <2>4. PICK l \in Lane : Sound(l) /\ \E i \in 1..Len(back[l]) : Grants(back[l][i], rightEdge)
      BY <2>1, <2>3, Zenon DEF OwedInv, EdgeOwed
    <2>5. PICK i \in 1..Len(back[l]) : Grants(back[l][i], rightEdge)
      BY <2>4, Zenon
    <2>6. i \in DOMAIN back[l]
      BY DEF IInv, Wires
    <2> QED
      BY <2>3, <2>4, <2>5, <2>6, Zenon DEF Sound, Grants
  <1> QED
    BY <1>1, OwedAlways, PTL

-----------------------------------------------------------------------------
(* Selector routing.  One lane carries DATA and holds everything in flight *)
(* (OneLane); in the queue of every lane, broken ones included, a byte     *)
(* comes after every byte below it that is still missing (Ordered).        *)

Covers(f, x) == f.t = "DATA" /\ f.off <= x /\ x < f.off + f.n

\* The byte x was received (everything below r was), or is in the queue q.
Reaches(q, r, x) == x < r \/ \E j \in 1..Len(q) : Covers(q[j], x)

Ordered(q, r) ==
    \A i \in 1..Len(q) :
        q[i].t = "DATA" => \A x \in Nat : x < q[i].off =>
                               x < r \/ \E j \in 1..(i - 1) : Covers(q[j], x)

\* Bytes in flight on a lane that has not broken arrive.
Flying(l) == up[l] => \A x \in infl[l] : Reaches(fwd[l], rTail, x)

OneLane ==
    /\ \A k, l \in data : k = l
    /\ \A l \in Lane \ data : infl[l] = {}

InOrder ==
    /\ ooq = {} /\ rescue.n = 0 /\ OneLane
    /\ \A l \in Lane : Ordered(fwd[l], rTail) /\ Flying(l)

LEMMA OrderedAppend ==
    ASSUME NEW q \in Seq(FwdFrame), NEW f \in FwdFrame, NEW r \in Nat, Ordered(q, r),
           f.t = "DATA" => \A x \in Nat : x < f.off => Reaches(q, r, x)
    PROVE  Ordered(Append(q, f), r)
  <1> DEFINE p == Append(q, f)
  <1>1. /\ Len(p) = Len(q) + 1 /\ Len(q) \in Nat /\ p[Len(q) + 1] = f
        /\ \A i \in 1..Len(q) : p[i] = q[i]
    OBVIOUS
  <1> HIDE DEF p
  <1> SUFFICES ASSUME NEW i \in 1..Len(p), p[i].t = "DATA", NEW x \in Nat, x < p[i].off, ~(x < r)
               PROVE  \E j \in 1..(i - 1) : Covers(p[j], x)
    BY Zenon DEF Ordered, p
  <1>2. CASE i \in 1..Len(q)
    <2>1. PICK j \in 1..(i - 1) : Covers(q[j], x)
      BY <1>1, <1>2, Zenon DEF Ordered
    <2>2. j \in 1..Len(q)
      BY <1>1, <1>2
    <2> QED
      BY <1>1, <2>1, <2>2, Zenon
  <1>3. CASE i = Len(q) + 1
    <2>1. PICK j \in 1..Len(q) : Covers(q[j], x)
      BY <1>1, <1>3, Zenon DEF Reaches
    <2>2. j \in 1..(i - 1)
      BY <1>1, <1>3
    <2> QED
      BY <1>1, <2>1, <2>2, Zenon
  <1> QED
    BY <1>1, <1>2, <1>3

LEMMA ReachesAppend ==
    ASSUME NEW q \in Seq(FwdFrame), NEW f \in FwdFrame, NEW r, NEW x,
           Reaches(q, r, x) \/ Covers(f, x)
    PROVE  Reaches(Append(q, f), r, x)
  <1> DEFINE p == Append(q, f)
  <1>1. /\ Len(q) + 1 \in 1..Len(p) /\ p[Len(q) + 1] = f
        /\ \A i \in 1..Len(q) : i \in 1..Len(p) /\ p[i] = q[i]
    OBVIOUS
  <1> HIDE DEF p
  <1>2. Reaches(p, r, x)
    BY <1>1, Zenon DEF Reaches
  <1> QED
    BY <1>2 DEF p

LEMMA OrderedGrows ==
    ASSUME NEW q, NEW r \in Nat, NEW r2 \in Nat, r <= r2, Ordered(q, r)
    PROVE  Ordered(q, r2) /\ \A x \in Nat : Reaches(q, r, x) => Reaches(q, r2, x)
  <1>1. \A x \in Nat : x < r => x < r2
    OBVIOUS
  <1> QED
    BY <1>1, Zenon DEF Ordered, Reaches

\* The head is received: everything it covers is below r2.
LEMMA OrderedTail ==
    ASSUME NEW q \in Seq(FwdFrame), q # <<>>, NEW r \in Nat, NEW r2 \in Nat, r <= r2,
           Ordered(q, r), \A x \in Nat : Covers(Head(q), x) => x < r2
    PROVE  /\ Ordered(Tail(q), r2)
           /\ \A x \in Nat : Reaches(q, r, x) => Reaches(Tail(q), r2, x)
  <1> DEFINE p == Tail(q)
  <1>1. /\ Len(q) \in Nat /\ Len(p) = Len(q) - 1 /\ Head(q) = q[1]
        /\ \A i \in 1..Len(p) : p[i] = q[i + 1]
    OBVIOUS
  <1> HIDE DEF p
  <1>2. \A x \in Nat : x < r => x < r2
    OBVIOUS
  <1>3. ASSUME NEW n \in 0..Len(p), NEW x \in Nat, ~(x < r2), NEW j \in 1..(n + 1), Covers(q[j], x)
        PROVE  \E k \in 1..n : Covers(p[k], x)
    <2>1. j # 1
      BY <1>1, <1>3, Zenon
    <2>2. j - 1 \in 1..n /\ j - 1 \in 1..Len(p) /\ (j - 1) + 1 = j
      BY <1>1, <2>1
    <2>3. p[j - 1] = q[j]
      BY <1>1, <2>2
    <2> QED
      BY <1>3, <2>2, <2>3, Zenon
  <1>4. Ordered(p, r2)
    <2> SUFFICES ASSUME NEW i \in 1..Len(p), p[i].t = "DATA", NEW x \in Nat, x < p[i].off, ~(x < r2)
                 PROVE  \E j \in 1..(i - 1) : Covers(p[j], x)
      BY Zenon DEF Ordered
    <2>1. i + 1 \in 1..Len(q) /\ p[i] = q[i + 1] /\ i - 1 \in 0..Len(p) /\ (i + 1) - 1 = (i - 1) + 1
      BY <1>1
    <2>2. PICK j \in 1..((i + 1) - 1) : Covers(q[j], x)
      BY <1>2, <2>1, Zenon DEF Ordered
    <2> QED
      BY <1>3, <2>1, <2>2, Zenon
  <1>5. ASSUME NEW x \in Nat, Reaches(q, r, x) PROVE Reaches(p, r2, x)
    <2>1. Len(p) \in 0..Len(p) /\ Len(q) = Len(p) + 1
      <3>1. Len(q) > 0
        OBVIOUS
      <3> QED
        BY <1>1, <3>1
    <2> QED
      BY <1>2, <1>3, <1>5, <2>1, Zenon DEF Reaches
  <1> QED
    BY <1>4, <1>5 DEF p

-----------------------------------------------------------------------------
(* The steps under selector routing. *)

\* What a lane's queue still brings (Brings) after a step that receives no byte.
Brings(l) ==
    /\ Ordered(fwd'[l], rTail)
    /\ \/ infl'[l] = {}
       \/ ~up'[l]
       \/ up[l] /\ \A x \in Nat : Reaches(fwd[l], rTail, x) => Reaches(fwd'[l], rTail, x)

LEMMA BringsInOrder ==
    ASSUME IInv, InOrder, rTail' = rTail, ooq' = ooq, rescue'.n = 0, OneLane',
           \A l \in Lane : infl'[l] \subseteq infl[l],
           \A l \in Lane : Brings(l)
    PROVE  InOrder'
  <1>1. ASSUME NEW l \in Lane PROVE Ordered(fwd'[l], rTail') /\ Flying(l)'
    <2>1. infl[l] \subseteq Nat
      BY DEF IInv, Shapes, Offset
    <2>2. ASSUME up'[l], NEW x \in infl'[l] PROVE Reaches(fwd'[l], rTail', x)
      <3>1. x \in infl[l] /\ x \in Nat
        BY <2>1, <2>2, Zenon
      <3> QED
        BY <2>2, <3>1, Zenon DEF InOrder, Flying, Brings
    <2> QED
      BY <2>2, Zenon DEF Flying, Brings
  <1> QED
    BY <1>1, Zenon DEF InOrder

\* A queue that is left alone, on a lane that did not come up.
LEMMA BringsSame ==
    ASSUME InOrder, NEW l \in Lane, fwd'[l] = fwd[l], up'[l] => up[l]
    PROVE  Brings(l)
  BY Zenon DEF Brings, InOrder

\* A control frame is appended.
LEMMA BringsAppend ==
    ASSUME IInv, InOrder, NEW l \in Lane, NEW f \in FwdFrame, f.t # "DATA", SendFwd(l, f),
           up' = up
    PROVE  \A k \in Lane : Brings(k)
  <1>1. CASE ~up[l]
    BY <1>1, BringsSame, Zenon DEF SendFwd
  <1>2. CASE up[l]
    <2>1. fwd' = [fwd EXCEPT ![l] = Append(@, f)]
      BY <1>2, Zenon DEF SendFwd
    <2>2. /\ fwd'[l] = Append(fwd[l], f) /\ fwd[l] \in Seq(FwdFrame) /\ rTail \in Nat
          /\ \A k \in Lane \ {l} : fwd'[k] = fwd[k]
      BY <2>1 DEF IInv, Wires, Shapes, Offset
    <2>3. Ordered(Append(fwd[l], f), rTail)
      BY <2>2, OrderedAppend, Zenon DEF InOrder
    <2>4. \A x \in Nat : Reaches(fwd[l], rTail, x) => Reaches(Append(fwd[l], f), rTail, x)
      BY <2>2, ReachesAppend, Zenon
    <2>5. Brings(l)
      BY <1>2, <2>2, <2>3, <2>4, Zenon DEF Brings
    <2> QED
      BY <2>2, <2>5, BringsSame, Zenon
  <1> QED
    BY <1>1, <1>2, Zenon

\* A control frame is read.
LEMMA BringsTail ==
    ASSUME IInv, InOrder, NEW l \in Lane, NEW t, t # "DATA", ReadFwd(l, t), up' = up
    PROVE  \A k \in Lane : Brings(k)
  <1>1. /\ fwd[l] \in Seq(FwdFrame) /\ fwd[l] # <<>> /\ Head(fwd[l]).t = t
        /\ fwd'[l] = Tail(fwd[l]) /\ rTail \in Nat /\ rTail <= rTail
        /\ \A k \in Lane \ {l} : fwd'[k] = fwd[k]
    BY DEF IInv, Wires, ReadFwd, Reads, Shapes, Offset
  <1>2. \A x \in Nat : Covers(Head(fwd[l]), x) => x < rTail
    BY <1>1, Zenon DEF Covers
  <1>3. /\ Ordered(Tail(fwd[l]), rTail)
        /\ \A x \in Nat : Reaches(fwd[l], rTail, x) => Reaches(Tail(fwd[l]), rTail, x)
    BY <1>1, <1>2, OrderedTail, Zenon DEF InOrder
  <1>4. Brings(l)
    BY <1>1, <1>3, Zenon DEF Brings, InOrder
  <1> QED
    BY <1>1, <1>4, BringsSame, Zenon

\* A step that leaves the queues alone.
LEMMA SameInOrder ==
    ASSUME IInv, InOrder, UNCHANGED <<rTail, ooq, fwd>>, rescue'.n = 0, OneLane',
           \A l \in Lane : infl'[l] \subseteq infl[l],
           \A l \in Lane : up'[l] => up[l]
    PROVE  InOrder'
  <1>1. \A l \in Lane : Brings(l)
    BY BringsSame, Zenon
  <1> QED
    BY <1>1, BringsInOrder, Zenon

\* advanceSendLocked and requeueLocked only take bytes out of flight.
LEMMA AdvanceOneLane ==
    ASSUME IInv, OneLane, NEW to, NEW S, AdvanceAndRequeue(to, S)
    PROVE  /\ \A l \in Lane : infl'[l] \subseteq infl[l]
           /\ \A l \in Lane : l \in S \/ infl[l] = {} => infl'[l] = {}
  <1>1. infl' = [l \in Lane |-> IF l \in S THEN {} ELSE {x \in infl[l] : x >= to}]
    BY Zenon DEF AdvanceAndRequeue
  <1> QED
    BY <1>1

LEMMA AppInOrder ==
    ASSUME IInv, InOrder, App
    PROVE  InOrder'
  <1>1. UNCHANGED <<sendVars, rescueVars, routeVars, rTail, ooq, netVars>>
    BY Zenon DEF App, WriteReserve, WriteCommit, CloseWrite, Read, Close, recvVars
  <1> QED
    BY <1>1, SameInOrder, Zenon DEF sendVars, rescueVars, routeVars, netVars, InOrder, OneLane

LEMMA ActInOrder ==
    ASSUME ~Bond, IInv, InOrder, Act
    PROVE  InOrder'
  <1>1. CASE \E holder \in Lane, n \in 1..SegMax : Rescue(holder, n)
    BY <1>1, Zenon DEF Rescue
  <1>2. CASE \E w \in Windows : Readvertise(w)
    <2>1. UNCHANGED <<sendVars, rescueVars, routeVars, rTail, ooq, netVars>>
      BY <1>2, Zenon DEF Readvertise
    <2> QED
      BY <2>1, SameInOrder, Zenon DEF sendVars, rescueVars, routeVars, netVars, InOrder, OneLane
  <1>3. ASSUME NEW S \in SUBSET Lane, Route(S) PROVE InOrder'
    <2>1. /\ UNCHANGED <<rescueVars, recvVars, netVars>>
          /\ data' = S /\ AdvanceAndRequeue(sBase, data \ S)
          /\ \A k, l \in S : k = l
      BY <1>3, Zenon DEF Route
    <2>2. /\ \A l \in Lane : infl'[l] \subseteq infl[l]
          /\ \A l \in Lane : l \in data \ S \/ infl[l] = {} => infl'[l] = {}
      BY <2>1, AdvanceOneLane, Zenon DEF InOrder
    <2>3. OneLane'
      BY <2>1, <2>2, Zenon DEF OneLane, InOrder
    <2> QED
      BY <2>1, <2>2, <2>3, SameInOrder, Zenon DEF rescueVars, recvVars, netVars, InOrder
  <1> QED
    BY <1>1, <1>2, <1>3, Zenon DEF Act

\* Everything below the next byte to send was received or is in the lane's queue,
\* or the lane has broken.
LEMMA BelowNext ==
    ASSUME IInv, InOrder, NEW l \in data, up[l], NEW off \in Nat, off <= sNext,
           \A x \in retx : off <= x
    PROVE  \A x \in Nat : x < off => Reaches(fwd[l], rTail, x)
  <1> SUFFICES ASSUME NEW x \in Nat, x < off, ~(x < rTail) PROVE Reaches(fwd[l], rTail, x)
    BY Zenon DEF Reaches
  <1>1. x \in sBase..(sNext - 1) /\ x \notin retx
    BY DEF IInv, OrderInv, Shapes, Offset
  <1>2. PICK k \in Lane : x \in infl[k]
    BY <1>1, Zenon DEF IInv, NoByteForgotten
  <1>3. k = l /\ l \in Lane
    BY <1>2, Zenon DEF InOrder, OneLane, IInv, Shapes
  <1> QED
    BY <1>2, <1>3, Zenon DEF InOrder, Flying

LEMMA FillDataInOrder ==
    ASSUME IInv, InOrder, NEW l \in data, NEW off \in Nat, NEW n \in Nat, off <= sNext,
           \A x \in retx : off <= x, AddData(l, off, n),
           UNCHANGED <<rescue, routeVars, recvVars, up>>
    PROVE  InOrder'
  <1> DEFINE f == [t |-> "DATA", off |-> off, n |-> n]
  <1>1. /\ f \in FwdFrame /\ f.t = "DATA" /\ f.off = off /\ f.n = n
        /\ SendFwd(l, f) /\ infl' = [infl EXCEPT ![l] = @ \cup Span(off, n)]
    BY DEF FwdFrame, AddData, Offset
  <1> HIDE DEF f
  <1>2. /\ l \in Lane /\ rTail \in Nat /\ fwd[l] \in Seq(FwdFrame)
        /\ infl'[l] = infl[l] \cup Span(off, n)
        /\ \A k \in Lane \ {l} : infl'[k] = infl[k]
        /\ infl[l] \subseteq Nat /\ Span(off, n) \subseteq Nat
    BY <1>1 DEF IInv, Shapes, Wires, Offset, Span
  <1>3. ooq' = {} /\ rescue'.n = 0 /\ rTail' = rTail
    BY Zenon DEF InOrder, recvVars
  <1>4. OneLane'
    BY <1>2, Zenon DEF InOrder, OneLane, routeVars
  <1>5. CASE ~up[l]
    <2>1. fwd' = fwd
      BY <1>1, <1>5, Zenon DEF SendFwd
    <2>2. \A k \in Lane : Ordered(fwd'[k], rTail') /\ Flying(k)'
      BY <1>2, <1>3, <1>5, <2>1, Zenon DEF InOrder, Flying
    <2> QED
      BY <1>3, <1>4, <2>2, Zenon DEF InOrder
  <1>6. CASE up[l]
    <2>1. fwd' = [fwd EXCEPT ![l] = Append(@, f)]
      BY <1>1, <1>6, Zenon DEF SendFwd
    <2>2. fwd'[l] = Append(fwd[l], f) /\ \A k \in Lane \ {l} : fwd'[k] = fwd[k]
      BY <2>1, <1>2 DEF IInv, Wires
    <2>3. \A x \in Nat : x < f.off => Reaches(fwd[l], rTail, x)
      BY <1>1, <1>6, BelowNext, Zenon
    <2>4. Ordered(Append(fwd[l], f), rTail)
      BY <1>1, <1>2, <2>3, OrderedAppend, Zenon DEF InOrder
    <2>5. \A x \in infl[l] : Reaches(Append(fwd[l], f), rTail, x)
      BY <1>1, <1>2, <1>6, ReachesAppend, Zenon DEF InOrder, Flying
    <2>6. \A x \in Span(off, n) : Covers(f, x)
      BY <1>1 DEF Covers, Span
    <2>7. \A x \in Span(off, n) : Reaches(Append(fwd[l], f), rTail, x)
      BY <1>1, <1>2, <2>6, ReachesAppend, Zenon
    <2>8. \A k \in Lane : Ordered(fwd'[k], rTail') /\ Flying(k)'
      BY <1>2, <1>3, <2>2, <2>4, <2>5, <2>7, Zenon DEF InOrder, Flying
    <2> QED
      BY <1>3, <1>4, <2>8, Zenon DEF InOrder
  <1> QED
    BY <1>5, <1>6, Zenon

LEMMA SenderFillInOrder ==
    ASSUME IInv, InOrder, NEW l \in Lane, SenderFill(l)
    PROVE  InOrder'
  <1>1. CASE FillRescue(l)
    BY <1>1, ZeroIsNone, Zenon DEF FillRescue, RescueFirst, InOrder
  <1>2. ASSUME NEW n \in 1..SegMax, NEW off \in retx, FillRetx(l, off, n) PROVE InOrder'
    <2>1. /\ l \in data /\ AddData(l, off, n) /\ \A x \in retx : off <= x
          /\ UNCHANGED <<rescue, routeVars, recvVars, up>>
      BY <1>2, Zenon DEF FillRetx, CarriesData
    <2>2. off \in Nat /\ off <= sNext /\ n \in Nat
      BY SegFact DEF IInv, SentInv, Shapes, Offset
    <2> QED
      BY <2>1, <2>2, FillDataInOrder, Zenon
  <1>3. ASSUME NEW n \in 1..SegMax, FillNew(l, n) PROVE InOrder'
    <2>1. /\ l \in data /\ AddData(l, sNext, n) /\ retx = {}
          /\ UNCHANGED <<rescue, routeVars, recvVars, up>>
      BY <1>3, Zenon DEF FillNew, CarriesData
    <2>2. sNext \in Nat /\ sNext <= sNext /\ n \in Nat
      BY SegFact DEF IInv, Shapes, Offset
    <2>3. \A x \in retx : sNext <= x
      BY <2>1, Zenon
    <2> QED
      BY <2>1, <2>2, <2>3, FillDataInOrder, Zenon
  <1>4. CASE FillFin(l)
    <2> DEFINE f == [t |-> "FIN", off |-> finOff]
    <2>1. /\ SendFwd(l, f) /\ finOff # None
          /\ UNCHANGED <<sendVars, rescueVars, routeVars, recvVars, up>>
      BY <1>4, Zenon DEF FillFin, FinDue
    <2>2. f \in FwdFrame /\ f.t # "DATA"
      BY <2>1 DEF FwdFrame, IInv, Shapes, Offset
    <2> HIDE DEF f
    <2>3. \A k \in Lane : Brings(k)
      BY <2>1, <2>2, BringsAppend, Zenon
    <2> QED
      BY <2>1, <2>3, BringsInOrder, Zenon DEF sendVars, rescueVars, routeVars, recvVars, InOrder, OneLane
  <1> QED
    BY <1>1, <1>2, <1>3, <1>4, Zenon DEF SenderFill

LEMMA ReceiverFillInOrder ==
    ASSUME IInv, InOrder, NEW l \in Lane, ReceiverFill(l)
    PROVE  InOrder'
  <1>1. UNCHANGED <<sendVars, rescueVars, routeVars, rTail, ooq, up, fwd>>
    BY Zenon DEF ReceiverFill, FillAck
  <1> QED
    BY <1>1, SameInOrder, Zenon DEF sendVars, rescueVars, routeVars, InOrder, OneLane

\* recvDataLocked: nothing below the arriving bytes is missing, so all of them are
\* placed in order.
LEMMA RecvDataInOrder ==
    ASSUME IInv, IInv', InOrder, NEW l \in Lane, NEW tail \in rTail..rightEdge, NEW cut,
           RecvData(l, tail, cut)
    PROVE  InOrder'
  <1> DEFINE f == Head(fwd[l])
             held == ooq \cup {x \in Span(f.off, f.n) : x >= rTail}
  <1>1. /\ ReadFwd(l, "DATA") /\ PlaceData(f, tail, cut)
        /\ UNCHANGED <<sendVars, rescueVars, routeVars, up>>
    BY DEF RecvData, IInv, NoViolation
  <1>2. /\ fwd[l] \in Seq(FwdFrame) /\ fwd[l] # <<>> /\ f.t = "DATA"
        /\ fwd'[l] = Tail(fwd[l]) /\ \A k \in Lane \ {l} : fwd'[k] = fwd[k]
    BY <1>1 DEF IInv, Wires, ReadFwd, Reads
  <1>3. f \in FwdFrame /\ f = fwd[l][1] /\ 1 \in 1..Len(fwd[l])
    BY <1>2
  <1>4. f.off \in Nat /\ f.n \in Nat
    BY <1>2, <1>3 DEF FwdFrame, Offset
  <1>5. rTail \in Nat /\ tail \in Nat /\ rTail <= tail
    BY DEF IInv, Shapes, Offset
  <1>6. \A x \in Nat : x < f.off => x < rTail
    <2>1. \A x \in Nat : x < f.off => x < rTail \/ \E j \in 1..(1 - 1) : Covers(fwd[l][j], x)
      BY <1>2, <1>3, Zenon DEF InOrder, Ordered
    <2>2. \A j \in 1..(1 - 1) : FALSE
      OBVIOUS
    <2> QED
      BY <2>1, <2>2, Zenon
  <1>7. f.off <= rTail
    <2>1. CASE f.off = 0
      BY <1>5, <2>1
    <2>2. CASE f.off # 0
      <3>1. f.off - 1 \in Nat /\ f.off - 1 < f.off
        BY <1>4, <2>2
      <3>2. f.off - 1 < rTail
        BY <1>6, <3>1, Zenon
      <3> QED
        BY <1>4, <1>5, <3>2
    <2> QED
      BY <2>1, <2>2, Zenon
  <1>8. /\ tail \notin held /\ rTail' = tail
        /\ ooq' \subseteq {x \in held : x > tail}
    BY <1>1 DEF PlaceData
  <1>9. f.off + f.n <= tail
    BY <1>4, <1>5, <1>7, <1>8 DEF Span
  <1>10. ooq' = {}
    <2>1. \A x \in Span(f.off, f.n) : ~(x > tail)
      BY <1>4, <1>5, <1>9 DEF Span
    <2> QED
      BY <1>8, <2>1, Zenon DEF InOrder
  <1> HIDE DEF f
  <1>11. \A x \in Nat : Covers(f, x) => x < tail
    BY <1>4, <1>5, <1>9 DEF Covers
  <1>12. /\ Ordered(Tail(fwd[l]), tail)
         /\ \A x \in Nat : Reaches(fwd[l], rTail, x) => Reaches(Tail(fwd[l]), tail, x)
    BY <1>2, <1>5, <1>11, OrderedTail, Zenon DEF InOrder, f
  <1>13. ASSUME NEW k \in Lane
         PROVE  /\ Ordered(fwd'[k], tail)
                /\ \A x \in Nat : Reaches(fwd[k], rTail, x) => Reaches(fwd'[k], tail, x)
    <2>1. CASE k = l
      BY <1>2, <1>12, <2>1, Zenon
    <2>2. CASE k # l
      BY <1>2, <1>5, <2>2, OrderedGrows, Zenon DEF InOrder
    <2> QED
      BY <2>1, <2>2, Zenon
  <1>14. infl' = infl /\ up' = up /\ \A k \in Lane : infl[k] \subseteq Nat
    BY <1>1 DEF sendVars, IInv, Shapes, Offset
  <1>15. \A k \in Lane : Ordered(fwd'[k], rTail') /\ Flying(k)'
    BY <1>8, <1>13, <1>14, Zenon DEF InOrder, Flying
  <1>16. OneLane' /\ rescue'.n = 0
    BY <1>1, Zenon DEF InOrder, OneLane, sendVars, routeVars, rescueVars
  <1> QED
    BY <1>10, <1>15, <1>16, Zenon DEF InOrder

LEMMA RecvFinInOrder ==
    ASSUME IInv, InOrder, NEW l \in Lane, RecvFin(l)
    PROVE  InOrder'
  <1>1. ReadFwd(l, "FIN") /\ UNCHANGED <<sendVars, rescueVars, routeVars, rTail, ooq, up>>
    BY Zenon DEF RecvFin
  <1>2. "FIN" # "DATA"
    OBVIOUS
  <1>3. \A k \in Lane : Brings(k)
    BY <1>1, <1>2, BringsTail, Zenon
  <1> QED
    BY <1>1, <1>3, BringsInOrder, Zenon DEF sendVars, rescueVars, routeVars, InOrder, OneLane

\* An empty rescue slot stays empty.
LEMMA NoTrim ==
    ASSUME rescue.n = 0, NEW to, rescue' = TrimRescue(rescue, to)
    PROVE  rescue'.n = 0
  BY DEF TrimRescue

LEMMA RecvAckInOrder ==
    ASSUME IInv, IInv', InOrder, NEW l \in Lane, RecvAck(l)
    PROVE  InOrder'
  <1>1. UNCHANGED <<routeVars, recvVars, up, fwd>> /\ ApplyAck(l, Head(back[l]))
    BY DEF RecvAck, IInv, NoViolation
  <1>2. PICK to : AdvanceAndRequeue(to, {}) /\ rescue' = TrimRescue(rescue, to)
    BY <1>1, Zenon DEF ApplyAck
  <1>3. rescue'.n = 0
    BY <1>2, NoTrim, Zenon DEF InOrder
  <1>4. /\ \A k \in Lane : infl'[k] \subseteq infl[k]
        /\ \A k \in Lane : infl[k] = {} => infl'[k] = {}
    BY <1>2, AdvanceOneLane, Zenon DEF InOrder
  <1>5. OneLane'
    BY <1>1, <1>4, Zenon DEF InOrder, OneLane, routeVars
  <1> QED
    BY <1>1, <1>3, <1>4, <1>5, SameInOrder, Zenon DEF recvVars

\* newLaneLocked at the sender: the lane that a switch replaces gives back its bytes,
\* and a lane that comes up holds none.
LEMMA GainsInOrder ==
    ASSUME ~Bond, IInv, IInv', InOrder, NEW l \in Lane, NEW rx, NEW switch \in BOOLEAN,
           SenderGains(l, rx, switch)
    PROVE  /\ \A k \in Lane : infl'[k] \subseteq infl[k]
           /\ OneLane' /\ rescue'.n = 0
  <1>1. PICK to : /\ AdvanceAndRequeue(to, ReplacedBy(switch))
                  /\ rescue' = TrimRescue(rescue, to)
    BY DEF SenderGains, IInv, NoViolation
  <1>2. data' = IF switch \/ data = {} THEN {l} ELSE data
    BY DEF SenderGains, IInv, NoViolation
  <1>3. rescue'.n = 0
    BY <1>1, NoTrim, Zenon DEF InOrder
  <1>4. /\ \A k \in Lane : infl'[k] \subseteq infl[k]
        /\ \A k \in Lane : k \in ReplacedBy(switch) \/ infl[k] = {} => infl'[k] = {}
    BY <1>1, AdvanceOneLane, Zenon DEF InOrder
  <1>5. CASE switch \/ data = {}
    <2>1. data' = {l} /\ \A k \in Lane : infl'[k] = {}
      BY <1>2, <1>4, <1>5, Zenon DEF ReplacedBy, InOrder, OneLane
    <2> QED
      BY <1>3, <1>4, <2>1, Zenon DEF OneLane
  <1>6. CASE ~(switch \/ data = {})
    <2>1. data' = data
      BY <1>2, <1>6, Zenon
    <2> QED
      BY <1>3, <1>4, <2>1, Zenon DEF OneLane, InOrder
  <1> QED
    BY <1>5, <1>6, Zenon

LEMMA AdoptInOrder ==
    ASSUME ~Bond, IInv, IInv', InOrder, NEW l \in Lane, Adopt(l)
    PROVE  InOrder'
  <1>1. UNCHANGED <<recvVars, up>>
    BY Zenon DEF Adopt
  <1>2. CASE SenderDials
    <2>1. ReadFwd(l, "JOIN") /\ UNCHANGED <<sendVars, rescueVars, routeVars>>
      BY <1>2, Zenon DEF Adopt
    <2>2. "JOIN" # "DATA"
      OBVIOUS
    <2>3. \A k \in Lane : Brings(k)
      BY <1>1, <2>1, <2>2, BringsTail, Zenon
    <2> QED
      BY <1>1, <2>1, <2>3, BringsInOrder, Zenon
         DEF sendVars, rescueVars, routeVars, recvVars, InOrder, OneLane
  <1>3. CASE ~SenderDials
    <2> DEFINE f == [t |-> "JOIN_ACK"]
    <2>1. SenderGains(l, Head(back[l]).rx, FALSE) /\ SendFwd(l, f)
      BY <1>3, Zenon DEF Adopt
    <2>2. f \in FwdFrame /\ f.t # "DATA"
      BY DEF FwdFrame
    <2> HIDE DEF f
    <2>3. \A k \in Lane : Brings(k)
      BY <1>1, <2>1, <2>2, BringsAppend, Zenon
    <2>4. (\A k \in Lane : infl'[k] \subseteq infl[k]) /\ OneLane' /\ rescue'.n = 0
      BY <2>1, GainsInOrder, Zenon
    <2> QED
      BY <1>1, <2>3, <2>4, BringsInOrder, Zenon DEF recvVars
  <1> QED
    BY <1>2, <1>3, Zenon

LEMMA AttachInOrder ==
    ASSUME ~Bond, IInv, IInv', InOrder, NEW l \in Lane, NEW switch \in BOOLEAN, Attach(l, switch)
    PROVE  InOrder'
  <1>1. UNCHANGED <<recvVars, up>>
    BY Zenon DEF Attach
  <1>2. CASE ~SenderDials
    <2>1. ReadFwd(l, "JOIN_ACK") /\ UNCHANGED <<sendVars, rescueVars, routeVars>>
      BY <1>2, Zenon DEF Attach
    <2>2. "JOIN_ACK" # "DATA"
      OBVIOUS
    <2>3. \A k \in Lane : Brings(k)
      BY <1>1, <2>1, <2>2, BringsTail, Zenon
    <2> QED
      BY <1>1, <2>1, <2>3, BringsInOrder, Zenon
         DEF sendVars, rescueVars, routeVars, recvVars, InOrder, OneLane
  <1>3. CASE SenderDials
    <2>1. SenderGains(l, Head(back[l]).rx, switch) /\ UNCHANGED fwd
      BY <1>3, Zenon DEF Attach
    <2>2. (\A k \in Lane : infl'[k] \subseteq infl[k]) /\ OneLane' /\ rescue'.n = 0
      BY <2>1, GainsInOrder, Zenon
    <2> QED
      BY <1>1, <2>1, <2>2, SameInOrder, Zenon DEF recvVars
  <1> QED
    BY <1>2, <1>3, Zenon

\* A queue without DATA is in order.
LEMMA OrderedControl ==
    ASSUME NEW q, NEW r, \A i \in 1..Len(q) : q[i].t # "DATA"
    PROVE  Ordered(q, r)
  BY Zenon DEF Ordered

LEMMA JoinInOrder ==
    ASSUME IInv, OwedInv, InOrder, NEW l \in Lane, Join(l)
    PROVE  InOrder'
  <1>1. UNCHANGED <<sendVars, rescueVars, data, recvVars>>
    BY Zenon DEF Join
  <1>2. \A k \in Lane \ {l} : up'[k] = up[k] /\ fwd'[k] = fwd[k]
    BY DEF Join, IInv, Flags, Wires
  <1>3. sLane[l] # "up"
    <2>1. CASE SenderDials
      BY <2>1 DEF Join
    <2>2. CASE ~SenderDials
      BY <2>2, Zenon DEF Join, OwedInv, Origin
    <2> QED
      BY <2>1, <2>2, Zenon
  <1>4. infl'[l] = {}
    BY <1>1, <1>3, Zenon DEF IInv, LaneInv, sendVars
  <1>5. Ordered(fwd'[l], rTail)
    <2>1. CASE SenderDials
      <3>1. fwd' = [fwd EXCEPT ![l] = <<[t |-> "JOIN"]>>]
        BY <2>1, Zenon DEF Join
      <3>2. \A i \in 1..Len(fwd'[l]) : fwd'[l][i].t # "DATA"
        BY <3>1 DEF IInv, Wires
      <3> QED
        BY <3>2, OrderedControl, Zenon
    <2>2. CASE ~SenderDials
      BY <2>2, Zenon DEF Join, InOrder
    <2> QED
      BY <2>1, <2>2, Zenon
  <1>6. \A k \in Lane : Brings(k)
    <2>1. Brings(l)
      BY <1>4, <1>5, Zenon DEF Brings
    <2> QED
      BY <1>2, <2>1, BringsSame, Zenon
  <1> QED
    BY <1>1, <1>6, BringsInOrder, Zenon DEF sendVars, rescueVars, recvVars, InOrder, OneLane

LEMMA BreakInOrder ==
    ASSUME IInv, InOrder, NEW l \in Lane, Break(l)
    PROVE  InOrder'
  <1>1. UNCHANGED <<sendVars, rescueVars, routeVars, recvVars, fwd>>
    BY Zenon DEF Break
  <1>2. \A k \in Lane : up'[k] => up[k]
    BY DEF Break, IInv, Flags
  <1> QED
    BY <1>1, <1>2, SameInOrder, Zenon DEF sendVars, rescueVars, routeVars, recvVars, InOrder, OneLane

LEMMA AttemptFailedInOrder ==
    ASSUME IInv, InOrder, NEW l \in Lane, AttemptFailed(l)
    PROVE  InOrder'
  <1>1. UNCHANGED <<sendVars, rescueVars, data, recvVars, up>> /\ ~up[l]
    BY Zenon DEF AttemptFailed
  <1>2. /\ fwd'[l] = fwd[l] \/ fwd'[l] = <<>>
        /\ \A k \in Lane \ {l} : fwd'[k] = fwd[k]
    BY DEF AttemptFailed, IInv, Wires
  <1>3. Brings(l)
    <2>1. CASE fwd'[l] = fwd[l]
      BY <1>1, <2>1, BringsSame, Zenon
    <2>2. CASE fwd'[l] = <<>>
      <3>1. \A i \in 1..Len(fwd'[l]) : fwd'[l][i].t # "DATA"
        BY <2>2
      <3> QED
        BY <1>1, <3>1, OrderedControl, Zenon DEF Brings
    <2> QED
      BY <1>2, <2>1, <2>2, Zenon
  <1>4. \A k \in Lane : Brings(k)
    BY <1>1, <1>2, <1>3, BringsSame, Zenon
  <1> QED
    BY <1>1, <1>4, BringsInOrder, Zenon DEF sendVars, rescueVars, recvVars, InOrder, OneLane

\* The lane that takes over from a dead one holds no bytes: all of them were on the
\* dead lane and are requeued.
LEMMA SenderReapsInOrder ==
    ASSUME IInv, InOrder, NEW l \in Lane, NEW fb \in Lane \cup {None}, SenderReaps(l, fb)
    PROVE  InOrder'
  <1>1. /\ UNCHANGED <<recvVars, netVars>> /\ AdvanceAndRequeue(sBase, {l})
        /\ data' = ((data \ {l}) \cup {fb}) \ {None}
    BY Zenon DEF SenderReaps
  <1>2. data \ {l} # {} => fb = None
    BY Zenon DEF SenderReaps
  <1>3. rescue'.n = 0
    BY DEF SenderReaps, NoRescue, InOrder
  <1>4. /\ \A k \in Lane : infl'[k] \subseteq infl[k]
        /\ \A k \in Lane : k \in {l} \/ infl[k] = {} => infl'[k] = {}
    BY <1>1, AdvanceOneLane, Zenon DEF InOrder
  <1>5. OneLane'
    <2>1. \A k, m \in data' : k = m
      BY <1>1, <1>2, Zenon DEF InOrder, OneLane
    <2>2. ASSUME NEW k \in Lane, k \notin data' PROVE infl'[k] = {}
      <3>1. k \notin data \/ k = l
        BY <1>1, <2>2, ConstFacts, Zenon
      <3> QED
        BY <1>4, <3>1, Zenon DEF InOrder, OneLane
    <2> QED
      BY <2>1, <2>2, Zenon DEF OneLane
  <1> QED
    BY <1>1, <1>3, <1>4, <1>5, SameInOrder, Zenon DEF recvVars, netVars

LEMMA StepInOrder == ~Bond /\ IInv /\ OwedInv /\ InOrder /\ [Next]_vars => InOrder'
  <1> SUFFICES ASSUME ~Bond, IInv, OwedInv, InOrder, [Next]_vars PROVE InOrder'
    OBVIOUS
  <1>0. IInv'
    BY NextIInv, Zenon
  <1>1. CASE App
    BY <1>1, AppInOrder, Zenon
  <1>2. CASE Act
    BY <1>2, ActInOrder, Zenon
  <1>3. ASSUME NEW l \in Lane, SenderFill(l) \/ ReceiverFill(l) PROVE InOrder'
    BY <1>3, SenderFillInOrder, ReceiverFillInOrder, Zenon
  <1>4. ASSUME NEW l \in Lane, Recv(l) PROVE InOrder'
    BY <1>0, <1>4, RecvDataInOrder, RecvFinInOrder, RecvAckInOrder, Zenon DEF Recv
  <1>5. ASSUME NEW l \in Lane, Carrier(l) PROVE InOrder'
    <2>1. ASSUME ReceiverReaps(l) PROVE InOrder'
      <3>1. UNCHANGED <<sendVars, rescueVars, routeVars, recvVars, netVars>>
        BY <2>1, Zenon DEF ReceiverReaps
      <3> QED
        BY <3>1, SameInOrder, Zenon
           DEF sendVars, rescueVars, routeVars, recvVars, netVars, InOrder, OneLane
    <2>2. ASSUME NEW switch \in IF Bond THEN {FALSE} ELSE BOOLEAN PROVE switch \in BOOLEAN
      BY <2>2, Zenon
    <2> QED
      BY <1>0, <1>5, <2>1, <2>2, JoinInOrder, AdoptInOrder, AttachInOrder, BreakInOrder,
         AttemptFailedInOrder, SenderReapsInOrder, Zenon DEF Carrier
  <1>6. CASE UNCHANGED vars
    BY <1>6, SameInOrder, Zenon
       DEF vars, sendVars, rescueVars, routeVars, recvVars, netVars, InOrder, OneLane
  <1> QED
    BY <1>1, <1>2, <1>3, <1>4, <1>5, <1>6, Zenon DEF Next

LEMMA InitInOrder == Init => InOrder
  <1> SUFFICES ASSUME Init PROVE InOrder
    OBVIOUS
  <1>1. ooq = {} /\ rescue.n = 0 /\ OneLane
    BY ConstAssumption DEF Init, NoRescue, OneLane
  <1>2. ASSUME NEW l \in Lane PROVE Ordered(fwd[l], rTail) /\ Flying(l)
    <2>1. fwd[l] = <<>> /\ infl[l] = {}
      BY DEF Init
    <2>2. \A i \in 1..Len(fwd[l]) : fwd[l][i].t # "DATA"
      BY <2>1
    <2> QED
      BY <2>1, <2>2, OrderedControl, Zenon DEF Flying
  <1> QED
    BY <1>1, <1>2 DEF InOrder

\* gapAckLocked's assumption: under selector routing the receiver never holds a byte out
\* of order, for any number of lanes, switches, fallbacks and requeued bytes.
THEOREM SelectorInOrderHolds == Spec => []SelectorInOrder
  <1> DEFINE J == IInv /\ OwedInv /\ (~Bond => InOrder)
  <1>1. Init => J
    BY InitIInv, InitOwed, InitInOrder, Zenon
  <1>2. J /\ [Next]_vars => J'
    <2>1. Bond' <=> Bond
      OBVIOUS
    <2> QED
      BY <2>1, NextIInv, StepOwed, StepInOrder, Zenon
  <1>3. J => SelectorInOrder
    BY Zenon DEF InOrder, SelectorInOrder
  <1> HIDE DEF J
  <1> QED
    BY <1>1, <1>2, <1>3, PTL DEF Spec

=============================================================================
