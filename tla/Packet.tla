------------------------------- MODULE Packet -------------------------------
(***************************************************************************)
(* The packet data plane of a dialer's session (internal/session/packet.go *)
(* and pkt_*.go), its lanes' writers as far as DGRAMs are concerned        *)
(* (internal/carrier/dgwrite.go), and the peer's receive side.             *)
(*                                                                         *)
(* WriteTo queues a datagram; the writers of the data lanes pull it in     *)
(* their Fill calls: from one queue in selector and bond mode (a bond of   *)
(* datagram and stream lanes has a second queue for datagrams only a       *)
(* stream lane can carry), each lane from its own cursor in race mode.  A  *)
(* dying carrier hands back the datagrams it never wrote, and they go out  *)
(* on another lane under their old seq.  Nothing waits: what cannot be     *)
(* sent in time is dropped and counted.                                    *)
(*                                                                         *)
(* Every step runs under Session.mu, except the write of a datagram.  A    *)
(* datagram is its number and a size; payloads, chunks and the counters by *)
(* cause are left out.  The clock counts in steps, MaxAge of them.         *)
(***************************************************************************)
EXTENDS Integers, Sequences, SequencesExt, FiniteSets, FiniteSetsExt

CONSTANTS MaxAge,      \* Packet.MaxAge
          BatchFrames, \* carrier.MaxBatchFrames
          QueueMax,    \* pring.maxN
          MaxRedo,     \* maxRedo
          PktPlans     \* [mode, lanes, start, sizes, time, may]: see the variables

VARIABLES kplan, \* the session's mode, its lanes (kind, size limit or capacity),
                 \* those attached at the start, the sizes of the datagrams the
                 \* application writes, a bound of the clock, and the troubles;
                 \* never changes
          clk,   \* the clock
          pk,    \* struct packet of the sender, and its end
          pl,    \* the sender's lanes and their writers
          pnet,  \* the frames written: DGRAMs, FINs; and the peer's PACKs
          rcv    \* the peer's receive side

pktVars == <<kplan, clk, pk, pl, pnet, rcv>>

Lane == DOMAIN kplan.lanes
Can(x) == x \in kplan.may
Size(d) == kplan.sizes[d]
IsDgram(l) == kplan.lanes[l].kind = "dgram"
Race == kplan.mode = "race"
Never == -1

\* The DgramMax of the datagram lanes of L, as attached
Limits(L) == {kplan.lanes[l].max : l \in {x \in L : IsDgram(x)}}

NewLane == [st |-> "off", data |-> FALSE, idle |-> TRUE, tok |-> FALSE, pc |-> "sleep", at |-> 0,
            room |-> 0, max |-> 0, infl |-> 0, capMarked |-> FALSE, blocked |-> FALSE,
            rpos |-> 0, finHere |-> FALSE, batch |-> <<>>]

\* The lanes of plan.start are attached and routed
PInit ==
    /\ kplan \in PktPlans
    /\ clk = 0
    /\ pl = [l \in Lane |-> [NewLane EXCEPT !.max = kplan.lanes[l].max,
                               !.st = IF l \in kplan.start THEN "up" ELSE "off", !.data = l \in kplan.start]]
    /\ pk = [tx |-> <<>>, big |-> <<>>, redo |-> <<>>, pos |-> 0, next |-> 0,
             pc |-> [d \in DOMAIN kplan.sizes |-> 0], accepted |-> 0, sent |-> 0, dropped |-> 0,
             dgMax |-> Max({0} \cup Limits(kplan.start)), dgMin |-> Min({99} \cup Limits(kplan.start)) % 99,
             mixed |-> kplan.mode = "bond" /\ \E a, b \in kplan.start : IsDgram(a) /\ ~IsDgram(b),
             finReq |-> FALSE, finOff |-> Never, finLane |-> 0, finAcked |-> FALSE,
             peerFirst |-> FALSE, ended |-> FALSE]
    /\ pnet = {}
    /\ rcv = [got |-> {}, q |-> <<>>, copy |-> Never, ret |-> <<>>, fin |-> Never, waited |-> FALSE,
              eof |-> FALSE, closed |-> FALSE, viol |-> FALSE]

-----------------------------------------------------------------------------
(* Steps of the session under its lock work on S = [p |-> pk, l |-> pl]    *)

Now == [p |-> pk, l |-> pl]

\* The live data lanes, in srtt order (here the order of their numbers)
Data(S) == {l \in Lane : S.l[l].st \in {"up", "dying"} /\ S.l[l].data}
Order(S) == SetToSortSeq(Data(S), <)

\* pktWakeIdle
WakeIdle(S, l) == IF S.l[l].idle THEN [S EXCEPT !.l[l].idle = FALSE, !.l[l].tok = TRUE] ELSE S

Dropped(S, k) == [S EXCEPT !.p.dropped = @ + k]
Aged(d, t) == t - d.at > MaxAge

\* pktCanPlaceLocked; n = 0: no size needed
CanPlace(S, l, n) ==
    /\ ~S.l[l].blocked
    /\ \/ n = 0
       \/ IF IsDgram(l) THEN S.l[l].max >= n ELSE kplan.lanes[l].max - S.l[l].infl >= n

\* pktCarriableLocked
Carriable(S, n) == \E l \in Data(S) : ~IsDgram(l) \/ S.l[l].max >= n

\* headPlaced, of a descriptor: a placement of it may have left
MayHaveLeft(S, d) == Race /\ d.seq # Never /\ S.p.pc[d.id] > 0

\* evict and releaseAll count a datagram unless a placement may have left
Unplaced(S, q) == Cardinality({i \in DOMAIN q : ~MayHaveLeft(S, q[i])})
PopTx(S) == [S EXCEPT !.p.tx = Tail(@), !.p.pos = @ + 1]

\* redoPush: in the order of the enqueue times
RedoPush(q, r) == LET older == {k \in DOMAIN q : q[k].at <= r.at}
                      at    == Max({0} \cup older)
                  IN  InsertAt(q, at + 1, r)

\* pktRedoLocked
Redo(S, r) ==
    IF S.p.ended \/ S.p.peerFirst \/ Len(S.p.redo) >= MaxRedo THEN Dropped(S, 1)
    ELSE [S EXCEPT !.p.redo = RedoPush(@, r)]

\* raceHeadLocked: the tx head moves past what every live lane passed, and
\* past what is too old
RECURSIVE RaceHead(_, _)
RaceHead(S, t) ==
    LET q    == S.p.tx
        tail == S.p.pos + Len(q)
        lo   == Min({tail} \cup {Max({S.l[l].rpos, S.p.pos}) : l \in Data(S)})
        d    == Head(q)
        r    == [id |-> d.id, seq |-> d.seq, at |-> d.at, wide |-> d.wide]
    IN  IF Data(S) = {} \/ q = <<>> THEN S
        ELSE IF S.p.pos >= lo /\ ~Aged(d, t) THEN S
        ELSE IF MayHaveLeft(S, d) THEN RaceHead(PopTx(S), t)
        ELSE IF ~Aged(d, t) /\ d.seq # Never /\ Carriable(S, Size(d.id)) THEN RaceHead(Redo(PopTx(S), r), t)
        ELSE RaceHead(Dropped(PopTx(S), 1), t)

\* pktRouteLocked: without a stream lane what waits for one is dropped
RouteHead(S) == IF Race THEN RaceHead(S, clk) ELSE S
RouteBig(S, st) == IF st # {} THEN S ELSE [Dropped(S, Len(S.p.big)) EXCEPT !.p.big = <<>>]
Route(S) ==
    LET dg  == {l \in Data(S) : IsDgram(l)}
        st  == Data(S) \ dg
        R   == [S EXCEPT !.p.dgMax = Max({0} \cup {S.l[l].max : l \in dg}),
                         !.p.dgMin = IF dg = {} THEN 0 ELSE Min({S.l[l].max : l \in dg}),
                         !.p.mixed = kplan.mode = "bond" /\ st # {} /\ dg # {}]
    IN  RouteHead(RouteBig(R, st))

\* The first lane that can place n bytes now, datagram lanes first; without
\* one, when ever is set, the first that can carry them at all; 0: none
Carrier(S, l, n, ever) ==
    LET able(o) == o # l /\ (IsDgram(o) => S.l[o].max >= n)
        list    == SelectSeq(Order(S), LAMBDA o : IsDgram(o) /\ able(o))
                     \o SelectSeq(Order(S), LAMBDA o : ~IsDgram(o) /\ able(o))
        now     == SelectSeq(list, LAMBDA o : CanPlace(S, o, n))
    IN  IF now # <<>> THEN Head(now) ELSE IF ever /\ list # <<>> THEN Head(list) ELSE 0

\* pktOtherCarrierLocked wakes that lane
WakeCarrier(R, o) == IF o = 0 THEN R ELSE WakeIdle(R, o)
OtherCarrier(S, l, n, ever) == LET R == Route(S) IN WakeCarrier(R, Carrier(R, l, n, ever))

-----------------------------------------------------------------------------
(* The wake policy                                                         *)

WakeSet(S, L) == [S EXCEPT !.l = [l \in Lane |->
    IF l \in L /\ S.l[l].idle THEN [S.l[l] EXCEPT !.idle = FALSE, !.tok = TRUE] ELSE S.l[l]]]

\* pktTxHeadLocked; 0: nothing queued
HeadSize(S) == IF S.p.redo # <<>> THEN Size(S.p.redo[1].id)
               ELSE IF S.p.tx # <<>> THEN Size(S.p.tx[1].id) ELSE 0

\* pktWalkLocked: the lanes of the list that can place the head, as many as
\* it takes to cover the queue with one batch each
Walked(S, list, need, head) ==
    LET able == SelectSeq(list, LAMBDA l : CanPlace(S, l, head))
        k    == Min({Len(able), Max({1, (need + BatchFrames - 1) \div BatchFrames})})
    IN  ToSet(SubSeq(able, 1, k))

DgramFirst(S) == SelectSeq(Order(S), IsDgram) \o SelectSeq(Order(S), LAMBDA l : ~IsDgram(l))

\* racePktFinDueLocked
RaceFinDue(S, l, t) ==
    LET q == S.p.tx
    IN  /\ S.p.finReq /\ ~S.p.finAcked /\ ~S.l[l].finHere /\ S.p.big = <<>> /\ S.p.redo = <<>>
        /\ S.l[l].rpos >= S.p.pos + Len(q) \/ q = <<>>
        /\ \A i \in DOMAIN q : (q[i].seq = Never \/ S.p.pc[q[i].id] = 0) => Aged(q[i], t)

\* raceDgramDueLocked
RaceDue(S, l) == \/ S.p.redo # <<>>
                 \/ S.p.tx # <<>> /\ S.l[l].rpos < S.p.pos + Len(S.p.tx)
                 \/ RaceFinDue(S, l, clk)

FinDue(S) == S.p.finReq /\ ~S.p.finAcked /\ S.p.finLane = 0

\* The lanes the minimum share may single out (pktStaleLocked): the stalest
\* that can place the head, found by a scan now and then, or none (0)
Stale(S) == IF kplan.mode = "bond" /\ Can("share")
            THEN {0} \cup {l \in Data(S) : HeadSize(S) > 0 /\ CanPlace(S, l, HeadSize(S))} ELSE {0}

\* pktWakeDataLocked in bond mode, for tx with the redo list; sl: the
\* minimum share's lane
WakeTx(S, sl) ==
    LET need == Len(S.p.tx) + Len(S.p.redo)
        C    == IF sl = 0 THEN S ELSE WakeIdle(S, sl)
        left == need - (IF sl = 0 THEN 0 ELSE BatchFrames)
        list == SelectSeq(DgramFirst(C), LAMBDA l : l # sl)
        w    == Walked(C, list, left, HeadSize(S))
        o    == Carrier(Route(C), 0, HeadSize(S), TRUE)
        dg   == SelectSeq(Order(C), LAMBDA l : IsDgram(l) /\ ~C.l[l].blocked)
    IN  IF left <= 0 THEN C
        ELSE IF w # {} \/ sl # 0 THEN WakeSet(C, w)
        ELSE IF o # 0 THEN WakeIdle(Route(C), o)
        ELSE WakeSet(Route(C), ToSet(SubSeq(dg, 1, Min({1, Len(dg)}))))

\* and for txBig; a stream lane without capacity is woken to be marked
\* (pktWakeCappedLocked)
WakeBig(S) ==
    LET st   == SelectSeq(Order(S), LAMBDA l : ~IsDgram(l))
        w    == Walked(S, st, Len(S.p.big), Size(S.p.big[1].id))
        mark == SelectSeq(st, LAMBDA l : ~S.l[l].capMarked /\ ~S.l[l].blocked)
    IN  IF w # {} THEN WakeSet(S, w) ELSE WakeSet(S, ToSet(SubSeq(mark, 1, Min({1, Len(mark)}))))

Wake(S, sl) ==
    LET T == IF S.p.tx # <<>> \/ S.p.redo # <<>> THEN WakeTx(S, sl) ELSE S
    IN  IF S.p.ended THEN S
        ELSE IF Race THEN WakeSet(S, {l \in Data(S) : ~S.l[l].blocked /\ RaceDue(S, l)})
        ELSE IF kplan.mode = "selector" THEN WakeSet(S, ToSet(SubSeq(Order(S), 1, Min({1, Len(Order(S))}))))
        ELSE IF S.p.tx = <<>> /\ S.p.redo = <<>> /\ S.p.big = <<>>
          THEN IF FinDue(S) THEN WakeSet(S, Walked(S, DgramFirst(S), 1, 0)) ELSE S
        ELSE IF T.p.big # <<>> THEN WakeBig(T) ELSE T

-----------------------------------------------------------------------------
(* Fill                                                                    *)

\* What a stream lane's capacity leaves for this batch
Left(S, l) == IF IsDgram(l) THEN 99
              ELSE kplan.lanes[l].max - S.l[l].infl
                     - FoldSeq(LAMBDA f, a : a + (IF f.id = 0 THEN 0 ELSE Size(f.id)), 0, S.l[l].batch)
Full(S, l) == Len(S.l[l].batch) >= BatchFrames
CapMark(S, l) == [S EXCEPT !.l[l].capMarked = TRUE]

\* AddDgram and pktPlacedLocked.  A lane's record holds its latest
\* MaxBatchFrames placements, so all of the round's: the enqueue time and
\* the wide mark are kept with the batch's frame
Put(S, l, d) ==
    [S EXCEPT !.p.sent = IF Race /\ S.p.pc[d.id] > 0 THEN @ ELSE @ + 1,
              !.p.pc[d.id] = IF Race THEN @ + 1 ELSE @,
              !.l[l].batch = Append(@, [id |-> d.id, seq |-> d.seq, at |-> d.at, wide |-> d.wide])]

PopRedo(S) == [S EXCEPT !.p.redo = Tail(@)]

\* placeRedoLocked; stop: the Fill ends here
RECURSIVE PlaceRedo(_, _, _)
PlaceRedo(S, l, t) ==
    LET r     == Head(S.p.redo)
        n     == Size(r.id)
        other == Carrier(Route(S), l, n, r.wide) # 0
    IN  IF S.p.redo = <<>> THEN [s |-> S, stop |-> FALSE]
        ELSE IF Aged(r, t) THEN PlaceRedo(Dropped(PopRedo(S), 1), l, t)
        ELSE IF IsDgram(l) /\ n > S.l[l].room
          THEN IF other THEN [s |-> OtherCarrier(S, l, n, r.wide), stop |-> ~Race]
               ELSE PlaceRedo(Dropped(PopRedo(Route(S)), 1), l, t)
        ELSE IF n > Left(S, l) THEN [s |-> CapMark(S, l), stop |-> TRUE]
        ELSE IF Full(S, l) THEN [s |-> S, stop |-> TRUE]
        ELSE PlaceRedo(Put(PopRedo(S), l, r), l, t)

\* The loop of placeDgramsLocked over one queue, q: "big" or "tx".  A stream
\* lane of a mixed bond keeps room for one datagram of the largest size
\* when it pulls tx
RECURSIVE PlaceQueue(_, _, _, _)
PlaceQueue(S, l, t, q) ==
    LET d     == Head(S.p[q])
        n     == Size(d.id)
        Pop(T) == [T EXCEPT !.p[q] = Tail(@), !.p.pos = IF q = "tx" THEN @ + 1 ELSE @]
        other == Carrier(Route(S), l, n, d.wide) # 0
        keep  == ~IsDgram(l) /\ S.p.mixed /\ q = "tx" /\ Left(S, l) - n < Max(Range(kplan.sizes))
    IN  IF S.p[q] = <<>> THEN [s |-> S, stop |-> FALSE]
        ELSE IF Aged(d, t) THEN PlaceQueue(Dropped(Pop(S), 1), l, t, q)
        ELSE IF IsDgram(l) /\ n > S.l[l].room
          THEN IF other THEN [s |-> OtherCarrier(S, l, n, d.wide), stop |-> TRUE]
               ELSE PlaceQueue(Dropped(Pop(Route(S)), 1), l, t, q)
        ELSE IF n > Left(S, l) \/ keep THEN [s |-> CapMark(S, l), stop |-> TRUE]
        ELSE IF Full(S, l) THEN [s |-> S, stop |-> TRUE]
        ELSE PlaceQueue([Put(Pop(S), l, [d EXCEPT !.seq = S.p.next]) EXCEPT !.p.next = @ + 1], l, t, q)

\* placeDgramsLocked
QueueAfter(R, l, t, q) == IF R.stop THEN R ELSE PlaceQueue(R.s, l, t, q)
PlaceDgrams(S, l, t) ==
    LET R == PlaceRedo(S, l, t)
    IN  QueueAfter(IF IsDgram(l) THEN R ELSE QueueAfter(R, l, t, "big"), l, t, "tx").s

\* The cursor's loop of raceFillDgramsLocked, from position p on
RECURSIVE PlaceCursor(_, _, _, _)
PlaceCursor(S, l, t, p) ==
    LET i     == p - S.p.pos + 1
        d     == S.p.tx[i]
        n     == Size(d.id)
        T     == [S EXCEPT !.l[l].rpos = p]
        first == d.seq = Never
        e     == [d EXCEPT !.seq = IF first THEN S.p.next ELSE @]
    IN  IF p >= S.p.pos + Len(S.p.tx) THEN T
        ELSE IF Aged(d, t) \/ (IsDgram(l) /\ n > S.l[l].room) THEN PlaceCursor(S, l, t, p + 1)
        ELSE IF n > Left(S, l) THEN CapMark(T, l)
        ELSE IF Full(S, l) THEN T
        ELSE PlaceCursor([Put(S, l, e) EXCEPT !.p.tx[i] = e, !.p.next = IF first THEN @ + 1 ELSE @], l, t, p + 1)

\* A datagram the head put on the redo list wakes the lanes
RaceHeaded(C, H) == IF Len(H.p.redo) > Len(C.p.redo) THEN Wake(H, 0) ELSE H
RaceCursor(S, l, t) == PlaceCursor(S, l, t, Max({S.l[l].rpos, S.p.pos}))
RaceAfter(R, l, t) ==
    LET C == RaceCursor(R.s, l, t) IN IF R.stop THEN R.s ELSE RaceHeaded(C, RaceHead(C, t))
RaceFill(S, l, t) == RaceAfter(PlaceRedo(RaceHead(S, t), l, t), l, t)

\* The FIN's part of fillPacketLocked, for a call whose clock says t; the
\* final seq is fixed at the first placement
FinOwed(S, l, t) ==
    IF Race THEN RaceFinDue(S, l, t)
    ELSE FinDue(S) /\ S.p.tx = <<>> /\ S.p.big = <<>> /\ S.p.redo = <<>>
PlaceFin(S, l, t) ==
    LET off == IF S.p.finOff = Never THEN S.p.next ELSE S.p.finOff
        F   == [S EXCEPT !.p.finOff = off]
    IN  IF ~FinOwed(S, l, t) THEN S
        ELSE IF Full(S, l) THEN F
        ELSE [F EXCEPT !.p.finLane = l, !.l[l].finHere = TRUE,
                       !.l[l].batch = Append(@, [id |-> 0, seq |-> off, at |-> 0, wide |-> FALSE])]

-----------------------------------------------------------------------------
(* The application and the actor                                           *)

Becomes(S) == pk' = S.p /\ pl' = S.l
Waked(S) == \E sl \in Stale(S) : Becomes(Wake(S, sl))

Tick == /\ clk < kplan.time
        /\ clk' = clk + 1
        /\ UNCHANGED <<kplan, pk, pl, pnet, rcv>>

\* The heads of q older than MaxAge (pktAgeQueueLocked), then those beyond
\* the queue's limit (push), leave; a race datagram a placement of which
\* may have left was sent
RECURSIVE Evict(_, _, _)
Evict(S, q, limit) ==
    LET d == Head(S.p[q])
    IN  IF S.p[q] = <<>> \/ (~Aged(d, clk) /\ Len(S.p[q]) <= limit) THEN S
        ELSE Evict([Dropped(S, IF MayHaveLeft(S, d) THEN 0 ELSE 1)
                      EXCEPT !.p[q] = Tail(@), !.p.pos = IF q = "tx" THEN @ + 1 ELSE @], q, limit)

\* writeTo; it never waits.  accepted counts the datagrams
WriteTo ==
    LET d == pk.accepted + 1
        q == IF pk.mixed /\ Size(d) > pk.dgMax THEN "big" ELSE "tx"
        e == [id |-> d, seq |-> Never, at |-> clk, wide |-> pk.dgMin > 0 /\ Size(d) > pk.dgMin]
        E == Evict(Now, q, QueueMax - 1)
    IN  /\ d \in DOMAIN kplan.sizes /\ ~pk.finReq /\ ~pk.ended
        /\ Waked([E EXCEPT !.p.accepted = d, !.p[q] = Append(@, e)])
        /\ UNCHANGED <<kplan, clk, pnet, rcv>>

\* pktCloseAppLocked, as far as sending goes
Close ==
    /\ Can("close") /\ ~pk.finReq /\ ~pk.ended
    /\ Waked([Now EXCEPT !.p.finReq = TRUE])
    /\ UNCHANGED <<kplan, clk, pnet, rcv>>

\* The queues and the redo list released, what never left counted
Released(S) == [Dropped(S, Unplaced(S, S.p.tx) + Len(S.p.big) + Len(S.p.redo))
                  EXCEPT !.p.tx = <<>>, !.p.big = <<>>, !.p.redo = <<>>, !.p.pos = @ + Len(S.p.tx)]

\* pktFinLocked at the sender: the peer closed (PeerCloses) and its FIN
\* came.  Unless ours was requested before, nothing queued is worth sending
PeerFin ==
    /\ rcv.closed /\ ~pk.finReq /\ ~pk.ended
    /\ Waked([Released(Now) EXCEPT !.p.finReq = TRUE, !.p.peerFirst = TRUE])
    /\ UNCHANGED <<kplan, clk, pnet, rcv>>

\* pktReleaseLocked at the session's end, whatever ends it
End ==
    /\ Can("end") /\ ~pk.ended
    /\ Becomes([Released(Now) EXCEPT !.p.ended = TRUE])
    /\ UNCHANGED <<kplan, clk, pnet, rcv>>

\* pktAgeOutLocked: without a data lane the actor ages what waits
RECURSIVE AgeRedo(_)
AgeRedo(S) == IF S.p.redo # <<>> /\ Aged(S.p.redo[1], clk) THEN AgeRedo(Dropped(PopRedo(S), 1)) ELSE S
AgeOut ==
    LET A == Evict(Evict(AgeRedo(Now), "tx", QueueMax), "big", QueueMax)
    IN  /\ Data(Now) = {} /\ ~pk.ended /\ A # Now
        /\ Becomes(A)
        /\ UNCHANGED <<kplan, clk, pnet, rcv>>

\* A lane joins and becomes a data lane (laneUpLocked and the scheduling
\* decision; in selector mode there is one data lane)
Routed(l) ==
    LET R == [Now EXCEPT !.l[l].st = "up", !.l[l].data = TRUE, !.l[l].rpos = pk.pos]
    IN  /\ pl[l].st = "off" /\ ~pk.ended
        /\ kplan.mode = "selector" => Data(Now) = {}
        /\ Waked(Route(R))
        /\ UNCHANGED <<kplan, clk, pnet, rcv>>

\* The carrier of lane l dies (a failed write: below); its writer may be in
\* the middle of a round
Killed(l) ==
    /\ pl[l].st = "up" /\ Can("dies")
    /\ pl' = [pl EXCEPT ![l].st = "dying"]
    /\ UNCHANGED <<kplan, clk, pk, pnet, rcv>>

\* laneGoneLocked: the actor takes notice
Reap(l) ==
    LET R == [Now EXCEPT !.l[l].st = "dead", !.l[l].data = FALSE, !.l[l].finHere = FALSE,
                         !.p.finLane = IF @ = l THEN 0 ELSE @]
    IN  /\ pl[l].st = "dying"
        /\ Waked(Route(R))
        /\ UNCHANGED <<kplan, clk, pnet, rcv>>

-----------------------------------------------------------------------------
(* The writers                                                             *)

RoundBegin(l) ==
    /\ pl[l].pc = "sleep" /\ pl[l].tok /\ pl[l].st = "up"
    /\ pl' = [pl EXCEPT ![l].pc = "fill", ![l].tok = FALSE, ![l].at = clk, ![l].room = pl[l].max]
    /\ UNCHANGED <<kplan, clk, pk, pnet, rcv>>

\* fillPacketLocked, and the end of the writer's Fill
Filled(F, l) ==
    LET none == F.l[l].batch = <<>>
    IN  [F EXCEPT !.l[l].idle = none, !.l[l].at = 0, !.l[l].room = 0, !.l[l].pc = IF none THEN "sleep" ELSE "write"]
Fill(l) ==
    LET C == [Now EXCEPT !.l[l].capMarked = FALSE]
        D == IF Race THEN RaceFill(C, l, pl[l].at) ELSE PlaceDgrams(C, l, pl[l].at)
    IN  /\ pl[l].pc = "fill"
        /\ Becomes(IF pl[l].st = "dead" THEN [Now EXCEPT !.l[l].pc = "sleep", !.l[l].at = 0, !.l[l].room = 0]
                   ELSE Filled(IF pl[l].data /\ ~pk.ended THEN PlaceFin(D, l, pl[l].at) ELSE C, l))
        /\ UNCHANGED <<kplan, clk, pnet, rcv>>

\* The control pass of a shared trunk's writer: the FIN's part alone
ControlPass(l) ==
    LET F == PlaceFin(Now, l, pl[l].at)
    IN  /\ Can("control") /\ pl[l].pc = "fill" /\ pl[l].st # "dead" /\ pl[l].data /\ ~pk.ended
        /\ F # Now /\ Becomes(F)
        /\ UNCHANGED <<kplan, clk, pnet, rcv>>

\* The writer's round ends: it begins another one
RoundOver(S, l) == IF S.l[l].batch = <<>> THEN [S EXCEPT !.l[l].pc = "sleep", !.l[l].tok = TRUE] ELSE S
Frame(f) == [type |-> IF f.id = 0 THEN "FIN" ELSE "DGRAM", id |-> f.id, seq |-> f.seq]

\* dgWriteBatch, one datagram: it is written, or refused as too large and
\* the budget shrinks (dgShrink); either way it counts as sent
Write(l) ==
    LET f == Head(pl[l].batch)
        N == [Now EXCEPT !.l[l].batch = Tail(@), !.l[l].blocked = FALSE]
    IN  /\ IsDgram(l) /\ pl[l].pc = "write" /\ pl[l].st = "up"
        /\ \/ pnet' = pnet \cup {Frame(f)} /\ Becomes(RoundOver(N, l))
           \/ /\ Can("shrinks") /\ f.id # 0 /\ pl[l].max > 1 /\ Size(f.id) = pl[l].max
              /\ Becomes(RoundOver([N EXCEPT !.l[l].max = @ - 1], l))
              /\ UNCHANGED pnet
        /\ UNCHANGED <<kplan, clk, rcv>>

\* The write fails for good, or finds the carrier dead: this datagram and
\* the round's rest never left and go back.  After an invalid count the
\* call's datagram may have left: only the rest goes back
WriteFails(l) ==
    LET f == Head(pl[l].batch)
        dead == IF pl[l].st = "up" THEN "dying" ELSE pl[l].st
        N == [Now EXCEPT !.l[l].st = dead, !.l[l].pc = "return", !.l[l].blocked = FALSE]
    IN  /\ IsDgram(l) /\ pl[l].pc = "write" /\ Can("dies")
        /\ \/ Becomes(N) /\ UNCHANGED pnet
           \/ /\ Can("count") /\ pl[l].st = "up"
              /\ Becomes([N EXCEPT !.l[l].batch = Tail(@)])
              /\ pnet' \in {pnet, pnet \cup {Frame(f)}}
        /\ UNCHANGED <<kplan, clk, rcv>>

\* Mutant: a datagram taken back stays counted as sent
Unsent_StaysSent(S, f) ==
    LET P == IF Race THEN [S EXCEPT !.p.pc[f.id] = @ - 1] ELSE S
    IN  IF Race /\ P.p.pc[f.id] > 0 THEN [s |-> P, wake |-> FALSE]
        ELSE [s |-> Redo(P, [id |-> f.id, seq |-> f.seq, at |-> f.at, wide |-> f.wide]), wake |-> TRUE]

\* pktUnsentLocked, of frame f
Unsent(S, f) ==
    LET r == [id |-> f.id, seq |-> f.seq, at |-> f.at, wide |-> f.wide]
        P == IF Race THEN [S EXCEPT !.p.pc[f.id] = @ - 1] ELSE S
        U == [P EXCEPT !.p.sent = @ - 1]
        R == IF Race /\ \E i \in DOMAIN S.p.tx : S.p.tx[i].id = f.id THEN U ELSE Redo(U, r)
    IN  IF Race /\ P.p.pc[f.id] > 0 THEN [s |-> P, wake |-> FALSE]
        ELSE [s |-> R, wake |-> R.p.dropped = S.p.dropped]

\* dgReturnUnsent, one DGRAM
Return(l) ==
    LET b == pl[l].batch
        N == [Now EXCEPT !.l[l].batch = Tail(@)]
        U == Unsent(N, Head(b))
    IN  /\ pl[l].pc = "return"
        /\ IF b = <<>> THEN Becomes([Now EXCEPT !.l[l].pc = "gone"])
           ELSE IF b[1].id = 0 THEN Becomes(N)
           ELSE IF U.wake THEN Waked(U.s) ELSE Becomes(U.s)
        /\ UNCHANGED <<kplan, clk, pnet, rcv>>

\* A stream carrier writes its batch, or died
WriteStream(l) ==
    LET b == pl[l].batch
        N == [Now EXCEPT !.l[l].batch = <<>>, !.l[l].blocked = FALSE]
    IN  /\ ~IsDgram(l) /\ pl[l].pc = "write"
        /\ IF pl[l].st = "up"
           THEN /\ pnet' = pnet \cup {Frame(b[i]) : i \in DOMAIN b}
                /\ Becomes(RoundOver([N EXCEPT !.l[l].infl = kplan.lanes[l].max - Left(Now, l)], l))
           ELSE Becomes([N EXCEPT !.l[l].pc = "gone"]) /\ UNCHANGED pnet
        /\ UNCHANGED <<kplan, clk, rcv>>

\* A write has not returned for a while (plane.WriteBlocked)
WriteBlocked(l) ==
    LET B == [Now EXCEPT !.l[l].blocked = TRUE]
    IN  /\ Can("blocks") /\ pl[l].pc = "write" /\ ~pl[l].blocked
        /\ IF kplan.mode = "bond" THEN Waked(B) ELSE Becomes(B)
        /\ UNCHANGED <<kplan, clk, pnet, rcv>>

\* A PONG frees the capacity and wakes a writer whose batch was marked
Pong(l) ==
    /\ pl[l].infl > 0 /\ pl[l].st = "up"
    /\ pl' = [pl EXCEPT ![l].infl = 0, ![l].tok = @ \/ pl[l].capMarked]
    /\ UNCHANGED <<kplan, clk, pk, pnet, rcv>>

-----------------------------------------------------------------------------
(* The peer's receive side.  The network may lose, repeat and reorder      *)

PeerStep == UNCHANGED <<kplan, clk, pk, pl, pnet>>
NewPack(r) == [type |-> "PACK", id |-> Cardinality(r.got), seq |-> IF r.eof THEN 1 ELSE 0]

\* pktFinCheckLocked
FinCheck(r) == IF r.fin # Never /\ r.q = <<>> /\ (Cardinality(r.got) >= r.fin \/ r.waited)
               THEN [r EXCEPT !.eof = TRUE] ELSE r

\* datagramLocked and acceptDatagramLocked; the window is wide enough for
\* every seq of an instance
RecvDgram(m) ==
    LET beyond == rcv.fin # Never /\ m.seq >= rcv.fin
        queue  == IF rcv.closed THEN rcv.q
                  ELSE Append(IF Len(rcv.q) < QueueMax THEN rcv.q ELSE Tail(rcv.q), m.id)
    IN  /\ m.type = "DGRAM"
        /\ IF beyond THEN rcv' = [rcv EXCEPT !.viol = TRUE]
           ELSE /\ m.seq \notin rcv.got /\ ~rcv.eof
                /\ rcv' = [rcv EXCEPT !.got = @ \cup {m.seq}, !.q = queue]
        /\ PeerStep

\* pktFinLocked at the peer: a conflicting final seq and one below an
\* accepted datagram are violations
RecvFin(m) ==
    /\ m.type = "FIN"
    /\ IF rcv.fin # Never THEN m.seq # rcv.fin /\ rcv' = [rcv EXCEPT !.viol = TRUE]
       ELSE IF \E s \in rcv.got : m.seq <= s THEN rcv' = [rcv EXCEPT !.viol = TRUE]
       ELSE rcv' = [FinCheck([rcv EXCEPT !.fin = m.seq]) EXCEPT !.eof = @ \/ rcv.closed]
    /\ PeerStep

\* The straggler bound passes and the actor checks the FIN again
FinWaited ==
    /\ rcv.fin # Never /\ ~rcv.waited /\ ~rcv.eof
    /\ rcv' = FinCheck([rcv EXCEPT !.waited = TRUE])
    /\ PeerStep

\* readFrom: the head is detached under the lock and copied outside it
ReadFrom ==
    /\ rcv.q # <<>> /\ rcv.copy = Never
    /\ rcv' = [rcv EXCEPT !.q = Tail(@), !.copy = rcv.q[1]]
    /\ PeerStep
ReadCommit ==
    /\ rcv.copy # Never
    /\ LET r == [rcv EXCEPT !.copy = Never]
       IN  rcv' = IF rcv.closed THEN r ELSE FinCheck([r EXCEPT !.ret = Append(@, rcv.copy)])
    /\ PeerStep

\* pktCloseAppLocked at the peer
PeerCloses ==
    /\ Can("peer closes") /\ ~rcv.closed
    /\ rcv' = [rcv EXCEPT !.closed = TRUE, !.q = <<>>, !.eof = @ \/ rcv.fin # Never]
    /\ PeerStep

\* placePackLocked: a PACK reports the values current at its placement
PlacePack ==
    /\ NewPack(rcv) \notin pnet /\ (rcv.eof \/ Can("packs"))
    /\ pnet' = pnet \cup {NewPack(rcv)}
    /\ UNCHANGED <<kplan, clk, pk, pl, rcv>>

\* packLocked
RecvPack(m) ==
    /\ m.type = "PACK" /\ ~pk.ended
    /\ IF m.id > pk.next \/ (m.seq = 1 /\ pk.finOff = Never)
       THEN rcv' = [rcv EXCEPT !.viol = TRUE] /\ UNCHANGED <<pk, pl>>
       ELSE /\ m.seq = 1 /\ ~pk.finAcked
            /\ pk' = [pk EXCEPT !.finAcked = TRUE, !.finLane = 0]
            /\ pl' = [l \in Lane |-> IF l = pk.finLane THEN [pl[l] EXCEPT !.finHere = FALSE] ELSE pl[l]]
            /\ UNCHANGED rcv
    /\ UNCHANGED <<kplan, clk, pnet>>

PNext ==
    \/ Tick \/ WriteTo \/ Close \/ PeerFin \/ End \/ AgeOut
    \/ \E l \in Lane : \/ Routed(l) \/ Killed(l) \/ Reap(l) \/ RoundBegin(l) \/ ControlPass(l) \/ Fill(l)
                       \/ Write(l) \/ WriteFails(l) \/ Return(l) \/ WriteStream(l) \/ WriteBlocked(l) \/ Pong(l)
    \/ /\ Can("recv")
       /\ \/ \E m \in pnet : RecvDgram(m) \/ RecvFin(m) \/ RecvPack(m)
          \/ FinWaited \/ ReadFrom \/ ReadCommit \/ PeerCloses \/ PlacePack

PSpec == PInit /\ [][PNext]_pktVars

-----------------------------------------------------------------------------
(* Properties                                                              *)

\* Every datagram WriteTo accepted is counted exactly once, as sent, as
\* dropped, or it still waits in a queue or on the redo list - also while
\* a dying carrier hands datagrams back, race members hold copies of them,
\* and queues are aged, evicted and released (the identity of
\* PacketCounters); and the peer never accepts more than was sent
PacketAccounted ==
    /\ pk.accepted = pk.sent + pk.dropped + Unplaced(Now, pk.tx) + Len(pk.big) + Len(pk.redo)
    /\ Cardinality(rcv.got) <= pk.sent

\* The final seq a FIN announced is final: no datagram is given it or one
\* above it, on whatever lane and from whatever hand-back, so the peer never
\* sees a violation of a FIN; and ReadFrom returns no datagram twice
PacketFinExact ==
    /\ pk.finOff # Never => pk.next = pk.finOff
    /\ ~rcv.viol
    /\ IsInjective(rcv.ret)

\* Nothing that could leave is left waiting by a lost wake-up: while a
\* datagram waits that a live lane could place now, or our FIN is due, some
\* live lane's writer is awake or will be (pktWakeDataLocked, idle, the mark
\* a PONG answers)
PacketAwake ==
    LET head == IF pk.big # <<>> THEN {Size(pk.big[1].id)} ELSE {}
        tx   == IF HeadSize(Now) > 0 THEN {HeadSize(Now)} ELSE {}
        fits(l, n) == IF IsDgram(l) THEN pl[l].max >= n ELSE TRUE
        due  == \/ \E n \in tx : \E l \in Data(Now) : fits(l, n)
                \/ head # {}
                \/ tx = {} /\ head = {} /\ FinDue(Now)
    IN  ~Race /\ ~pk.ended /\ due /\ Data(Now) # {} =>
            \E l \in Data(Now) : \/ pl[l].st = "dying" \/ pl[l].tok \/ pl[l].pc # "sleep"
                                 \/ pl[l].capMarked /\ pl[l].infl > 0

=============================================================================
