-------------------------------- MODULE Rel --------------------------------
(***************************************************************************)
(* The reliable control sublayer of a datagram carrier                     *)
(* (internal/carrier/rel.go) with the rounds of the writer that drives it  *)
(* (dgwrite.go) and the reader that feeds it (dgread.go), at both ends of  *)
(* one carrier.                                                            *)
(*                                                                         *)
(* Control frames travel as REL frames numbered with a cseq, at most       *)
(* RelWindow outstanding; only the oldest one is ever resent; a RACK       *)
(* carries the receiver's cumulative point and the frames it holds out of  *)
(* order.  A CLOSE is a side's last REL, and the carrier retires when both *)
(* CLOSEs are acknowledged, or at a bound.                                 *)
(*                                                                         *)
(* The network is the set of frames ever written: a frame may be received  *)
(* any number of times, in any order, or never.  A resent REL is a new     *)
(* outer frame around the same payload, so the fseq window of the reader   *)
(* does not stop the copies.  Frames packed into one datagram are received *)
(* one after the other like frames that travelled alone.  Timers are armed *)
(* or not: an armed one may fire at any moment, which is what backoff, the *)
(* smoothed RTT and the implied loss of a burst decide in the code.        *)
(***************************************************************************)
EXTENDS Integers, FiniteSets

CONSTANTS RelWindow,   \* wire.RelWindow
          RelFirstKeep,\* relFirstKeep
          SeqMod,      \* cseqs are numbers modulo SeqMod (2^32 in the code)
          FirstCseq,   \* the first cseq of both sides
          RelPlans     \* [first, other, retire, answers, noise]: see AppFrame, Retire, RoundWrite

VARIABLES relPlan, \* what the sessions on the carrier will ask for; never changes
          rel,     \* relState of each side
          wrt,     \* the writer goroutine and its round
          rdr,     \* the frame the reader dispatched but did not count yet, or None
          trunk,   \* the carrier's flags and what its sessions want sent
          rwake,   \* the writer's wake token
          rnet     \* the frames each side wrote

relVars == <<relPlan, rel, wrt, rdr, trunk, rwake, rnet>>

Side == {1, 2}
Peer(s) == 3 - s
None == -1

\* wire.SeqLess and the arithmetic of u32 cseqs
Plus(c, k) == (c + k) % SeqMod
SeqLess(a, b) == (b - a) % SeqMod \in 1..(SeqMod \div 2 - 1)
Slot(c) == c % RelWindow

EmptyRound == [room |-> 0, keep |-> 0, rack |-> None, held |-> {}, retx |-> None,
               retiring |-> FALSE, closing |-> FALSE, new |-> {}, close |-> FALSE]

RelInit == /\ relPlan \in RelPlans
           /\ rel = [s \in Side |->
                [next |-> FirstCseq, una |-> FirstCseq,
                 slot |-> [i \in 0..(RelWindow - 1) |-> None],
                 due |-> FALSE, blocked |-> FALSE, keep |-> FALSE,
                 cum |-> (FirstCseq - 1) % SeqMod,
                 held |-> [i \in 0..(RelWindow - 1) |-> None], rackDue |-> FALSE]]
           /\ wrt = [s \in Side |-> [pc |-> "round", timer |-> FALSE, r |-> EmptyRound]]
           /\ rdr = [s \in Side |-> None]
           /\ trunk = [s \in Side |->
                [first |-> 0, other |-> 0, asked |-> 0, retiring |-> FALSE,
                 closeSent |-> FALSE, closeCseq |-> None, peerClose |-> None,
                 racked |-> FALSE, ended |-> "no", viol |-> FALSE]]
           /\ rwake = [s \in Side |-> FALSE]
           /\ rnet = [s \in Side |-> {}]

-----------------------------------------------------------------------------
(* The sender's state                                                      *)

\* room
Room(r) == RelWindow - ((r.next - r.una) % SeqMod)

Outstanding(r) == r.una # r.next

\* A retirement that does not wait for the RACK of our own CLOSE
RetireDone_Unacked(t, r) == t.closeSent /\ t.peerClose # None /\ t.racked

\* dgRetireDoneLocked
RetireDone(t, r) ==
    t.closeSent /\ ~Outstanding(r) /\ t.peerClose # None /\ t.racked

\* finishRetire: the carrier ends, its writer and its reader with it
Ended(t, why) == IF t.ended = "no" THEN [t EXCEPT !.ended = why] ELSE t

Live(s) == trunk[s].ended = "no" /\ ~trunk[s].viol

\* relAttemptedLocked, once the round's datagrams were attempted: the timer
\* is armed while a REL is outstanding and cleared otherwise
Attempted(r) == [r EXCEPT !.due = Outstanding(r)]

\* relOnRack with a cumAck at or beyond una
Progress(r, cumAck) ==
    LET q == [r EXCEPT !.una = Plus(cumAck, 1)]
    IN  [q EXCEPT !.due = Outstanding(q), !.blocked = @ /\ Room(q) <= 0]

-----------------------------------------------------------------------------
(* The sessions on the carrier                                             *)

\* A reliable frame becomes due in a session: a view's first frame, or
\* another; the session wakes the writer
AppFrame(s, kind) ==
    /\ Live(s) /\ ~trunk[s].closeSent
    /\ kind \in {"first", "other"}
    /\ trunk[s].asked < relPlan[kind][s] + (IF kind = "other" THEN relPlan.first[s] ELSE 0)
    /\ (kind = "first") = (trunk[s].asked < relPlan.first[s])
    /\ trunk' = [trunk EXCEPT ![s][kind] = @ + 1, ![s].asked = @ + 1]
    /\ rwake' = [rwake EXCEPT ![s] = TRUE]
    /\ UNCHANGED <<relPlan, rel, wrt, rdr, rnet>>

\* Retire: the carrier's owner retires it (a carrier that answers does so
\* when the peer's CLOSE is dispatched)
Retire(s) ==
    /\ Live(s) /\ ~trunk[s].retiring
    /\ s \in relPlan.retire
    /\ trunk' = [trunk EXCEPT ![s].retiring = TRUE]
    /\ rwake' = [rwake EXCEPT ![s] = TRUE]
    /\ UNCHANGED <<relPlan, rel, wrt, rdr, rnet>>

\* relKeepLocked: no first frame was sealed within the last RTO
KeepEnds(s) ==
    /\ Live(s) /\ rel[s].keep
    /\ rel' = [rel EXCEPT ![s].keep = FALSE]
    /\ UNCHANGED <<relPlan, wrt, rdr, trunk, rwake, rnet>>

-----------------------------------------------------------------------------
(* The writer's round (dgWriteRound, dgWriteBatch)                         *)

\* The control frames of a round, under Conn.mu: the REL room, the RACK when
\* one is due and, when its timer has expired, the resend of una
RoundControl(s) ==
    /\ wrt[s].pc = "round" /\ Live(s)
    /\ LET r == rel[s]
       IN  \E resend \in (IF r.due /\ Outstanding(r) THEN BOOLEAN ELSE {FALSE}) :
             wrt' = [wrt EXCEPT ![s] =
               [pc |-> "fill", timer |-> FALSE,
                r |-> [EmptyRound EXCEPT
                         !.room = IF trunk[s].closeSent THEN 0 ELSE Room(r),
                         !.keep = IF r.keep THEN RelFirstKeep ELSE 0,
                         !.rack = IF r.rackDue THEN r.cum ELSE None,
                         !.held = IF r.rackDue THEN {r.held[i] : i \in DOMAIN r.held} \ {None} ELSE {},
                         !.retx = IF resend THEN r.slot[Slot(r.una)] ELSE None,
                         !.retiring = trunk[s].retiring,
                         !.closing = trunk[s].closeSent]]]
    /\ rel' = [rel EXCEPT ![s].rackDue = FALSE]
    /\ UNCHANGED <<relPlan, rdr, trunk, rwake, rnet>>

\* addReliable: the first frames f and the others o that the sessions place
\* in a round, in any order, until the room (for the others, less the room
\* kept for first frames) is used
Placed(t, r, f, o) ==
    /\ f + o <= r.room /\ (o = 0 \/ o <= r.room - r.keep)
    /\ f = t.first \/ f + o = r.room
    /\ o = t.other \/ f + o >= r.room - r.keep

\* relSealLocked: the new frames get the next cseqs, and their payloads the slots
Sealed(r, k, first) ==
    [r EXCEPT !.next = Plus(@, k),
              !.slot = [i \in DOMAIN @ |->
                  LET new == {c \in {Plus(r.next, j) : j \in 0..(k - 1)} : Slot(c) = i}
                  IN  IF new = {} THEN @[i] ELSE CHOOSE c \in new : \A d \in new : ~SeqLess(c, d)],
              !.keep = @ \/ first > 0]

\* Fill, the CLOSE of a retiring carrier in a round without session frames,
\* the seal, and the flag or the wake of a refused frame, under Conn.mu
RoundFill(s) ==
    /\ wrt[s].pc = "fill" /\ Live(s)
    /\ LET r == wrt[s].r
           t == trunk[s]
       IN  \E f \in 0..t.first, o \in 0..t.other :
             LET wants == r.retiring /\ f + o = 0
                 close == wants /\ r.room > r.keep
                 k     == f + o + (IF close THEN 1 ELSE 0)
                 sent  == Sealed(rel[s], k, f)
                 short == f < t.first \/ o < t.other \/ (wants /\ ~close)
                 again == Room(sent) > r.keep \/ (Room(sent) > 0 /\ f + o >= r.room)
             IN  /\ IF r.closing THEN f = 0 /\ o = 0 ELSE Placed(t, r, f, o)
                 /\ rel' = [rel EXCEPT ![s] =
                      IF short /\ ~r.closing /\ ~again THEN [sent EXCEPT !.blocked = TRUE]
                      ELSE sent]
                 /\ rwake' = [rwake EXCEPT ![s] = @ \/ (short /\ ~r.closing /\ again)]
                 /\ trunk' = [trunk EXCEPT ![s].first = @ - f, ![s].other = @ - o,
                                ![s].closeCseq = IF close THEN rel[s].next ELSE @]
                 /\ wrt' = [wrt EXCEPT
                      ![s].pc = IF r.rack = None /\ r.retx = None /\ k = 0 THEN "sleep" ELSE "write",
                      ![s].r.new = {Plus(rel[s].next, j) : j \in 0..(k - 1)},
                      ![s].r.close = close]
    /\ UNCHANGED <<relPlan, rdr, rnet>>

\* The datagrams are handed to the transport; the one with the RACK may be
\* lost to noise, which the writer knows
RoundWrite(s) ==
    /\ wrt[s].pc = "write" /\ Live(s)
    /\ LET r    == wrt[s].r
           rack == IF r.rack = None THEN {} ELSE {[t |-> "RACK", cum |-> r.rack, held |-> r.held]}
           rels == r.new \union ({r.retx} \ {None})
       IN  \E noise \in (IF relPlan.noise /\ rack # {} THEN BOOLEAN ELSE {FALSE}) :
             /\ rnet' = [rnet EXCEPT ![s] =
                  @ \union {[t |-> "REL", cseq |-> c] : c \in rels}
                    \union (IF noise THEN {} ELSE rack)]
             /\ wrt' = [wrt EXCEPT ![s].pc = IF r.close THEN "stored" ELSE "commit",
                                   ![s].r.rack = IF noise THEN None ELSE @]
    /\ UNCHANGED <<relPlan, rel, rdr, trunk, rwake>>

\* The CLOSE counts as sent once its datagram was attempted
CloseStored(s) ==
    /\ wrt[s].pc = "stored" /\ Live(s)
    /\ trunk' = [trunk EXCEPT ![s].closeSent = TRUE]
    /\ wrt' = [wrt EXCEPT ![s].pc = "commit"]
    /\ UNCHANGED <<relPlan, rel, rdr, rwake, rnet>>

\* The commit of the round under Conn.mu, and the end of a complete retirement
RoundCommit(s) ==
    /\ wrt[s].pc = "commit" /\ Live(s)
    /\ LET r == wrt[s].r
           t == [trunk[s] EXCEPT !.racked = @ \/ (r.rack # None /\ trunk[s].peerClose # None
                                                  /\ ~SeqLess(r.rack, trunk[s].peerClose))]
       IN  /\ rel' = [rel EXCEPT ![s] = Attempted(rel[s])]
           /\ trunk' = [trunk EXCEPT ![s] =
                IF RetireDone(t, Attempted(rel[s])) THEN Ended(t, "exchange") ELSE t]
    /\ wrt' = [wrt EXCEPT ![s] = [pc |-> "round", timer |-> FALSE, r |-> EmptyRound]]
    /\ UNCHANGED <<relPlan, rdr, rwake, rnet>>

\* dgSleep after an empty round: the writer sleeps on the REL timer, if armed
Sleep(s) ==
    /\ wrt[s].pc = "sleep" /\ Live(s)
    /\ wrt' = [wrt EXCEPT ![s] = [pc |-> "asleep", r |-> EmptyRound,
                                  timer |-> Outstanding(rel[s]) /\ rel[s].due]]
    /\ UNCHANGED <<relPlan, rel, rdr, trunk, rwake, rnet>>

WakeUp(s) ==
    /\ wrt[s].pc = "asleep" /\ rwake[s] /\ Live(s)
    /\ rwake' = [rwake EXCEPT ![s] = FALSE]
    /\ wrt' = [wrt EXCEPT ![s].pc = "round", ![s].timer = FALSE]
    /\ UNCHANGED <<relPlan, rel, rdr, trunk, rnet>>

\* The timer fires: a round while a REL is outstanding; otherwise the sleep
\* goes on without a timer
TimerFires(s) ==
    /\ wrt[s].pc = "asleep" /\ wrt[s].timer /\ Live(s)
    /\ wrt' = [wrt EXCEPT ![s].timer = FALSE,
                          ![s].pc = IF Outstanding(rel[s]) /\ rel[s].due THEN "round" ELSE "asleep"]
    /\ UNCHANGED <<relPlan, rel, rdr, trunk, rwake, rnet>>

\* dgCloseWritten: the bound of the retirement passes
DrainBound(s) ==
    /\ Live(s) /\ trunk[s].closeSent
    /\ trunk' = [trunk EXCEPT ![s] = Ended(@, "bound")]
    /\ UNCHANGED <<relPlan, rel, wrt, rdr, rwake, rnet>>

-----------------------------------------------------------------------------
(* The reader                                                              *)

\* relOnRack: a cseq never sent is a violation, a RACK below una is stale.
\* A new una whose timeout is earlier than the one the writer sleeps on
\* wakes it too, as an armed timer does here at any moment
OnRack(s, m) ==
    /\ Live(s) /\ rdr[s] = None /\ m.t = "RACK"
    /\ LET r    == rel[s]
           last == Plus(r.next, -1)
           prog == ~SeqLess(m.cum, r.una)
           q    == Progress(r, m.cum)
       IN  IF SeqLess(last, m.cum) \/ \E c \in m.held : SeqLess(last, c)
             THEN /\ trunk' = [trunk EXCEPT ![s].viol = TRUE]
                  /\ UNCHANGED <<rel, rwake>>
             ELSE /\ prog
                  /\ rel' = [rel EXCEPT ![s] = q]
                  /\ trunk' = [trunk EXCEPT ![s] =
                       IF RetireDone(@, q) THEN Ended(@, "exchange") ELSE @]
                  /\ rwake' = [rwake EXCEPT ![s] =
                       @ \/ (Outstanding(q) /\ ~r.due) \/ (r.blocked /\ ~q.blocked)]
    /\ UNCHANGED <<relPlan, wrt, rdr, rnet>>

\* relDispatch: a CLOSE is recorded and, on a carrier that answers it
\* (sessionless, or a trunk), retires this side too; any other frame goes
\* to its endpoint.  woken: the reader wakes the writer anyway
Dispatch(s, c, woken) ==
    LET close  == c = trunk[Peer(s)].closeCseq
        answer == close /\ s \in relPlan.answers /\ ~trunk[s].retiring
    IN  /\ rdr' = [rdr EXCEPT ![s] = c]
        /\ trunk' = [trunk EXCEPT ![s].peerClose = IF close THEN c ELSE @,
                                 ![s].retiring = @ \/ answer]
        /\ rwake' = [rwake EXCEPT ![s] = @ \/ woken \/ answer]

\* relOnRel: a copy of what was dispatched or is held is answered again
Duplicate(r, c) == ~SeqLess(r.cum, c) \/ r.held[Slot(c)] = c

RelDuplicate(s, m) ==
    /\ Live(s) /\ rdr[s] = None /\ m.t = "REL" /\ Duplicate(rel[s], m.cseq)
    /\ rel' = [rel EXCEPT ![s].rackDue = TRUE]
    /\ rwake' = [rwake EXCEPT ![s] = TRUE]
    /\ UNCHANGED <<relPlan, wrt, rdr, trunk, rnet>>

\* relOnRel: a new cseq; nothing new follows the peer's CLOSE
RelNew(s, m) ==
    /\ Live(s) /\ rdr[s] = None /\ m.t = "REL" /\ ~Duplicate(rel[s], m.cseq)
    /\ trunk[s].peerClose = None
    /\ LET c == m.cseq
           d == (c - rel[s].cum) % SeqMod
       IN  \/ /\ d > RelWindow
              /\ trunk' = [trunk EXCEPT ![s].viol = TRUE]
              /\ UNCHANGED <<rel, rdr, rwake>>
           \/ /\ d \in 2..RelWindow
              /\ rel' = [rel EXCEPT ![s].held[Slot(c)] = c, ![s].rackDue = TRUE]
              /\ rwake' = [rwake EXCEPT ![s] = TRUE]
              /\ UNCHANGED <<rdr, trunk>>
           \/ /\ d = 1
              /\ Dispatch(s, c, FALSE)
              /\ UNCHANGED rel
    /\ UNCHANGED <<relPlan, wrt, rnet>>

\* relAdvance: the frame counts as received once its endpoint call returned;
\* then the held successor, if any, is dispatched
RelAdvance(s) ==
    /\ Live(s) /\ rdr[s] # None
    /\ LET c == rdr[s]
           r == [rel[s] EXCEPT !.cum = c, !.held[Slot(c)] = None, !.rackDue = TRUE]
           n == r.held[Slot(Plus(c, 1))]
       IN  /\ rel' = [rel EXCEPT ![s] = r]
           /\ IF trunk[s].peerClose = None /\ n # None
                THEN Dispatch(s, n, TRUE)
                ELSE /\ rdr' = [rdr EXCEPT ![s] = None]
                     /\ rwake' = [rwake EXCEPT ![s] = TRUE]
                     /\ UNCHANGED trunk
    /\ UNCHANGED <<relPlan, wrt, rnet>>

RelStep(s) ==
    \/ \E kind \in {"first", "other"} : AppFrame(s, kind)
    \/ Retire(s) \/ KeepEnds(s)
    \/ RoundControl(s) \/ RoundFill(s) \/ RoundWrite(s) \/ CloseStored(s) \/ RoundCommit(s)
    \/ Sleep(s) \/ WakeUp(s) \/ TimerFires(s) \/ DrainBound(s)
    \/ \E m \in rnet[Peer(s)] : OnRack(s, m) \/ RelDuplicate(s, m) \/ RelNew(s, m)
    \/ RelAdvance(s)

RelNext == \E s \in Side : RelStep(s)

RelSpec == RelInit /\ [][RelNext]_relVars

-----------------------------------------------------------------------------
(* A writer asleep, with no wake-up on its way *)
Asleep(s) == Live(s) /\ wrt[s].pc = "asleep" /\ ~rwake[s] /\ rdr[s] = None

\* A sleeping writer owes nothing: no RACK is due, a REL that waits for its
\* RACK has its timer running, and a frame still due in a session, or the
\* CLOSE of a retiring carrier, waits for room that an outstanding REL's
\* RACK will free (the blocked flag).  Control frames are never forgotten.
RelNeverStuck ==
    \A s \in Side : Asleep(s) =>
        /\ ~rel[s].rackDue
        /\ Outstanding(rel[s]) => wrt[s].timer
        /\ ~trunk[s].closeSent /\ (trunk[s].first + trunk[s].other > 0 \/ trunk[s].retiring)
             => rel[s].blocked /\ Outstanding(rel[s])

\* The window is exact: a slot holds its REL until the REL is acknowledged,
\* whatever is sent, lost, resent and acknowledged meanwhile; the reader
\* dispatches the cseqs one by one, each from the payload sent with it; and
\* neither side ever takes the other's RELs or RACKs for a violation.
RelExact ==
    \A s \in Side :
        /\ \A k \in 0..(RelWindow - 1) :
             k < (rel[s].next - rel[s].una) % SeqMod =>
                 rel[s].slot[Slot(Plus(rel[s].una, k))] = Plus(rel[s].una, k)
        /\ rdr[s] # None => rdr[s] = Plus(rel[s].cum, 1)
        /\ ~trunk[s].viol

\* A retirement that completed by the exchange of CLOSEs lost nothing: all
\* the frames this side sent were dispatched by the peer, its CLOSE last,
\* and all the peer's were dispatched here.
RetiredComplete ==
    \A s \in Side : trunk[s].ended = "exchange" =>
        LET p == Peer(s)
            all(a, b) == rel[a].next = Plus(rel[b].cum, 1)
                           \/ (rdr[b] # None /\ rel[a].next = Plus(rdr[b], 1))
        IN  all(s, p) /\ all(p, s) /\ trunk[s].closeCseq = trunk[p].peerClose
=============================================================================
